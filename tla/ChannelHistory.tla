--------------------------- MODULE ChannelHistory ---------------------------
(* The histories of a strip chart (channelHistory, src/epicsStripChart.tcl)   *)
(* and of a graph (channelPairHistory, src/epicsgraph.tcl): a timer reads the *)
(* channel, or both channels, and appends to vectors of times and of data     *)
(* that the widget draws against each other.                                  *)
(*                                                                            *)
(* The channel, x, is that of ChannelValues; the second channel of a pair, y, *)
(* reads anything such a channel can.  A time is represented by what was read *)
(* then, so that a vector of data is right if it matches the vector of times. *)
(* Vectors are BLT's: to append what is not all numbers, or to delete an      *)
(* element that is not there, is an error that leaves the vector alone.       *)
EXTENDS ChannelValues

CONSTANTS
  Kinds,       \* of these: "none" (a channel only), "strip", "pair"
  SampledPVs,  \* bound on what the process variable is while it is sampled
  YReadings,   \* what the second channel may read
  MaxPoints,   \* bound on the points of a history that keeps all of them
  MaxData      \* bound on data that has outgrown its times

ASSUME KindsAssumption == Kinds \subseteq {"none", "strip", "pair"}
ASSUME PointsAssumption == MaxPoints \in Nat \ {0} /\ MaxData \in Nat
ASSUME ReadingsAssumption ==
  YReadings \subseteq Seq(Int \cup Texts) \cup {NoReading}

VARIABLES
  kind,       \* of Kinds
  alive,      \* the object exists
  scheduled,  \* afterId's timer is pending
  maxKept,    \* 0: all points
  times, x, y,
  odd,        \* a sample has been read that is not one number
  kept        \* an update has come to its end after the last call of keep

history == <<kind, alive, scheduled, maxKept, times, x, y, odd, kept>>
vars    == <<channel, history>>

(* The constructor makes the vectors and schedules.  Its own first update is  *)
(* the first Sample here.                                                     *)
Init ==
  /\ InitChannel
  /\ kind \in Kinds
  /\ kind # "none" => pv \in SampledPVs
  /\ alive = (kind # "none") /\ scheduled = alive /\ maxKept = 0
  /\ times = <<>> /\ x = <<>> /\ y = <<>> /\ odd = FALSE /\ kept = FALSE

-----------------------------------------------------------------------------
Numeric(reading) == \A i \in DOMAIN reading : reading[i] \notin Texts
OneNumber(reading) == Len(reading) = 1 /\ Numeric(reading)

Drop(n, s) == SubSeq(s, n + 1, Len(s))

(* The time of a reading, by what was read; Blank if not one number.          *)
Stamp(reading) == IF OneNumber(reading) THEN reading[1] ELSE Blank

(* Appending a sample to the vectors one after the other: <<times, x, y, ok>>.*)
Appended(xr, yr) ==
  LET t == Append(times, <<Stamp(xr), Stamp(yr)>>)
  IN  IF ~Numeric(xr) THEN <<t, x, y, FALSE>>
      ELSE IF kind = "strip" THEN <<t, x \o xr, y, TRUE>>
      ELSE IF ~Numeric(yr) THEN <<t, x \o xr, y, FALSE>>
      ELSE <<t, x \o xr, y \o yr, TRUE>>

(* Mutant: the times of a strip chart are trimmed, the data is not.           *)
Cleared_TimesOnly(n, t, xs, ys) ==
  IF kind = "strip" THEN <<Drop(n, t), xs, ys, TRUE>>
  ELSE <<Drop(n, t), Drop(n, xs), Drop(n, ys), TRUE>>

(* clearfirst, n being no more than there are times.  A strip chart deletes n *)
(* elements of each vector at a time, and there have to be some to delete; a  *)
(* pair deletes one of each, n times.                                         *)
Cleared(n, t, xs, ys) ==
  IF kind = "strip"
  THEN IF n = 0 THEN <<t, xs, ys, FALSE>>
       ELSE IF n <= Len(xs) THEN <<Drop(n, t), Drop(n, xs), ys, TRUE>>
       ELSE <<Drop(n, t), xs, ys, FALSE>>
  ELSE LET k == Least({n, Len(xs), Len(ys)})  \* rounds that succeed
       IN  IF k = n THEN <<Drop(n, t), Drop(n, xs), Drop(n, ys), TRUE>>
           ELSE <<Drop(k + 1, t), Drop(IF k = Len(xs) THEN k ELSE k + 1, xs),
                  Drop(k, ys), FALSE>>

(* How many points an update clears when there are n, more than maxKept: a    *)
(* strip chart clears a margin of ten percent too.                            *)
Excess(n) ==
  IF kind = "strip" THEN (10 * n - 9 * maxKept) \div 10 ELSE n - maxKept

(* Mutant: one point more than maxKept is left.                               *)
Trimmed_OffByOne(t, xs, ys) ==
  IF maxKept > 0 /\ Len(t) > maxKept + 1
  THEN Cleared(Excess(Len(t)) - 1, t, xs, ys)
  ELSE <<t, xs, ys, TRUE>>

(* The vectors, trimmed back to maxKept points or fewer.                      *)
Trimmed(t, xs, ys) ==
  IF maxKept > 0 /\ Len(t) > maxKept THEN Cleared(Excess(Len(t)), t, xs, ys)
  ELSE <<t, xs, ys, TRUE>>

VectorsBecome(r) == times' = r[1] /\ x' = r[2] /\ y' = r[3]

-----------------------------------------------------------------------------
(* Mutant: a channel that is not connected counts as a failed update.         *)
UpdateData_NeedsConnection(xr, yr) ==
  LET r == Appended(xr, yr)
      s == IF r[4] THEN Trimmed(r[1], r[2], r[3]) ELSE r
      skip == NoReading \in {xr, yr}
  IN  /\ \/ skip /\ UNCHANGED <<times, x, y>>
         \/ ~skip /\ VectorsBecome(s)
      /\ scheduled' = (~skip /\ s[4])
      /\ kept' = (~skip /\ s[4])

(* updateData.  What cannot be read is left out, and the next update is       *)
(* scheduled; after an error it is not.  A pair is trimmed all the same, a    *)
(* strip chart only if a sample was appended.                                 *)
UpdateData(xr, yr) ==
  LET skip == NoReading \in {xr, yr}
      r == IF skip THEN <<times, x, y, TRUE>> ELSE Appended(xr, yr)
      s == IF r[4] /\ ~(skip /\ kind = "strip") THEN Trimmed(r[1], r[2], r[3])
           ELSE r
  IN  /\ VectorsBecome(s)
      /\ scheduled' = s[4]
      /\ kept' = IF skip /\ kind = "strip" THEN kept ELSE s[4]

(* The timer expires.                                                         *)
Sample ==
  /\ alive /\ scheduled
  /\ maxKept = 0 => Len(times) < MaxPoints
  /\ Len(x) <= MaxData /\ Len(y) <= MaxData
  /\ \E yr \in IF kind = "pair" THEN YReadings ELSE {<<>>} :
       /\ UpdateData(Get, yr)
       /\ odd' = \/ odd
                 \/ /\ NoReading \notin {Get, yr}
                    /\ ~(OneNumber(Get) /\ (kind = "pair" => OneNumber(yr)))
  /\ UNCHANGED <<channel, kind, alive, maxKept>>

Keep ==
  /\ alive /\ maxKept' \in 1..MaxPoints
  /\ kept' = FALSE
  /\ UNCHANGED <<channel, kind, alive, scheduled, times, x, y, odd>>

(* clearfirst, called by the program.  Nothing to clear is, in a strip chart, *)
(* an error of the caller.                                                    *)
ClearFirst ==
  /\ alive
  /\ \E n \in 0..Len(times) : VectorsBecome(Cleared(n, times, x, y))
  /\ UNCHANGED <<channel, kind, alive, scheduled, maxKept, odd, kept>>

(* The destructor cancels the timer, if there has been one, and destroys the  *)
(* vectors.                                                                   *)
Destroy ==
  /\ alive /\ alive' = FALSE
  /\ scheduled' = FALSE
  /\ times' = <<>> /\ x' = <<>> /\ y' = <<>>
  /\ UNCHANGED <<channel, kind, maxKept, odd, kept>>

Next ==
  \/ /\ ChannelStep /\ UNCHANGED history
     /\ kind # "none" => pv' \in SampledPVs
  \/ Sample \/ Keep \/ ClearFirst \/ Destroy

Spec == Init /\ [][Next]_vars

-----------------------------------------------------------------------------
(* As long as every sample was one number, each time has the data that was    *)
(* read at it: the vectors stay aligned through samples left out, trimming    *)
(* and clearing.                                                              *)
PointsTrue ==
  ~odd => /\ Len(x) = Len(times)
          /\ \A i \in DOMAIN times : x[i] = times[i][1]
          /\ kind = "pair" => /\ Len(y) = Len(times)
                              /\ \A i \in DOMAIN times : y[i] = times[i][2]

(* After an update a history has no more points than it is to keep.           *)
KeepsNoMore == kept /\ maxKept > 0 => Len(times) <= maxKept

(* Sampling stops only at a sample that is not one number, or at the object's *)
(* end: not while the channel is not connected, and not because of trimming.  *)
KeepsSampling == alive /\ ~odd => scheduled
=============================================================================
