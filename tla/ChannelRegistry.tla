-------------------------- MODULE ChannelRegistry --------------------------
(* What the epicschannel package promises the sections of an application      *)
(* that share it: a channel is there as long as somebody who asked for it has *)
(* not deleted it, a variable follows one channel at most, and only a script  *)
(* that writes a linked variable makes the package set a channel.             *)
EXTENDS Integers

CONSTANTS Names, Vars, Values, NULL

VARIABLES
  count,    \* how many have asked for each channel
  follows,  \* which variable is linked to which channel
  put       \* the last value set on a channel through a variable

vars == <<count, follows, put>>

Init ==
  /\ count = [n \in Names |-> 0]
  /\ follows = {}
  /\ put = NULL

Acquire(n) ==
  /\ count' = [count EXCEPT ![n] = @ + 1]
  /\ UNCHANGED <<follows, put>>

(* The last release takes the links of the channel with it.                   *)
Release(n) ==
  /\ count[n] > 0
  /\ count' = [count EXCEPT ![n] = @ - 1]
  /\ follows' = IF count[n] = 1 THEN {f \in follows : f[2] # n} ELSE follows
  /\ UNCHANGED put

Link(v, n) ==
  /\ count[n] > 0
  /\ \A m \in Names : <<v, m>> \notin follows
  /\ follows' = follows \cup {<<v, n>>}
  /\ UNCHANGED <<count, put>>

Unlink(v, n) ==
  /\ <<v, n>> \in follows
  /\ follows' = follows \ {<<v, n>>}
  /\ UNCHANGED <<count, put>>

Write(v, n, x) ==
  /\ put' = [name |-> n, value |-> x]
  /\ <<v, n>> \in follows
  /\ UNCHANGED <<count, follows>>

Next ==
  \E n \in Names :
    \/ Acquire(n) \/ Release(n)
    \/ \E v \in Vars :
         \/ Link(v, n) \/ Unlink(v, n)
         \/ \E x \in Values : Write(v, n, x)

Spec == Init /\ [][Next]_vars
=============================================================================
