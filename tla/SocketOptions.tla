--------------------------- MODULE SocketOptions ---------------------------
(* What the methods of CSocket that configure a descriptor compute from their *)
(* arguments, with the widths of C (src/CSocket.cpp): a timeout goes to the   *)
(* kernel as a timeval of seconds and microseconds, and comes back as one;    *)
(* the number of a service is made a port, of 16 bits.  Module Socket has     *)
(* what a timeout is for.                                                     *)
EXTENDS Integers

CONSTANT UnsignedRange  \* the number of values of an unsigned int

ASSUME UnsignedAssumption == UnsignedRange \in Nat \ {0}

UnsignedInt == 0..(UnsignedRange - 1)
Timevals    == [tv_sec : Nat, tv_usec : {n \in Nat : n < 1000000}]
NoTimeout   == [tv_sec |-> 0, tv_usec |-> 0]

(* setRcvTimeout and setSndTimeout.                                           *)
Timeval(nMs) ==
  [tv_sec |-> nMs \div 1000, tv_usec |-> (nMs % 1000) * 1000]

(* getRcvTimeout and getSndTimeout: the statement ends before the             *)
(* microseconds are added, and the result is an unsigned int.                 *)
Milliseconds(timeout) == (timeout.tv_sec * 1000) % UnsignedRange

(* The port of a service that is given as a number.                           *)
Port(nport) == nport % 65536
=============================================================================
