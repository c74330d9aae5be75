---------------------------- MODULE MCEpicsServer ----------------------------
(* A small instance of EpicsServer for TLC: a request for one channel, and    *)
(* requests for both of them in either order.                                 *)
EXTENDS EpicsServer

CONSTANTS v, w

MCChannels == {v, w}
MCRequests == {<<v>>, <<w, v>>}
=============================================================================
