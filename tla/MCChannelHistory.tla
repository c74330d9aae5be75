--------------------------- MODULE MCChannelHistory ---------------------------
(* A small instance of ChannelHistory for TLC: two labels, one and an empty   *)
(* one, or none at all, and doubles that are rounded down (5), half way (6)   *)
(* and up (7) to a multiple of 4.  What is sampled reads as a label, a number *)
(* or two numbers.                                                            *)
EXTENDS ChannelHistory

CONSTANTS on, off

MCTexts     == {on, off}
MCLabelings == {<<off, on>>, <<on, Blank>>, <<>>}
MCStrays    == {<<>>, <<off>>}
MCYReadings == {NoReading, <<1>>, <<on>>}

MCSampledPVs ==
  [type : {"enum"}, elems : {<<0>>, <<1>>}, labels : {<<on, Blank>>}]
    \cup [type : {"float"}, elems : {<<0>>, <<0, 0>>}, labels : {<<>>}]
=============================================================================
