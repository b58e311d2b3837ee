--------------------------- MODULE MCLiveStreams ----------------------------
(* Instances of LiveStreams for TLC.                                       *)
EXTENDS LiveStreamsProperties

CONSTANTS s1, g1, g2, p1, p2, p3, n1

(* Both goals belong to one stream.                                        *)
MCStreamOf == [g \in Goals |-> s1]
=============================================================================
