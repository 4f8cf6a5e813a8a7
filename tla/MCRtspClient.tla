---------------------------- MODULE MCRtspClient ----------------------------
(* Frames in one packet, in fragments, and behind parameter sets.            *)
EXTENDS RtspClient

ShapesUsed == {<<"other">>, <<"otherStart", "part", "end">>, <<"sets", "keyStart", "end">>, <<"key">>}
=============================================================================
