---------------------------- MODULE MCEventStream ----------------------------
(* EventStream for TLC: a small set of frames, one control each. *)
EXTENDS EventStream

CONSTANT FirstId

Blank == [id |-> NoId, retry |-> 0, retryMax |-> 0, keepalive |-> 0, data |-> FALSE]

SampleFrames ==
    {[Blank EXCEPT !.id = FirstId], [Blank EXCEPT !.id = EmptyId, !.data = TRUE],
     [Blank EXCEPT !.retry = 5], [Blank EXCEPT !.retryMax = 3, !.data = TRUE],
     [Blank EXCEPT !.keepalive = 1], [Blank EXCEPT !.keepalive = 2]}
=============================================================================
