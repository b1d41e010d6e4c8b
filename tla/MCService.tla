----------------------------- MODULE MCService -----------------------------
(***************************************************************************)
(* Two runs of one pull request: a background task that fetches three      *)
(* files, two at a time at most, and a background task or a message of the *)
(* worker that fetches one.  A token lives for two steps of time and is    *)
(* not taken from the cache for the last of them.                          *)
(***************************************************************************)
EXTENDS Service

CONSTANTS t1, t2

TwoBatches == [t \in Calls |-> IF t = t1 THEN {Paths} ELSE {{1}}]
=============================================================================
