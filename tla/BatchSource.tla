---------------------------- MODULE BatchSource ----------------------------
(***************************************************************************)
(* What a source of files promises those who ask it for a batch: one       *)
(* answer, which tells of every path asked for whether its file was read.  *)
(***************************************************************************)
CONSTANTS Calls, Paths, Nothing

VARIABLES
  asked,   \* the paths a call asks for, Nothing when it is not made
  answer   \* the paths that were read, Nothing when there is no answer yet

SourceInit == asked = [c \in Calls |-> Nothing] /\ answer = [c \in Calls |-> Nothing]

Ask(c) ==
  /\ asked[c] = Nothing
  /\ \E S \in SUBSET Paths : asked' = [asked EXCEPT ![c] = S]
  /\ UNCHANGED answer

Answer(c) ==
  /\ asked[c] # Nothing /\ answer[c] = Nothing
  /\ \E S \in SUBSET asked[c] :
       answer' = [answer EXCEPT ![c] = [read |-> S, failed |-> asked[c] \ S]]
  /\ UNCHANGED asked

\* a call that was answered, or whose caller is gone, makes way for another
Forget(c) ==
  /\ asked[c] # Nothing
  /\ asked' = [asked EXCEPT ![c] = Nothing] /\ answer' = [answer EXCEPT ![c] = Nothing]

\* callers that are gone together
ForgetAll(C) ==
  /\ asked' = [c \in Calls |-> IF c \in C THEN Nothing ELSE asked[c]]
  /\ answer' = [c \in Calls |-> IF c \in C THEN Nothing ELSE answer[c]]

SourceNext ==
  \/ \E c \in Calls : Ask(c) \/ Answer(c) \/ Forget(c)
  \/ \E C \in SUBSET Calls : ForgetAll(C)

SourceSpec == SourceInit /\ [][SourceNext]_<<asked, answer>>
=============================================================================
