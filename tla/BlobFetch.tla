----------------------------- MODULE BlobFetch -----------------------------
(***************************************************************************)
(* get_files of the GitHub provider: the tree of the commit, then one      *)
(* request for each file, in threads, no more than Limit of a call at a    *)
(* time.  The answers come in any order and are put together by position.  *)
(***************************************************************************)
EXTENDS Naturals, Sequences, FiniteSets

CONSTANTS
  Calls,   \* one call of get_files at a time for each
  Paths,   \* numbers, for the order of paths
  Limit    \* GITHUB_MAX_CONCURRENT_BLOB_REQUESTS

ASSUME BlobAssumption == Limit \in Nat \ {0} /\ Paths \subseteq Nat /\ IsFiniteSet(Paths)

VARIABLE calls

\* blobs and errors are the positions of wanted that were answered with either
CallRecords ==
  [at : {"none", "asked", "fetching", "answered"}, asked : SUBSET Paths,
   wanted : Seq(Paths), inFlight : SUBSET Nat, blobs : SUBSET Nat, errors : SUBSET Nat,
   read : SUBSET Paths, failed : SUBSET Paths]

NoCall == [at |-> "none", asked |-> {}, wanted |-> <<>>, inFlight |-> {},
           blobs |-> {}, errors |-> {}, read |-> {}, failed |-> {}]

Ask(c, S) ==
  /\ calls[c].at = "none"
  /\ calls' = [calls EXCEPT ![c] = [NoCall EXCEPT !.at = "asked", !.asked = S]]

\* the tree cannot be read, or is truncated: every path fails
TreeFails(c) ==
  /\ calls[c].at = "asked"
  /\ calls' = [calls EXCEPT ![c].at = "answered", ![c].failed = calls[c].asked]

\* the paths of S in order, each once
Sorted(S) ==
  {s \in [1 .. Cardinality(S) -> S] :
     {s[i] : i \in DOMAIN s} = S /\ \A i, j \in DOMAIN s : i < j => s[i] < s[j]}

\* the paths the tree has no blob for are not fetched
TreeRead(c) ==
  /\ calls[c].at = "asked"
  /\ \E listed \in SUBSET calls[c].asked : \E order \in Sorted(listed) :
       calls' = [calls EXCEPT ![c].at = "fetching", ![c].wanted = order]

Answered(call) == call.blobs \union call.errors

\* the semaphore lets the coroutines in as they were made
Request(c) ==
  LET call == calls[c]
      made == Answered(call) \union call.inFlight IN
  /\ call.at = "fetching" /\ Cardinality(call.inFlight) < Limit
  /\ \E next \in DOMAIN call.wanted \ made :
       /\ 1 .. (next - 1) \subseteq made
       /\ calls' = [calls EXCEPT ![c].inFlight = @ \union {next}]

\* Mutant of Leave: what waits for the semaphore is not let in after an error
LeaveOnBlob(call, i, ok) == IF ok THEN call.inFlight \ {i} ELSE call.inFlight

\* the requests in flight without one that was answered or timed out
Leave(call, i, ok) == call.inFlight \ {i}

Respond(c, i, ok) ==
  /\ calls[c].at = "fetching" /\ i \in calls[c].inFlight \ Answered(calls[c])
  /\ calls' = [calls EXCEPT
       ![c].inFlight = Leave(calls[c], i, ok),
       ![c].blobs = IF ok THEN @ \union {i} ELSE @,
       ![c].errors = IF ok THEN @ ELSE @ \union {i}]

\* Mutant of Positions: the paths asked for, those the tree does not have included
PositionsAsked(call) == Sorted(call.asked)

\* the paths the results are zipped with
Positions(call) == {call.wanted}

Named(paths, positions) == {paths[i] : i \in positions}

\* Mutant of NotInTree: a path the tree does not have is skipped
Skipped(call) == {}

NotInTree(call) == call.asked \ Named(call.wanted, DOMAIN call.wanted)

\* gather has every result: the errors are put down to the paths by position, each
\* blob carries its own path
Gather(c) ==
  /\ calls[c].at = "fetching"
  /\ Answered(calls[c]) = DOMAIN calls[c].wanted
  /\ \E paths \in Positions(calls[c]) :
       calls' = [calls EXCEPT
         ![c].at = "answered",
         ![c].read = Named(calls[c].wanted, calls[c].blobs),
         ![c].failed = NotInTree(calls[c]) \union Named(paths, calls[c].errors)]

-----------------------------------------------------------------------------
\* Every path asked for is told of once, as read or as failed, however the answers
\* came in.
AnswerExact ==
  \A c \in Calls : calls[c].at = "answered" =>
    /\ calls[c].read \union calls[c].failed = calls[c].asked
    /\ calls[c].read \intersect calls[c].failed = {}
=============================================================================
