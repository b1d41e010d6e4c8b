------------------------------ MODULE Service ------------------------------
(***************************************************************************)
(* Analyses as the service runs them.  A webhook of GitHub schedules a     *)
(* background task in the process of the API, where one event loop runs    *)
(* the tasks and gives way only while the materializer fetches files; a    *)
(* message of the queue is run by a worker, in a loop and with providers   *)
(* of its own, and again when it raises.  What a task ends with is a       *)
(* comment on the pull request.                                            *)
(*                                                                         *)
(* Webhooks that are refused or ignored change nothing and are left out.   *)
(***************************************************************************)
EXTENDS BlobFetch

CONSTANTS
  Messages,     \* bound: the tasks that may be messages to the worker
  MaxRetries,   \* of the worker's actor
  Batches,      \* the sets of files each task asks for
  MaxBatches,   \* bound on the batches a run asks for
  MaxCrashes,   \* bound on the crashes of either process
  Life, Buffer, \* of an installation token: its life, and the part that is not used
  Nobody, Nothing

ASSUME ServiceAssumption ==
  /\ Messages \subseteq Calls
  /\ Batches \in [Calls -> SUBSET SUBSET Paths]
  /\ {MaxRetries, MaxBatches, MaxCrashes, Life, Buffer} \subseteq Nat /\ Buffer < Life
  /\ Nobody \notin Calls /\ Nothing \notin Nat /\ \A S \in SUBSET Paths : S # Nothing

VARIABLES
  tasks,     \* the record of each task
  loop,      \* the background task the event loop of the API runs, or Nobody
  cached,    \* the age of the cached installation token, or Nothing
  comments,  \* how many comments each task made
  faults,    \* history: how often a task's comment was made and not known of
  crashes

taskVars == <<tasks, loop, cached, comments, faults, crashes>>
serviceVars == <<calls, taskVars>>

Tasks == Calls
Ended == {"published", "failed", "lost"}
TaskStates == {"none", "queued", "fetching", "running", "ran", "authenticated",
               "written", "posted"} \union Ended

NoTask == [at |-> "none", kind |-> "background", attempts |-> 0,
           batches |-> 0, resolving |-> FALSE, token |-> Nothing, taken |-> 0]

Ages == 0 .. Life \union {Nothing}

TaskRecords ==
  [at : TaskStates, kind : {"background", "actor"}, attempts : 0 .. MaxRetries + 1,
   batches : 0 .. MaxBatches, resolving : BOOLEAN, token : Ages, taken : 0 .. Life]

ServiceTypeOK ==
  /\ calls \in [Calls -> CallRecords]
  /\ tasks \in [Tasks -> TaskRecords]
  /\ loop \in Tasks \union {Nobody} /\ cached \in Ages
  /\ comments \in [Tasks -> Nat] /\ faults \in [Tasks -> Nat]
  /\ crashes \in 0 .. MaxCrashes

ServiceInit ==
  /\ calls = [c \in Calls |-> NoCall]
  /\ tasks = [t \in Tasks |-> NoTask]
  /\ loop = Nobody /\ cached = Nothing
  /\ comments = [t \in Tasks |-> 0] /\ faults = [t \in Tasks |-> 0] /\ crashes = 0

Background(t) == tasks[t].kind = "background"

\* the event loop is free or the task's, or a worker's own
Runs(t) == Background(t) => loop \in {Nobody, t}

\* task t has the event loop, or gives it back
Holding(t) == IF Background(t) THEN t ELSE loop
Free(t) == IF Background(t) THEN Nobody ELSE loop

\* a webhook is delivered, again where GitHub delivers it again; the loop handles it,
\* and nothing compares it with the deliveries before it
Webhook(t) ==
  /\ tasks[t].at = "none" /\ loop = Nobody
  /\ tasks' = [tasks EXCEPT ![t].at = "queued"]
  /\ UNCHANGED <<calls, loop, cached, comments, faults, crashes>>

\* a message is put into the queue of the worker
Enqueue(t) ==
  /\ tasks[t].at = "none" /\ t \in Messages
  /\ tasks' = [tasks EXCEPT ![t].at = "queued", ![t].kind = "actor"]
  /\ UNCHANGED <<calls, loop, cached, comments, faults, crashes>>

Start(t) ==
  /\ tasks[t].at = "queued" /\ Runs(t)
  /\ tasks' = [tasks EXCEPT ![t].at = "running", ![t].attempts = @ + 1]
  /\ loop' = Holding(t)
  /\ UNCHANGED <<calls, cached, comments, faults, crashes>>

\* the run asks for a batch of files: the materializer does, or the resolver, in a
\* thread of its own that the run waits for without giving way
AskFiles(t) ==
  /\ tasks[t].at = "running" /\ calls[t].at = "none"
  /\ tasks[t].batches < MaxBatches
  /\ \E S \in Batches[t] : Ask(t, S)
  /\ \E resolving \in BOOLEAN :
       tasks' = [tasks EXCEPT ![t].at = "fetching", ![t].resolving = resolving,
                              ![t].batches = @ + 1]
  /\ UNCHANGED <<loop, cached, comments, faults, crashes>>

\* the loop is given back for the requests, if there are any
GivesWay(t) == ~tasks[t].resolving /\ calls'[t].wanted # <<>>

\* reading the tree blocks the loop
ReadTree(t) ==
  /\ tasks[t].at = "fetching"
  /\ TreeFails(t) \/ TreeRead(t)
  /\ loop' = IF GivesWay(t) THEN Free(t) ELSE loop
  /\ UNCHANGED <<tasks, cached, comments, faults, crashes>>

\* requests are made and gathered by the loop, and answered by threads
MakeRequest(t) ==
  /\ tasks[t].at = "fetching" /\ Runs(t) /\ Request(t)
  /\ UNCHANGED taskVars

AnswerRequest(t) ==
  /\ tasks[t].at = "fetching"
  /\ \E i \in calls[t].inFlight, ok \in BOOLEAN : Respond(t, i, ok)
  /\ UNCHANGED taskVars

GatherFiles(t) ==
  /\ tasks[t].at = "fetching" /\ Runs(t) /\ Gather(t)
  /\ loop' = Holding(t)
  /\ UNCHANGED <<tasks, cached, comments, faults, crashes>>

\* a task that ended, of which nothing but its end is left
Over(task, end) == [NoTask EXCEPT !.at = end, !.kind = task.kind]

\* a task that is run from the start
Again(task) == [NoTask EXCEPT !.at = "queued", !.kind = task.kind, !.attempts = task.attempts]

\* Mutant of Raised: one more retry
RaisedOnceMore(task) ==
  IF task.kind = "actor" /\ task.attempts <= MaxRetries + 1
  THEN Again(task) ELSE Over(task, "failed")

\* what a raised exception makes of a task: nothing runs a background task again, the
\* worker runs an actor again until it ran MaxRetries + 1 times
Raised(task) ==
  IF task.kind = "actor" /\ task.attempts <= MaxRetries THEN Again(task) ELSE Over(task, "failed")

Fails(t) ==
  /\ tasks' = [tasks EXCEPT ![t] = Raised(@)]
  /\ loop' = Free(t)

\* the files are there, or PartialBatchFailure is raised: the run falls back on what
\* it has, or raises
TakeFiles(t) ==
  /\ tasks[t].at = "fetching" /\ calls[t].at = "answered"
  /\ calls' = [calls EXCEPT ![t] = NoCall]
  /\ \/ tasks' = [tasks EXCEPT ![t].at = "running", ![t].resolving = FALSE] /\ UNCHANGED loop
     \/ calls[t].failed # {} /\ Fails(t)
  /\ UNCHANGED <<cached, comments, faults, crashes>>

\* the compilers run to their end, or one of them raises
Run(t) ==
  /\ tasks[t].at = "running"
  /\ (tasks' = [tasks EXCEPT ![t].at = "ran"] /\ UNCHANGED loop) \/ Fails(t)
  /\ UNCHANGED <<calls, cached, comments, faults, crashes>>

\* Mutant of Usable: a token is used to the end of its life
UsableToEnd(age) == age # Nothing /\ age < Life

\* a cached token that has more than the buffer left
Usable(age) == age # Nothing /\ age < Life - Buffer

\* each run of the worker registers providers made anew, and so has no cached token (one
\* that looks its provider up after another run registered finds the other's, in which
\* there may be a token: the registry is the process's; that case is left out)
CacheOf(t) == IF Background(t) THEN cached ELSE Nothing

Took(t, age) ==
  tasks' = [tasks EXCEPT ![t].at = "authenticated", ![t].token = age, ![t].taken = age]

TakeCachedToken(t) ==
  /\ tasks[t].at = "ran" /\ Usable(CacheOf(t))
  /\ Took(t, cached)
  /\ UNCHANGED <<calls, loop, cached, comments, faults, crashes>>

ExchangeToken(t) ==
  /\ tasks[t].at = "ran" /\ ~Usable(CacheOf(t))
  /\ Took(t, 0)
  /\ cached' = IF Background(t) THEN 0 ELSE cached
  /\ UNCHANGED <<calls, loop, comments, faults, crashes>>

ExchangeFails(t) ==
  /\ tasks[t].at = "ran" /\ ~Usable(CacheOf(t))
  /\ Fails(t)
  /\ UNCHANGED <<calls, cached, comments, faults, crashes>>

\* the language model answers, or a fixed comment stands for its answer
WriteComment(t) ==
  /\ tasks[t].at = "authenticated"
  /\ tasks' = [tasks EXCEPT ![t].at = "written"]
  /\ UNCHANGED <<calls, loop, cached, comments, faults, crashes>>

Posted(t) == comments' = [comments EXCEPT ![t] = @ + 1]

\* a comment is always a new one
Publish(t) ==
  /\ tasks[t].at = "written" /\ tasks[t].token < Life
  /\ Posted(t)
  /\ tasks' = [tasks EXCEPT ![t].at = "posted"]
  /\ UNCHANGED <<calls, loop, cached, faults, crashes>>

\* the comment is made and the response is lost
PublishUnheard(t) ==
  /\ tasks[t].at = "written" /\ tasks[t].token < Life
  /\ Posted(t)
  /\ faults' = [faults EXCEPT ![t] = @ + 1]
  /\ Fails(t)
  /\ UNCHANGED <<calls, cached, crashes>>

\* GitHub does not take the comment, and never with a token that has expired
PublishRefused(t) ==
  /\ tasks[t].at = "written"
  /\ Fails(t)
  /\ UNCHANGED <<calls, cached, comments, faults, crashes>>

\* Mutant of Done: the message is not acknowledged
DoneAgain(task) == IF task.kind = "actor" THEN Raised(task) ELSE Over(task, "published")

Done(task) == Over(task, "published")

\* the task returns, and the worker acknowledges its message
Finish(t) ==
  /\ tasks[t].at = "posted"
  /\ tasks' = [tasks EXCEPT ![t] = Done(@)]
  /\ loop' = Free(t)
  /\ UNCHANGED <<calls, cached, comments, faults, crashes>>

Older(age) == IF age \in 0 .. (Life - 1) THEN age + 1 ELSE age

\* time passes, for tokens and for tasks that hold one
Tick ==
  /\ cached' = Older(cached)
  /\ tasks' = [t \in Tasks |->
       IF tasks[t].at \in {"authenticated", "written"}
       THEN [tasks[t] EXCEPT !.token = Older(@)]
       ELSE tasks[t]]
  /\ UNCHANGED <<calls, loop, comments, faults, crashes>>

Unfinished(kind) == {t \in Tasks : tasks[t].kind = kind /\ tasks[t].at \notin Ended \union {"none"}}

\* a process goes, and its unfinished tasks become what became says of them
Crashed(kind, became) ==
  /\ crashes < MaxCrashes /\ crashes' = crashes + 1
  /\ Unfinished(kind) # {}
  /\ tasks' = [t \in Tasks |-> IF t \in Unfinished(kind) THEN became[t] ELSE tasks[t]]
  /\ calls' = [t \in Tasks |-> IF t \in Unfinished(kind) THEN NoCall ELSE calls[t]]
  /\ UNCHANGED comments

\* the process of the API goes, and its tasks and its cache with it
CrashApi ==
  /\ Crashed("background", [t \in Tasks |-> Over(tasks[t], "lost")])
  /\ loop' = Nobody /\ cached' = Nothing
  /\ UNCHANGED faults

Redelivered(task) ==
  IF task.at = "queued" THEN task ELSE [Again(task) EXCEPT !.attempts = task.attempts - 1]

\* the worker goes; the broker delivers again what was not acknowledged
CrashWorker ==
  /\ Crashed("actor", [t \in Tasks |-> Redelivered(tasks[t])])
  /\ faults' = [t \in Tasks |->
       IF t \in Unfinished("actor") /\ tasks[t].at = "posted" THEN faults[t] + 1 ELSE faults[t]]
  /\ UNCHANGED <<loop, cached>>

TaskStep(t) ==
  \/ Start(t) \/ AskFiles(t) \/ ReadTree(t) \/ MakeRequest(t) \/ AnswerRequest(t)
  \/ GatherFiles(t) \/ TakeFiles(t) \/ Run(t)
  \/ TakeCachedToken(t) \/ ExchangeToken(t) \/ ExchangeFails(t) \/ WriteComment(t)
  \/ Publish(t) \/ PublishUnheard(t) \/ PublishRefused(t) \/ Finish(t)

ServiceNext ==
  \/ \E t \in Tasks : Webhook(t) \/ Enqueue(t) \/ TaskStep(t)
  \/ Tick \/ CrashApi \/ CrashWorker

\* the loops run what can run and every request is answered, in time or by its
\* timeout; nothing makes GitHub deliver, time pass or a process crash
ServiceSpec ==
  ServiceInit /\ [][ServiceNext]_serviceVars /\ \A t \in Tasks : WF_serviceVars(TaskStep(t))

-----------------------------------------------------------------------------
\* A token that is taken from the cache outlives the buffer: a task whose comment is
\* written within it publishes with a token that has not expired.
TokenLasts ==
  \A t \in Tasks :
    tasks[t].at \in {"authenticated", "written"} /\ tasks[t].token - tasks[t].taken <= Buffer
      => tasks[t].token < Life

\* However often a task is run, it makes one comment; each further one is there because
\* an earlier one was made and not known of, and a task that nothing runs again makes
\* no second.
CommentsCounted ==
  \A t \in Tasks :
    /\ comments[t] <= 1 + faults[t]
    /\ Background(t) => comments[t] <= 1
    /\ tasks[t].at = "published" => comments[t] > 0

\* A task of the API that fetches files leaves the event loop to the others while its
\* requests are on the way, also where it resolves in the middle of a query: the thread
\* that fetches is there so as not to block the loop.  Not so: the caller waits for
\* that thread in the loop's own.
CallerLoopFree ==
  \A t \in Tasks : Background(t) /\ calls[t].inFlight # {} => loop # t

\* Every task that was scheduled ends, though the resolver of one holds up the others:
\* with its comment, with the last exception, or with the process it ran in.
TasksEnd == \A t \in Tasks : tasks[t].at = "queued" ~> tasks[t].at \in Ended

\* what the source of BatchSource knows of a call
AskedOf(call) == IF call.at = "none" THEN Nothing ELSE call.asked
AnswerOf(call) ==
  IF call.at = "answered" THEN [read |-> call.read, failed |-> call.failed] ELSE Nothing

asked == [c \in Calls |-> AskedOf(calls[c])]
answer == [c \in Calls |-> AnswerOf(calls[c])]

Source == INSTANCE BatchSource

\* Whatever the threads do and whichever process crashes, those who ask get what
\* BatchSource promises them.
SourceKept == Source!SourceSpec
=============================================================================
