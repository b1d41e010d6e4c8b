--------------------------- MODULE ServiceProofs ---------------------------
(***************************************************************************)
(* Theorems about Service, for every value of its constants.               *)
(*                                                                         *)
(* The inductive invariant says of each call of get_files that the paths   *)
(* it fetches are asked for and differ, and that no request was answered   *)
(* twice (CallFine); and of each task how often it may have commented at   *)
(* each place of its run, and how old its token was when it was taken      *)
(* (TaskFine).                                                             *)
(***************************************************************************)
EXTENDS Service, FiniteSetTheorems, SequenceTheorems, TLAPS

\* the paths that are fetched are asked for, each is fetched once
Fetches(call) ==
  /\ \A i \in DOMAIN call.wanted : call.wanted[i] \in call.asked
  /\ \A i, j \in DOMAIN call.wanted : call.wanted[i] = call.wanted[j] => i = j
  /\ call.blobs \intersect call.errors = {}

Exact(call) == call.read \union call.failed = call.asked /\ call.read \intersect call.failed = {}

CallFine(call) ==
  /\ call \in CallRecords
  /\ call.at = "asked" => call.read = {} /\ call.blobs = {} /\ call.errors = {}
  /\ call.at = "fetching" => Fetches(call)
  /\ call.at = "answered" => Exact(call)

CallsFine == calls \in [Calls -> CallRecords] /\ \A c \in Calls : CallFine(calls[c])

Started == {"fetching", "running", "ran", "authenticated", "written", "posted"}

TaskFine(task, made, unknown) ==
  /\ task \in TaskRecords
  /\ task.at \in {"none", "queued"} => task.attempts <= MaxRetries
  /\ task.at \in Started => task.attempts > 0
  /\ task.at \in {"authenticated", "written"} => task.token \in 0 .. Life /\ task.taken < Life - Buffer
  /\ made \in Nat /\ unknown \in Nat
  /\ made <= 1 + unknown /\ (task.kind = "background" => made <= 1)
  /\ task.at \notin Ended \union {"posted"} => made <= unknown /\ (task.kind = "background" => made = 0)
  /\ task.at \in {"posted", "published"} => made > 0

AllFine(T, M, U) ==
  T \in [Tasks -> TaskRecords] /\ M \in [Tasks -> Nat] /\ U \in [Tasks -> Nat]
  /\ \A t \in Tasks : TaskFine(T[t], M[t], U[t])

TasksFine == AllFine(tasks, comments, faults)

RestFine ==
  loop \in Tasks \union {Nobody} /\ cached \in Ages /\ crashes \in 0 .. MaxCrashes

ServiceInv == CallsFine /\ TasksFine /\ RestFine

-----------------------------------------------------------------------------
(* Calls.                                                                  *)

LEMMA NoCallFine == CallFine(NoCall)
  BY EmptySeq DEF CallFine, NoCall, CallRecords

LEMMA OneCall ==
  ASSUME CallsFine, NEW c \in Calls, NEW call, CallFine(call),
         calls' = [calls EXCEPT ![c] = call]
  PROVE  CallsFine'
  BY DEF CallsFine, CallFine

LEMMA AskFine ==
  ASSUME CallsFine, NEW c \in Calls, NEW S \in SUBSET Paths, Ask(c, S)
  PROVE  CallsFine'
<1> DEFINE call == [NoCall EXCEPT !.at = "asked", !.asked = S]
<1>1. CallFine(call)
  BY NoCallFine DEF CallFine, CallRecords, NoCall
<1> QED
  BY <1>1, OneCall DEF Ask

LEMMA TreeFailsFine ==
  ASSUME CallsFine, NEW c \in Calls, TreeFails(c)
  PROVE  CallsFine'
<1> DEFINE call == [calls[c] EXCEPT !.at = "answered", !.failed = calls[c].asked]
<1>1. CallFine(call)
  BY DEF CallsFine, CallFine, CallRecords, TreeFails, Exact
<1>2. calls' = [calls EXCEPT ![c] = call]
  BY DEF TreeFails
<1> QED
  BY <1>1, <1>2, OneCall

\* The paths of a set in order are a sequence of them without repetition.
LEMMA SortedFine ==
  ASSUME NEW S \in SUBSET Paths, NEW order \in Sorted(S)
  PROVE  /\ order \in Seq(Paths)
         /\ \A i \in DOMAIN order : order[i] \in S
         /\ \A i, j \in DOMAIN order : order[i] = order[j] => i = j
<1>1. Cardinality(S) \in Nat
  BY BlobAssumption, FS_Subset, FS_CardinalityType
<1>2. order \in [1 .. Cardinality(S) -> S]
  BY DEF Sorted
<1>3. order \in [1 .. Cardinality(S) -> Paths]
  BY <1>2
<1>4. order \in Seq(Paths)
  BY <1>1, <1>3, SeqDef
<1>5. ASSUME NEW i \in DOMAIN order, NEW j \in DOMAIN order, order[i] = order[j]
      PROVE  i = j
  <2>0. i \in 1 .. Cardinality(S) /\ j \in 1 .. Cardinality(S)
    BY <1>2, <1>5
  <2>1. i \in Nat /\ j \in Nat /\ order[i] \in Nat /\ order[j] \in Nat
    <3>1. order[i] \in Paths /\ order[j] \in Paths
      BY <1>3, <2>0
    <3>2. i \in Nat /\ j \in Nat
      BY <1>1, <2>0
    <3> QED
      BY <3>1, <3>2, BlobAssumption
  <2>2. i < j => order[i] < order[j]
    BY <1>5 DEF Sorted
  <2>3. j < i => order[j] < order[i]
    BY <1>5 DEF Sorted
  <2> QED
    BY <2>1, <2>2, <2>3, <1>5
<1> QED
  BY <1>2, <1>4, <1>5

LEMMA TreeReadFine ==
  ASSUME CallsFine, NEW c \in Calls, TreeRead(c)
  PROVE  CallsFine'
<1>0. PICK listed \in SUBSET calls[c].asked : \E order \in Sorted(listed) :
        calls' = [calls EXCEPT ![c].at = "fetching", ![c].wanted = order]
  BY DEF TreeRead
<1>1. PICK order \in Sorted(listed) :
        calls' = [calls EXCEPT ![c].at = "fetching", ![c].wanted = order]
  BY <1>0
<1> DEFINE call == [calls[c] EXCEPT !.at = "fetching", !.wanted = order]
<1>2. calls[c] \in CallRecords /\ CallFine(calls[c]) /\ calls[c].at = "asked"
  BY DEF CallsFine, TreeRead
<1>3. listed \in SUBSET Paths
  BY <1>2 DEF CallRecords
<1>4. /\ order \in Seq(Paths) /\ \A i \in DOMAIN order : order[i] \in listed
      /\ \A i, j \in DOMAIN order : order[i] = order[j] => i = j
  BY <1>3, SortedFine
<1>5. call \in CallRecords
  BY <1>2, <1>4 DEF CallRecords
<1>6. call.at = "fetching" /\ call.wanted = order /\ call.asked = calls[c].asked
      /\ call.blobs = {} /\ call.errors = {}
  BY <1>2 DEF CallRecords, CallFine
<1>7. Fetches(call)
  BY <1>4, <1>6 DEF Fetches
<1>8. CallFine(call)
  BY <1>5, <1>6, <1>7 DEF CallFine
<1>9. calls' = [calls EXCEPT ![c] = call]
  BY <1>1
<1> QED
  BY <1>8, <1>9, OneCall

LEMMA RequestFine ==
  ASSUME CallsFine, NEW c \in Calls, Request(c)
  PROVE  CallsFine'
<1>1. calls[c] \in CallRecords /\ CallFine(calls[c]) /\ calls[c].at = "fetching"
  BY DEF CallsFine, Request
<1>2. PICK next \in DOMAIN calls[c].wanted :
        calls' = [calls EXCEPT ![c].inFlight = @ \union {next}]
  BY DEF Request
<1>3. calls[c].wanted \in Seq(Paths)
  BY <1>1 DEF CallRecords
<1>4. next \in Nat
  BY <1>2, <1>3, LenProperties
<1> DEFINE call == [calls[c] EXCEPT !.inFlight = @ \union {next}]
<1>5. CallFine(call)
  BY <1>1, <1>4 DEF CallFine, CallRecords, Fetches
<1>6. calls' = [calls EXCEPT ![c] = call]
  BY <1>2
<1> QED
  BY <1>5, <1>6, OneCall

LEMMA RespondFine ==
  ASSUME CallsFine, NEW c \in Calls, NEW i \in calls[c].inFlight, NEW ok \in BOOLEAN,
         Respond(c, i, ok)
  PROVE  CallsFine'
<1> DEFINE call == [calls[c] EXCEPT
             !.inFlight = Leave(calls[c], i, ok),
             !.blobs = IF ok THEN @ \union {i} ELSE @,
             !.errors = IF ok THEN @ ELSE @ \union {i}]
<1>1. calls[c] \in CallRecords /\ CallFine(calls[c]) /\ calls[c].at = "fetching"
  BY DEF CallsFine, Respond
<1>2. i \in Nat /\ i \notin calls[c].blobs /\ i \notin calls[c].errors
  BY <1>1 DEF CallRecords, Respond, Answered
<1>3. call \in CallRecords
  BY <1>1, <1>2 DEF CallRecords, Leave
<1>4. Fetches(call)
  BY <1>1, <1>2 DEF CallFine, CallRecords, Fetches
<1>5. CallFine(call)
  BY <1>1, <1>3, <1>4 DEF CallFine, CallRecords
<1>6. calls' = [calls EXCEPT ![c] = call]
  BY DEF Respond
<1> QED
  BY <1>5, <1>6, OneCall

LEMMA GatherFine ==
  ASSUME CallsFine, NEW c \in Calls, Gather(c)
  PROVE  CallsFine'
<1> DEFINE old == calls[c]
           call == [old EXCEPT
             !.at = "answered", !.read = Named(old.wanted, old.blobs),
             !.failed = NotInTree(old) \union Named(old.wanted, old.errors)]
<1>1. old \in CallRecords /\ CallFine(old) /\ old.at = "fetching"
  BY DEF CallsFine, Gather
<1>2. Fetches(old) /\ old.blobs \union old.errors = DOMAIN old.wanted
  BY <1>1 DEF CallFine, Gather, Answered
<1>3. \A i \in old.blobs \union old.errors : old.wanted[i] \in old.asked
  BY <1>2 DEF Fetches
<1>4. call \in CallRecords
  <2>1. old.asked \subseteq Paths
    BY <1>1 DEF CallRecords
  <2>2. Named(old.wanted, old.blobs) \subseteq Paths
    BY <1>3, <2>1 DEF Named
  <2>3. NotInTree(old) \union Named(old.wanted, old.errors) \subseteq Paths
    BY <1>3, <2>1 DEF Named, NotInTree
  <2> QED
    BY <1>1, <2>2, <2>3 DEF CallRecords
<1>5. call.read = Named(old.wanted, old.blobs) /\ call.asked = old.asked
      /\ call.failed = NotInTree(old) \union Named(old.wanted, old.errors)
      /\ call.at = "answered"
  BY <1>1 DEF CallRecords
<1>6. call.read \union call.failed = call.asked
  BY <1>2, <1>3, <1>5 DEF Named, NotInTree
<1>7. call.read \intersect call.failed = {}
  BY <1>2, <1>3, <1>5 DEF Named, NotInTree, Fetches
<1>8. CallFine(call)
  BY <1>4, <1>5, <1>6, <1>7 DEF CallFine, Exact
<1>9. calls' = [calls EXCEPT ![c] = call]
  BY DEF Gather, Positions
<1> HIDE DEF call
<1> QED
  BY <1>8, <1>9, OneCall

-----------------------------------------------------------------------------
(* Tasks.                                                                  *)

\* A step of task t that makes it new, and its comments made, unknown of them.
TaskBecomes(t, new, made, unknown) ==
  /\ tasks' = [tasks EXCEPT ![t] = new]
  /\ comments' = [comments EXCEPT ![t] = made]
  /\ faults' = [faults EXCEPT ![t] = unknown]

LEMMA OneTask ==
  ASSUME TasksFine, NEW t \in Tasks, NEW new, NEW made, NEW unknown,
         TaskFine(new, made, unknown), TaskBecomes(t, new, made, unknown)
  PROVE  TasksFine'
  BY DEF TasksFine, AllFine, TaskFine, TaskBecomes

\* A step of task t that makes no comment.
LEMMA Quiet ==
  ASSUME TasksFine, NEW t \in Tasks, NEW new, TaskFine(new, comments[t], faults[t]),
         tasks' = [tasks EXCEPT ![t] = new], UNCHANGED <<comments, faults>>
  PROVE  TasksFine'
<1>1. comments' = [comments EXCEPT ![t] = comments[t]]
  BY DEF TasksFine, AllFine
<1>2. faults' = [faults EXCEPT ![t] = faults[t]]
  BY DEF TasksFine, AllFine
<1>3. TaskBecomes(t, new, comments[t], faults[t])
  BY <1>1, <1>2 DEF TaskBecomes
<1> QED
  BY <1>3, OneTask

LEMMA NoTaskTyped == NoTask \in TaskRecords
  BY ServiceAssumption DEF NoTask, TaskRecords, TaskStates, Ages

LEMMA OverFine ==
  ASSUME NEW task, NEW made, NEW unknown, NEW end \in Ended, TaskFine(task, made, unknown),
         end = "published" => made > 0
  PROVE  TaskFine(Over(task, end), made, unknown)
<1>1. task \in TaskRecords /\ made \in Nat /\ unknown \in Nat
      /\ made <= 1 + unknown /\ (task.kind = "background" => made <= 1)
  BY DEF TaskFine
<1>2. task.kind \in {"background", "actor"} /\ end \in TaskStates
  BY <1>1 DEF TaskRecords, TaskStates
<1>3. Over(task, end) \in TaskRecords
  BY <1>2, NoTaskTyped DEF Over, TaskRecords
<1>4. Over(task, end).at = end /\ Over(task, end).kind = task.kind
  BY NoTaskTyped DEF Over, TaskRecords
<1> QED
  BY <1>1, <1>3, <1>4 DEF TaskFine, Ended, Started

LEMMA AgainFine ==
  ASSUME NEW task, NEW made, NEW unknown, TaskFine(task, made, unknown),
         task.attempts <= MaxRetries, made <= unknown, task.kind = "background" => made = 0
  PROVE  TaskFine(Again(task), made, unknown)
<1>1. task \in TaskRecords /\ made \in Nat /\ unknown \in Nat
  BY DEF TaskFine
<1>2. task.kind \in {"background", "actor"} /\ task.attempts \in 0 .. MaxRetries + 1
      /\ "queued" \in TaskStates
  BY <1>1 DEF TaskRecords, TaskStates
<1>3. Again(task) \in TaskRecords
  BY <1>2, NoTaskTyped DEF Again, TaskRecords
<1>4. Again(task).at = "queued" /\ Again(task).kind = task.kind
      /\ Again(task).attempts = task.attempts
  BY NoTaskTyped DEF Again, TaskRecords
<1> QED
  BY <1>1, <1>2, <1>3, <1>4 DEF TaskFine, Ended, Started

\* What raises has not commented, as far as it knows.
LEMMA RaisedFine ==
  ASSUME NEW task, NEW made, NEW unknown, TaskFine(task, made, unknown),
         task.kind = "actor" => made <= unknown
  PROVE  TaskFine(Raised(task), made, unknown)
<1>1. CASE task.kind = "actor" /\ task.attempts <= MaxRetries
  BY <1>1, AgainFine DEF Raised
<1>2. CASE ~(task.kind = "actor" /\ task.attempts <= MaxRetries)
  BY <1>2, OverFine DEF Raised, Ended
<1> QED
  BY <1>1, <1>2

LEMMA FailsFine ==
  ASSUME TasksFine, NEW t \in Tasks, Fails(t), UNCHANGED <<comments, faults>>,
         tasks[t].at \notin Ended \union {"posted"}
  PROVE  TasksFine'
<1>1. TaskFine(tasks[t], comments[t], faults[t])
  BY DEF TasksFine, AllFine
<1>2. comments[t] <= faults[t]
  BY <1>1 DEF TaskFine
<1>3. TaskFine(Raised(tasks[t]), comments[t], faults[t])
  BY <1>1, <1>2, RaisedFine
<1> QED
  BY <1>3, Quiet DEF Fails

\* A step of task t to another place of its run, before it comments.
LEMMA MovesFine ==
  ASSUME TasksFine, NEW t \in Tasks, NEW new \in TaskRecords,
         tasks' = [tasks EXCEPT ![t] = new], UNCHANGED <<comments, faults>>,
         tasks[t].at \notin Ended \union {"posted"}, new.at \notin Ended \union {"posted"},
         new.at \in {"none", "queued"} => new.attempts <= MaxRetries,
         new.at \in Started => new.attempts > 0,
         new.at \in {"authenticated", "written"} =>
           new.token \in 0 .. Life /\ new.taken < Life - Buffer,
         new.kind = tasks[t].kind \/ new.kind = "actor"
  PROVE  TasksFine'
<1>1. TaskFine(tasks[t], comments[t], faults[t])
  BY DEF TasksFine, AllFine
<1>2. /\ comments[t] \in Nat /\ faults[t] \in Nat /\ comments[t] <= faults[t]
      /\ tasks[t].kind = "background" => comments[t] = 0
  BY <1>1 DEF TaskFine
<1>3. tasks[t].kind \in {"background", "actor"}
  BY <1>1 DEF TaskFine, TaskRecords
<1>4. TaskFine(new, comments[t], faults[t])
  BY <1>2, <1>3 DEF TaskFine, Ended
<1> QED
  BY <1>4, Quiet

-----------------------------------------------------------------------------
(* Steps.                                                                  *)

LEMMA CallsKept == CallsFine /\ UNCHANGED calls => CallsFine'
  BY DEF CallsFine

LEMMA TasksKept == TasksFine /\ UNCHANGED <<tasks, comments, faults>> => TasksFine'
  BY DEF TasksFine

LEMMA LoopFine ==
  ASSUME RestFine, NEW t \in Tasks
  PROVE  Holding(t) \in Tasks \union {Nobody} /\ Free(t) \in Tasks \union {Nobody}
  BY DEF RestFine, Holding, Free

LEMMA CallsStep ==
  ASSUME CallsFine, ServiceNext
  PROVE  CallsFine'
<1>1. ASSUME NEW t \in Tasks, Webhook(t) \/ Enqueue(t) \/ TaskStep(t)
      PROVE  CallsFine'
  <2> t \in Calls
    BY DEF Tasks
  <2>1. CASE AskFiles(t)
    <3>1. PICK S \in Batches[t] : Ask(t, S)
      BY <2>1 DEF AskFiles
    <3>2. S \in SUBSET Paths
      BY ServiceAssumption
    <3> QED
      BY <3>1, <3>2, AskFine
  <2>2. CASE ReadTree(t)
    BY <2>2, TreeFailsFine, TreeReadFine DEF ReadTree
  <2>3. CASE MakeRequest(t)
    BY <2>3, RequestFine DEF MakeRequest
  <2>4. CASE AnswerRequest(t)
    BY <2>4, RespondFine DEF AnswerRequest
  <2>5. CASE GatherFiles(t)
    BY <2>5, GatherFine DEF GatherFiles
  <2>6. CASE TakeFiles(t)
    BY <2>6, NoCallFine, OneCall DEF TakeFiles
  <2>7. CASE \/ Webhook(t) \/ Enqueue(t) \/ Start(t) \/ Run(t) \/ TakeCachedToken(t)
             \/ ExchangeToken(t) \/ ExchangeFails(t) \/ WriteComment(t) \/ Publish(t)
             \/ PublishUnheard(t) \/ PublishRefused(t) \/ Finish(t)
    <3>1. UNCHANGED calls
      BY <2>7 DEF Webhook, Enqueue, Start, Run, TakeCachedToken, ExchangeToken, ExchangeFails,
                  WriteComment, Publish, PublishUnheard, PublishRefused, Finish
    <3> QED
      BY <3>1, CallsKept
  <2> QED
    BY <1>1, <2>1, <2>2, <2>3, <2>4, <2>5, <2>6, <2>7 DEF TaskStep
<1>2. CASE Tick
  BY <1>2, CallsKept DEF Tick
<1>3. ASSUME NEW lost, calls' = [t \in Tasks |-> IF t \in lost THEN NoCall ELSE calls[t]]
      PROVE  CallsFine'
  BY <1>3, NoCallFine DEF CallsFine, CallFine, Tasks
<1>4. CASE CrashApi \/ CrashWorker
  BY <1>3, <1>4 DEF CrashApi, CrashWorker, Crashed
<1> QED
  BY <1>1, <1>2, <1>4 DEF ServiceNext

LEMMA RestStep ==
  ASSUME RestFine, ServiceNext
  PROVE  RestFine'
<1>1. ASSUME NEW t \in Tasks, Webhook(t) \/ Enqueue(t) \/ TaskStep(t)
      PROVE  RestFine'
  <2>1. loop' \in {loop, Holding(t), Free(t)}
    BY <1>1 DEF Webhook, Enqueue, TaskStep, Start, AskFiles, ReadTree, MakeRequest,
      AnswerRequest, GatherFiles, TakeFiles, Run, TakeCachedToken, ExchangeToken, ExchangeFails,
      WriteComment, Publish, PublishUnheard, PublishRefused, Finish, Fails, taskVars
  <2>2. cached' \in {cached, 0}
    BY <1>1 DEF Webhook, Enqueue, TaskStep, Start, AskFiles, ReadTree, MakeRequest,
      AnswerRequest, GatherFiles, TakeFiles, Run, TakeCachedToken, ExchangeToken, ExchangeFails,
      WriteComment, Publish, PublishUnheard, PublishRefused, Finish, taskVars
  <2>3. UNCHANGED crashes
    BY <1>1 DEF Webhook, Enqueue, TaskStep, Start, AskFiles, ReadTree, MakeRequest,
      AnswerRequest, GatherFiles, TakeFiles, Run, TakeCachedToken, ExchangeToken, ExchangeFails,
      WriteComment, Publish, PublishUnheard, PublishRefused, Finish, taskVars
  <2>4. loop' \in Tasks \union {Nobody}
    BY <2>1, LoopFine DEF RestFine
  <2>5. cached' \in Ages
    BY <2>2, ServiceAssumption DEF RestFine, Ages
  <2> QED
    BY <2>3, <2>4, <2>5 DEF RestFine
<1>2. CASE Tick
  BY <1>2, ServiceAssumption DEF Tick, RestFine, Older, Ages
<1>3. CASE CrashApi \/ CrashWorker
  BY <1>3, ServiceAssumption DEF CrashApi, CrashWorker, Crashed, RestFine, Ages
<1> QED
  BY <1>1, <1>2, <1>3 DEF ServiceNext

LEMMA MoveStep ==
  ASSUME TasksFine, RestFine, NEW t \in Tasks,
         \/ Webhook(t) \/ Enqueue(t) \/ Start(t) \/ AskFiles(t)
         \/ TakeCachedToken(t) \/ ExchangeToken(t) \/ WriteComment(t)
  PROVE  TasksFine'
<1>1. TaskFine(tasks[t], comments[t], faults[t]) /\ tasks[t] \in TaskRecords
  BY DEF TasksFine, AllFine
<1> DEFINE Goes(new) ==
      /\ new \in TaskRecords
      /\ tasks' = [tasks EXCEPT ![t] = new]
      /\ new.at \notin Ended \union {"posted"}
      /\ new.at \in {"none", "queued"} => new.attempts <= MaxRetries
      /\ new.at \in Started => new.attempts > 0
      /\ new.at \in {"authenticated", "written"} =>
           new.token \in 0 .. Life /\ new.taken < Life - Buffer
      /\ new.kind = tasks[t].kind \/ new.kind = "actor"
<1>2. UNCHANGED <<comments, faults>> /\ tasks[t].at \notin Ended \union {"posted"}
  BY DEF Webhook, Enqueue, Start, AskFiles, TakeCachedToken, ExchangeToken, WriteComment, Ended
<1>3. ASSUME NEW new, Goes(new) PROVE TasksFine'
  BY <1>2, <1>3, MovesFine
<1> HIDE DEF Goes
<1>4. CASE Webhook(t)
  <2> DEFINE new == [tasks[t] EXCEPT !.at = "queued"]
  <2>1. new \in TaskRecords /\ new.at = "queued" /\ new.kind = tasks[t].kind
        /\ new.attempts = tasks[t].attempts
    BY <1>1 DEF TaskRecords, TaskStates
  <2>2. tasks[t].attempts <= MaxRetries /\ tasks' = [tasks EXCEPT ![t] = new]
    BY <1>1, <1>4 DEF Webhook, TaskFine
  <2>3. Goes(new)
    BY <2>1, <2>2 DEF Goes, Ended, Started
  <2> QED
    BY <2>3, <1>3
<1>5. CASE Enqueue(t)
  <2> DEFINE new == [tasks[t] EXCEPT !.at = "queued", !.kind = "actor"]
  <2>1. new \in TaskRecords /\ new.at = "queued" /\ new.kind = "actor"
        /\ new.attempts = tasks[t].attempts
    BY <1>1 DEF TaskRecords, TaskStates
  <2>2. tasks[t].attempts <= MaxRetries /\ tasks' = [tasks EXCEPT ![t] = new]
    BY <1>1, <1>5 DEF Enqueue, TaskFine
  <2>3. Goes(new)
    BY <2>1, <2>2 DEF Goes, Ended, Started
  <2> QED
    BY <2>3, <1>3
<1>6. CASE Start(t)
  <2> DEFINE new == [tasks[t] EXCEPT !.at = "running", !.attempts = @ + 1]
  <2>1. tasks[t].attempts \in Nat /\ tasks[t].attempts <= MaxRetries
    BY <1>1, <1>6 DEF Start, TaskFine, TaskRecords
  <2>2. tasks[t].attempts + 1 \in 0 .. MaxRetries + 1
    BY <2>1, ServiceAssumption
  <2>3. new \in TaskRecords /\ new.at = "running" /\ new.kind = tasks[t].kind
        /\ new.attempts = tasks[t].attempts + 1
    BY <1>1, <2>2 DEF TaskRecords, TaskStates
  <2>4. tasks' = [tasks EXCEPT ![t] = new]
    BY <1>6 DEF Start
  <2>5. Goes(new)
    BY <2>1, <2>3, <2>4 DEF Goes, Ended, Started
  <2> QED
    BY <2>5, <1>3
<1>7. CASE AskFiles(t)
  <2>1. PICK resolving \in BOOLEAN :
          tasks' = [tasks EXCEPT ![t].at = "fetching", ![t].resolving = resolving,
                                 ![t].batches = @ + 1]
    BY <1>7 DEF AskFiles
  <2> DEFINE new == [tasks[t] EXCEPT !.at = "fetching", !.resolving = resolving,
                                     !.batches = @ + 1]
  <2>2. tasks[t].batches + 1 \in 0 .. MaxBatches
    <3>1. tasks[t].batches \in 0 .. MaxBatches /\ tasks[t].batches < MaxBatches
      BY <1>1, <1>7 DEF AskFiles, TaskRecords
    <3>2. MaxBatches \in Nat
      BY ServiceAssumption
    <3> QED
      BY <3>1, <3>2
  <2>3. new \in TaskRecords /\ new.at = "fetching" /\ new.kind = tasks[t].kind
        /\ new.attempts = tasks[t].attempts
    BY <1>1, <2>2 DEF TaskRecords, TaskStates
  <2>4. tasks[t].attempts > 0
    BY <1>1, <1>7 DEF AskFiles, TaskFine, Started
  <2>5. tasks' = [tasks EXCEPT ![t] = new]
    BY <2>1
  <2>6. Goes(new)
    BY <2>3, <2>4, <2>5 DEF Goes, Ended, Started
  <2> QED
    BY <2>6, <1>3
<1>8. ASSUME NEW age \in 0 .. Life, age < Life - Buffer, tasks[t].at = "ran", Took(t, age)
      PROVE  TasksFine'
  <2> DEFINE new == [tasks[t] EXCEPT !.at = "authenticated", !.token = age, !.taken = age]
  <2>1. new \in TaskRecords /\ new.at = "authenticated" /\ new.kind = tasks[t].kind
        /\ new.attempts = tasks[t].attempts /\ new.token = age /\ new.taken = age
    BY <1>1 DEF TaskRecords, TaskStates, Ages
  <2>2. tasks[t].attempts > 0
    BY <1>1, <1>8 DEF TaskFine, Started
  <2>3. tasks' = [tasks EXCEPT ![t] = new]
    BY <1>8 DEF Took
  <2>4. Goes(new)
    BY <1>8, <2>1, <2>2, <2>3 DEF Goes, Ended, Started
  <2> QED
    BY <2>4, <1>3
<1>9. CASE TakeCachedToken(t)
  <2>1. cached # Nothing /\ cached < Life - Buffer
    BY <1>9 DEF TakeCachedToken, CacheOf, Usable
  <2>2. cached \in 0 .. Life
    BY <2>1 DEF RestFine, Ages
  <2> QED
    BY <2>1, <2>2, <1>8, <1>9 DEF TakeCachedToken
<1>10. CASE ExchangeToken(t)
  <2>1. 0 \in 0 .. Life /\ 0 < Life - Buffer
    BY ServiceAssumption
  <2> QED
    BY <2>1, <1>8, <1>10 DEF ExchangeToken
<1>11. CASE WriteComment(t)
  <2> DEFINE new == [tasks[t] EXCEPT !.at = "written"]
  <2>1. new \in TaskRecords /\ new.at = "written" /\ new.kind = tasks[t].kind
        /\ new.attempts = tasks[t].attempts /\ new.token = tasks[t].token
        /\ new.taken = tasks[t].taken
    BY <1>1 DEF TaskRecords, TaskStates
  <2>2. tasks[t].attempts > 0 /\ tasks[t].token \in 0 .. Life /\ tasks[t].taken < Life - Buffer
    BY <1>1, <1>11 DEF WriteComment, TaskFine, Started
  <2>3. tasks' = [tasks EXCEPT ![t] = new]
    BY <1>11 DEF WriteComment
  <2>4. Goes(new)
    BY <2>1, <2>2, <2>3 DEF Goes, Ended, Started
  <2> QED
    BY <2>4, <1>3
<1> QED
  BY <1>4, <1>5, <1>6, <1>7, <1>9, <1>10, <1>11

LEMMA EndStep ==
  ASSUME TasksFine, NEW t \in Tasks,
         \/ TakeFiles(t) \/ Run(t) \/ ExchangeFails(t) \/ PublishRefused(t)
         \/ Publish(t) \/ PublishUnheard(t) \/ Finish(t)
  PROVE  TasksFine'
<1>1. TaskFine(tasks[t], comments[t], faults[t]) /\ tasks[t] \in TaskRecords
  BY DEF TasksFine, AllFine
<1>2. comments[t] \in Nat /\ faults[t] \in Nat
  BY <1>1 DEF TaskFine
<1>3. ASSUME NEW place \in {"running", "ran"}, NEW busy \in BOOLEAN,
             tasks[t].at \in {"fetching", "running"}, UNCHANGED <<comments, faults>>,
             tasks' = [tasks EXCEPT ![t] = [tasks[t] EXCEPT !.at = place, !.resolving = busy]]
      PROVE  TasksFine'
  <2> DEFINE new == [tasks[t] EXCEPT !.at = place, !.resolving = busy]
  <2>1. new \in TaskRecords /\ new.at = place /\ new.kind = tasks[t].kind
        /\ new.attempts = tasks[t].attempts
    BY <1>1 DEF TaskRecords, TaskStates
  <2>2. tasks[t].attempts > 0 /\ tasks[t].at \notin Ended \union {"posted"}
    BY <1>1, <1>3 DEF TaskFine, Started, Ended
  <2> HIDE DEF new
  <2>3. new.at \notin Ended \union {"posted"} /\ new.at \notin {"none", "queued"}
        /\ new.at \notin {"authenticated", "written"}
    BY <2>1 DEF Ended
  <2>4. new.attempts > 0
    BY <2>1, <2>2
  <2> QED
    BY <1>3, <2>1, <2>2, <2>3, <2>4, MovesFine DEF new
<1>4. CASE TakeFiles(t) \/ Run(t) \/ ExchangeFails(t) \/ PublishRefused(t)
  <2>1. UNCHANGED <<comments, faults>> /\ tasks[t].at \notin Ended \union {"posted"}
    BY <1>4 DEF TakeFiles, Run, ExchangeFails, PublishRefused, Ended
  <2>2. CASE Fails(t)
    BY <2>1, <2>2, FailsFine
  <2>3. CASE TakeFiles(t) /\ ~Fails(t)
    <3>1. tasks' = [tasks EXCEPT ![t] = [tasks[t] EXCEPT !.at = "running", !.resolving = FALSE]]
          /\ tasks[t].at = "fetching"
      BY <2>3 DEF TakeFiles
    <3> QED
      BY <3>1, <2>1, <1>3
  <2>4. CASE Run(t) /\ ~Fails(t)
    <3>1. tasks[t].at = "running" /\ tasks' = [tasks EXCEPT ![t].at = "ran"]
      BY <2>4 DEF Run
    <3>2. [tasks[t] EXCEPT !.at = "ran"] =
            [tasks[t] EXCEPT !.at = "ran", !.resolving = tasks[t].resolving]
          /\ tasks[t].resolving \in BOOLEAN
      BY <1>1 DEF TaskRecords
    <3> QED
      BY <3>1, <3>2, <2>1, <1>3
  <2> QED
    BY <1>4, <2>2, <2>3, <2>4 DEF ExchangeFails, PublishRefused
<1>5. ASSUME tasks[t].at = "written"
      PROVE  /\ comments[t] <= faults[t] /\ tasks[t].attempts > 0
             /\ tasks[t].kind = "background" => comments[t] = 0
  BY <1>1, <1>5 DEF TaskFine, Ended, Started
<1>6. CASE Publish(t)
  <2> DEFINE new == [tasks[t] EXCEPT !.at = "posted"]
  <2>1. new \in TaskRecords /\ new.at = "posted" /\ new.kind = tasks[t].kind
        /\ new.attempts = tasks[t].attempts
    BY <1>1 DEF TaskRecords, TaskStates
  <2>2. tasks[t].at = "written" /\ tasks' = [tasks EXCEPT ![t] = new]
        /\ comments' = [comments EXCEPT ![t] = comments[t] + 1]
        /\ faults' = [faults EXCEPT ![t] = faults[t]]
    BY <1>6 DEF Publish, Posted, TasksFine, AllFine
  <2> HIDE DEF new
  <2>3. TaskFine(new, comments[t] + 1, faults[t])
    BY <1>2, <1>5, <2>1, <2>2 DEF TaskFine, Ended, Started
  <2>4. TaskBecomes(t, new, comments[t] + 1, faults[t])
    BY <2>2 DEF TaskBecomes
  <2> QED
    BY <2>3, <2>4, OneTask
<1>7. CASE PublishUnheard(t)
  <2>1. tasks[t].at = "written" /\ tasks' = [tasks EXCEPT ![t] = Raised(tasks[t])]
        /\ comments' = [comments EXCEPT ![t] = comments[t] + 1]
        /\ faults' = [faults EXCEPT ![t] = faults[t] + 1]
    BY <1>7 DEF PublishUnheard, Posted, Fails
  <2>2. TaskBecomes(t, Raised(tasks[t]), comments[t] + 1, faults[t] + 1)
    BY <2>1 DEF TaskBecomes
  <2>3. CASE tasks[t].kind = "actor"
    <3>1. TaskFine(tasks[t], comments[t] + 1, faults[t] + 1)
      BY <1>1, <1>2, <1>5, <2>1, <2>3 DEF TaskFine, Ended, Started
    <3>2. TaskFine(Raised(tasks[t]), comments[t] + 1, faults[t] + 1)
      BY <1>2, <1>5, <2>1, <3>1, RaisedFine
    <3> QED
      BY <3>2, <2>2, OneTask
  <2>4. CASE tasks[t].kind = "background"
    <3>1. Raised(tasks[t]) = Over(tasks[t], "failed")
      BY <2>4 DEF Raised
    <3>2. Over(tasks[t], "failed") \in TaskRecords /\ Over(tasks[t], "failed").at = "failed"
          /\ Over(tasks[t], "failed").kind = "background"
      BY <2>4, NoTaskTyped DEF Over, TaskRecords, TaskStates, Ended
    <3>3. TaskFine(Over(tasks[t], "failed"), comments[t] + 1, faults[t] + 1)
      BY <1>2, <1>5, <2>1, <2>4, <3>2 DEF TaskFine, Ended, Started
    <3> QED
      BY <3>1, <3>3, <2>2, OneTask
  <2> QED
    BY <1>1, <2>3, <2>4 DEF TaskRecords
<1>8. CASE Finish(t)
  <2>1. tasks[t].at = "posted" /\ tasks' = [tasks EXCEPT ![t] = Over(tasks[t], "published")]
        /\ UNCHANGED <<comments, faults>>
    BY <1>8 DEF Finish, Done
  <2>2. comments[t] > 0
    BY <1>1, <2>1 DEF TaskFine
  <2>3. TaskFine(Over(tasks[t], "published"), comments[t], faults[t])
    BY <1>1, <2>2, OverFine DEF Ended
  <2> QED
    BY <2>1, <2>3, Quiet
<1> QED
  BY <1>4, <1>6, <1>7, <1>8

LEMMA TickStep ==
  ASSUME TasksFine, Tick
  PROVE  TasksFine'
<1> DEFINE new(t) == IF tasks[t].at \in {"authenticated", "written"}
                     THEN [tasks[t] EXCEPT !.token = Older(@)] ELSE tasks[t]
<1>1. tasks' = [t \in Tasks |-> new(t)] /\ UNCHANGED <<comments, faults>>
  BY DEF Tick
<1>2. ASSUME NEW t \in Tasks PROVE TaskFine(new(t), comments[t], faults[t])
  <2>1. TaskFine(tasks[t], comments[t], faults[t]) /\ tasks[t] \in TaskRecords
    BY DEF TasksFine, AllFine
  <2>2. CASE tasks[t].at \in {"authenticated", "written"}
    <3>1. tasks[t].token \in 0 .. Life
      BY <2>1, <2>2 DEF TaskFine
    <3>2. Older(tasks[t].token) \in 0 .. Life
      BY <3>1, ServiceAssumption DEF Older
    <3>3. new(t) = [tasks[t] EXCEPT !.token = Older(tasks[t].token)]
      BY <2>2
    <3>4. new(t) \in TaskRecords /\ new(t).at = tasks[t].at /\ new(t).kind = tasks[t].kind
          /\ new(t).attempts = tasks[t].attempts /\ new(t).taken = tasks[t].taken
          /\ new(t).token = Older(tasks[t].token)
      BY <2>1, <3>2, <3>3 DEF TaskRecords, Ages
    <3> HIDE DEF new
    <3> QED
      BY <2>1, <2>2, <3>2, <3>4 DEF TaskFine
  <2>3. CASE tasks[t].at \notin {"authenticated", "written"}
    BY <2>1, <2>3
  <2> QED
    BY <2>2, <2>3
<1> HIDE DEF new
<1> QED
  BY <1>1, <1>2 DEF TasksFine, AllFine, TaskFine

LEMMA CrashApiStep ==
  ASSUME TasksFine, CrashApi
  PROVE  TasksFine'
<1> DEFINE new(t) == IF t \in Unfinished("background") THEN Over(tasks[t], "lost") ELSE tasks[t]
<1>1. tasks' = [t \in Tasks |-> new(t)] /\ UNCHANGED <<comments, faults>>
  BY DEF CrashApi, Crashed
<1>2. ASSUME NEW t \in Tasks PROVE TaskFine(new(t), comments[t], faults[t])
  <2>1. TaskFine(tasks[t], comments[t], faults[t])
    BY DEF TasksFine, AllFine
  <2>2. TaskFine(Over(tasks[t], "lost"), comments[t], faults[t])
    BY <2>1, OverFine DEF Ended
  <2> QED
    BY <2>1, <2>2
<1> HIDE DEF new
<1> QED
  BY <1>1, <1>2 DEF TasksFine, AllFine, TaskFine

LEMMA RedeliveredFine ==
  ASSUME NEW task, NEW made, NEW unknown, TaskFine(task, made, unknown),
         task.kind = "actor", task.at \notin Ended \union {"none"}
  PROVE  TaskFine(Redelivered(task), made, IF task.at = "posted" THEN unknown + 1 ELSE unknown)
<1>1. task \in TaskRecords /\ made \in Nat /\ unknown \in Nat /\ made <= 1 + unknown
  BY DEF TaskFine
<1>2. CASE task.at = "queued"
  BY <1>2 DEF Redelivered
<1>3. CASE task.at # "queued"
  <2> DEFINE again == [Again(task) EXCEPT !.attempts = task.attempts - 1]
  <2>1. Redelivered(task) = again
    BY <1>3 DEF Redelivered
  <2>2. task.at \in Started
    BY <1>1, <1>3 DEF TaskRecords, TaskStates, Started
  <2>3. task.attempts \in 0 .. MaxRetries + 1 /\ task.attempts > 0 /\ MaxRetries \in Nat
    BY <1>1, <2>2, ServiceAssumption DEF TaskFine, TaskRecords
  <2>4. task.attempts - 1 \in 0 .. MaxRetries + 1 /\ task.attempts - 1 <= MaxRetries
    BY <2>3
  <2>5. Again(task) \in TaskRecords /\ Again(task).at = "queued"
        /\ Again(task).kind = "actor"
    <3>1. task.kind \in {"background", "actor"} /\ "queued" \in TaskStates
      BY <1>1 DEF TaskRecords, TaskStates
    <3> QED
      BY <3>1, <2>3, NoTaskTyped DEF Again, TaskRecords
  <2>6. again \in TaskRecords /\ again.at = "queued" /\ again.kind = "actor"
        /\ again.attempts = task.attempts - 1
    BY <2>4, <2>5 DEF TaskRecords
  <2>7. task.at # "posted" => made <= unknown
    BY <2>2 DEF TaskFine, Ended
  <2> HIDE DEF again
  <2>8. TaskFine(again, made, IF task.at = "posted" THEN unknown + 1 ELSE unknown)
    BY <1>1, <2>4, <2>6, <2>7 DEF TaskFine, Ended, Started
  <2> QED
    BY <2>1, <2>8
<1> QED
  BY <1>2, <1>3

LEMMA CrashWorkerStep ==
  ASSUME TasksFine, CrashWorker
  PROVE  TasksFine'
<1> DEFINE new(t) == IF t \in Unfinished("actor") THEN Redelivered(tasks[t]) ELSE tasks[t]
           unknown(t) == IF t \in Unfinished("actor") /\ tasks[t].at = "posted"
                         THEN faults[t] + 1 ELSE faults[t]
<1>1. /\ tasks' = [t \in Tasks |-> new(t)] /\ UNCHANGED comments
      /\ faults' = [t \in Tasks |-> unknown(t)]
  BY DEF CrashWorker, Crashed
<1>2. ASSUME NEW t \in Tasks PROVE TaskFine(new(t), comments[t], unknown(t))
  <2>1. TaskFine(tasks[t], comments[t], faults[t])
    BY DEF TasksFine, AllFine
  <2>2. CASE t \in Unfinished("actor")
    BY <2>1, <2>2, RedeliveredFine DEF Unfinished
  <2>3. CASE t \notin Unfinished("actor")
    BY <2>1, <2>3
  <2> QED
    BY <2>2, <2>3
<1> HIDE DEF new, unknown
<1>3. comments \in [Tasks -> Nat]
  BY DEF TasksFine, AllFine
<1> QED
  BY <1>1, <1>2, <1>3 DEF TasksFine, AllFine, TaskFine

LEMMA TasksStep ==
  ASSUME TasksFine, RestFine, ServiceNext
  PROVE  TasksFine'
<1>1. ASSUME NEW t \in Tasks, Webhook(t) \/ Enqueue(t) \/ TaskStep(t)
      PROVE  TasksFine'
  <2>1. CASE \/ Webhook(t) \/ Enqueue(t) \/ Start(t) \/ AskFiles(t)
             \/ TakeCachedToken(t) \/ ExchangeToken(t) \/ WriteComment(t)
    BY <2>1, MoveStep
  <2>2. CASE \/ TakeFiles(t) \/ Run(t) \/ ExchangeFails(t) \/ PublishRefused(t)
             \/ Publish(t) \/ PublishUnheard(t) \/ Finish(t)
    BY <2>2, EndStep
  <2>3. CASE ReadTree(t) \/ MakeRequest(t) \/ AnswerRequest(t) \/ GatherFiles(t)
    <3>1. UNCHANGED <<tasks, comments, faults>>
      BY <2>3 DEF ReadTree, MakeRequest, AnswerRequest, GatherFiles, taskVars
    <3> QED
      BY <3>1, TasksKept
  <2> QED
    BY <1>1, <2>1, <2>2, <2>3 DEF TaskStep
<1> QED
  BY <1>1, TickStep, CrashApiStep, CrashWorkerStep DEF ServiceNext

LEMMA ServiceStart == ServiceInit => ServiceInv
<1> SUFFICES ASSUME ServiceInit PROVE ServiceInv
  OBVIOUS
<1>1. CallsFine
  BY NoCallFine DEF ServiceInit, CallsFine, CallFine
<1>2. TaskFine(NoTask, 0, 0)
  <2>1. NoTask.at = "none" /\ NoTask.attempts = 0
    BY DEF NoTask
  <2> QED
    BY <2>1, NoTaskTyped, ServiceAssumption DEF TaskFine, Ended, Started
<1>3. TasksFine
  BY <1>2, NoTaskTyped DEF ServiceInit, TasksFine, AllFine
<1>4. RestFine
  BY ServiceAssumption DEF ServiceInit, RestFine, Ages
<1> QED
  BY <1>1, <1>3, <1>4 DEF ServiceInv

LEMMA ServiceStep == ServiceInv /\ [ServiceNext]_serviceVars => ServiceInv'
<1> SUFFICES ASSUME ServiceInv, [ServiceNext]_serviceVars PROVE ServiceInv'
  OBVIOUS
<1>1. CASE ServiceNext
  BY <1>1, CallsStep, TasksStep, RestStep DEF ServiceInv
<1>2. CASE UNCHANGED serviceVars
  BY <1>2 DEF serviceVars, taskVars, ServiceInv, CallsFine, TasksFine, RestFine
<1> QED
  BY <1>1, <1>2

\* What the proofs below rest on holds always.
THEOREM ServiceInvariant == ServiceSpec => []ServiceInv
  BY ServiceStart, ServiceStep, PTL DEF ServiceSpec

\* Every path asked for is told of once, as read or as failed.
THEOREM AnswersExact == ServiceSpec => []AnswerExact
<1>1. ServiceInv => AnswerExact
  BY DEF ServiceInv, CallsFine, CallFine, Exact, AnswerExact
<1> QED
  BY <1>1, ServiceInvariant, PTL

\* The type invariant: with it the bound on the attempts of an actor.
THEOREM TypeCorrect == ServiceSpec => []ServiceTypeOK
<1>1. ServiceInv => ServiceTypeOK
  BY DEF ServiceInv, CallsFine, TasksFine, AllFine, RestFine, ServiceTypeOK
<1> QED
  BY <1>1, ServiceInvariant, PTL

\* A task comments once, and again only if it cannot know that it did.
THEOREM CommentsBounded == ServiceSpec => []CommentsCounted
<1>1. ServiceInv => CommentsCounted
  BY DEF ServiceInv, TasksFine, AllFine, TaskFine, CommentsCounted, Background
<1> QED
  BY <1>1, ServiceInvariant, PTL

\* A token that is taken with the buffer left lasts for the buffer.
THEOREM TokensLast == ServiceSpec => []TokenLasts
<1>1. ASSUME ServiceInv, NEW t \in Tasks, tasks[t].at \in {"authenticated", "written"},
             tasks[t].token - tasks[t].taken <= Buffer
      PROVE  tasks[t].token < Life
  <2>1. TaskFine(tasks[t], comments[t], faults[t]) /\ tasks[t] \in TaskRecords
    BY <1>1 DEF ServiceInv, TasksFine, AllFine
  <2>2. tasks[t].token \in 0 .. Life /\ tasks[t].taken < Life - Buffer
        /\ tasks[t].taken \in 0 .. Life
    BY <1>1, <2>1 DEF TaskFine, TaskRecords
  <2>3. Life \in Nat /\ Buffer \in Nat
    BY ServiceAssumption
  <2> QED
    BY <1>1, <2>2, <2>3
<1>2. ServiceInv => TokenLasts
  BY <1>1 DEF TokenLasts
<1> QED
  BY <1>2, ServiceInvariant, PTL

-----------------------------------------------------------------------------
(* The service implements BatchSource.                                     *)

LEMMA OneMapped ==
  ASSUME CallsFine, NEW c \in Calls, NEW call, calls' = [calls EXCEPT ![c] = call]
  PROVE  /\ asked' = [asked EXCEPT ![c] = AskedOf(call)]
         /\ answer' = [answer EXCEPT ![c] = AnswerOf(call)]
  BY DEF CallsFine, asked, answer

LEMMA Unseen ==
  ASSUME CallsFine, NEW c \in Calls, NEW call, calls' = [calls EXCEPT ![c] = call],
         AskedOf(call) = AskedOf(calls[c]), AnswerOf(call) = AnswerOf(calls[c])
  PROVE  UNCHANGED <<asked, answer>>
<1>1. \A d \in Calls : AskedOf(calls'[d]) = AskedOf(calls[d])
                     /\ AnswerOf(calls'[d]) = AnswerOf(calls[d])
  BY DEF CallsFine
<1> QED
  BY <1>1 DEF asked, answer

LEMMA SourceStart == ServiceInit => Source!SourceInit
  BY DEF ServiceInit, Source!SourceInit, asked, answer, AskedOf, AnswerOf, NoCall

LEMMA MapsAsk ==
  ASSUME CallsFine, NEW c \in Calls, NEW S \in SUBSET Paths, Ask(c, S)
  PROVE  Source!Ask(c)
<1> DEFINE call == [NoCall EXCEPT !.at = "asked", !.asked = S]
<1>1. call.at = "asked" /\ call.asked = S
  BY NoCallFine DEF NoCall, CallFine, CallRecords
<1>2. AskedOf(call) = S /\ AnswerOf(call) = Nothing
  BY <1>1 DEF AskedOf, AnswerOf
<1>3. asked[c] = Nothing /\ answer[c] = Nothing
  BY DEF Ask, asked, answer, AskedOf, AnswerOf
<1>4. calls' = [calls EXCEPT ![c] = call]
  BY DEF Ask
<1> HIDE DEF call
<1>5. asked' = [asked EXCEPT ![c] = S] /\ answer' = [answer EXCEPT ![c] = Nothing]
  BY <1>2, <1>4, OneMapped
<1>6. UNCHANGED answer
  BY <1>3, <1>5 DEF answer
<1> QED
  BY <1>3, <1>5, <1>6 DEF Source!Ask

\* A call that has its answer has one that tells of every path once.
LEMMA MapsAnswer ==
  ASSUME CallsFine, CallsFine', NEW c \in Calls, NEW call, calls' = [calls EXCEPT ![c] = call],
         calls[c].at \in {"asked", "fetching"}, call.at = "answered",
         call.asked = calls[c].asked
  PROVE  Source!Answer(c)
<1>1. calls'[c] = call /\ calls[c] \in CallRecords
  BY DEF CallsFine
<1>2. Exact(call)
  BY <1>1 DEF CallsFine, CallFine
<1>3. call.read \in SUBSET calls[c].asked /\ call.failed = calls[c].asked \ call.read
  BY <1>2 DEF Exact
<1>4. asked[c] = calls[c].asked /\ answer[c] = Nothing /\ asked[c] # Nothing
  BY <1>1, ServiceAssumption DEF asked, answer, AskedOf, AnswerOf, CallRecords
<1>5. UNCHANGED asked
  <2>1. AskedOf(call) = AskedOf(calls[c])
    BY DEF AskedOf
  <2>2. \A d \in Calls : AskedOf(calls'[d]) = AskedOf(calls[d])
    BY <2>1 DEF CallsFine
  <2> QED
    BY <2>2 DEF asked
<1>6. AnswerOf(call) = [read |-> call.read, failed |-> asked[c] \ call.read]
  BY <1>3, <1>4 DEF AnswerOf
<1>7. answer' = [answer EXCEPT ![c] = AnswerOf(call)]
  BY OneMapped
<1>8. answer' = [answer EXCEPT ![c] = [read |-> call.read, failed |-> asked[c] \ call.read]]
  BY <1>6, <1>7, Zenon
<1> QED
  BY <1>3, <1>4, <1>5, <1>8 DEF Source!Answer

LEMMA MapsReadTree ==
  ASSUME CallsFine, CallsFine', NEW c \in Calls, TreeFails(c) \/ TreeRead(c)
  PROVE  Source!Answer(c) \/ UNCHANGED <<asked, answer>>
<1>1. calls[c] \in CallRecords /\ calls[c].at = "asked"
  BY DEF CallsFine, TreeFails, TreeRead
<1>2. CASE TreeFails(c)
  <2> DEFINE call == [calls[c] EXCEPT !.at = "answered", !.failed = calls[c].asked]
  <2>1. call.at = "answered" /\ call.asked = calls[c].asked
    BY <1>1 DEF CallRecords
  <2>2. calls' = [calls EXCEPT ![c] = call]
    BY <1>2 DEF TreeFails
  <2> HIDE DEF call
  <2> QED
    BY <1>1, <2>1, <2>2, MapsAnswer
<1>3. CASE TreeRead(c)
  <2>1. PICK listed \in SUBSET calls[c].asked : \E order \in Sorted(listed) :
          calls' = [calls EXCEPT ![c].at = "fetching", ![c].wanted = order]
    BY <1>3 DEF TreeRead
  <2>2. PICK order \in Sorted(listed) :
          calls' = [calls EXCEPT ![c].at = "fetching", ![c].wanted = order]
    BY <2>1
  <2> DEFINE call == [calls[c] EXCEPT !.at = "fetching", !.wanted = order]
  <2>3. call.at = "fetching" /\ call.asked = calls[c].asked
    BY <1>1 DEF CallRecords
  <2>4. calls' = [calls EXCEPT ![c] = call]
    BY <2>2
  <2> HIDE DEF call
  <2>5. AskedOf(call) = AskedOf(calls[c]) /\ AnswerOf(call) = AnswerOf(calls[c])
    BY <1>1, <2>3 DEF AskedOf, AnswerOf
  <2> QED
    BY <2>4, <2>5, Unseen
<1> QED
  BY <1>2, <1>3

\* The source does not see the requests.
LEMMA MapsFetch ==
  ASSUME CallsFine, NEW c \in Calls, NEW call \in CallRecords, calls[c].at = "fetching",
         calls' = [calls EXCEPT ![c] = call], call.at = "fetching", call.asked = calls[c].asked
  PROVE  UNCHANGED <<asked, answer>>
<1>1. AskedOf(call) = AskedOf(calls[c]) /\ AnswerOf(call) = AnswerOf(calls[c])
  BY DEF AskedOf, AnswerOf
<1> QED
  BY <1>1, Unseen

LEMMA MapsRequests ==
  ASSUME CallsFine, CallsFine', NEW t \in Tasks, MakeRequest(t) \/ AnswerRequest(t)
  PROVE  UNCHANGED <<asked, answer>>
<1>1. t \in Calls /\ calls \in [Calls -> CallRecords] /\ calls' \in [Calls -> CallRecords]
  BY DEF Tasks, CallsFine
<1>2. ASSUME NEW call, calls' = [calls EXCEPT ![t] = call], call.at = "fetching",
             call.asked = calls[t].asked, calls[t].at = "fetching"
      PROVE  UNCHANGED <<asked, answer>>
  <2>1. calls'[t] = call /\ calls'[t] \in CallRecords
    BY <1>1, <1>2
  <2> QED
    BY <1>1, <1>2, <2>1, MapsFetch
<1>3. CASE MakeRequest(t)
  <2>1. PICK next \in DOMAIN calls[t].wanted :
          calls' = [calls EXCEPT ![t].inFlight = @ \union {next}]
    BY <1>3 DEF MakeRequest, Request
  <2> DEFINE call == [calls[t] EXCEPT !.inFlight = @ \union {next}]
  <2>2. calls[t].at = "fetching"
    BY <1>3 DEF MakeRequest, Request
  <2>3. call.at = "fetching" /\ call.asked = calls[t].asked
    BY <1>1, <2>2 DEF CallRecords
  <2>4. calls' = [calls EXCEPT ![t] = call]
    BY <2>1
  <2> QED
    BY <2>2, <2>3, <2>4, <1>2
<1>4. CASE AnswerRequest(t)
  <2>1. PICK i \in calls[t].inFlight, ok \in BOOLEAN : Respond(t, i, ok)
    BY <1>4 DEF AnswerRequest
  <2> DEFINE call == [calls[t] EXCEPT
               !.inFlight = Leave(calls[t], i, ok),
               !.blobs = IF ok THEN @ \union {i} ELSE @,
               !.errors = IF ok THEN @ ELSE @ \union {i}]
  <2>2. calls[t].at = "fetching" /\ calls' = [calls EXCEPT ![t] = call]
    BY <2>1 DEF Respond
  <2>3. call.at = "fetching" /\ call.asked = calls[t].asked
    BY <1>1, <2>2 DEF CallRecords
  <2> HIDE DEF call
  <2> QED
    BY <2>2, <2>3, <1>2
<1> QED
  BY <1>3, <1>4

LEMMA MapsGather ==
  ASSUME CallsFine, CallsFine', NEW c \in Calls, Gather(c)
  PROVE  Source!Answer(c)
<1>1. calls \in [Calls -> CallRecords] /\ calls' \in [Calls -> CallRecords]
  BY DEF CallsFine
<1>2. PICK paths \in Positions(calls[c]) :
        calls' = [calls EXCEPT
          ![c].at = "answered",
          ![c].read = Named(calls[c].wanted, calls[c].blobs),
          ![c].failed = NotInTree(calls[c]) \union Named(paths, calls[c].errors)]
  BY DEF Gather
<1>3. /\ calls[c].at = "fetching" /\ calls'[c].at = "answered"
      /\ calls'[c].asked = calls[c].asked /\ calls' = [calls EXCEPT ![c] = calls'[c]]
  BY <1>1, <1>2 DEF Gather, CallRecords
<1> QED
  BY <1>3, MapsAnswer

LEMMA MapsTake ==
  ASSUME CallsFine, NEW c \in Calls, calls[c].at = "answered",
         calls' = [calls EXCEPT ![c] = NoCall]
  PROVE  Source!Forget(c)
<1>1. AskedOf(NoCall) = Nothing /\ AnswerOf(NoCall) = Nothing
  BY DEF AskedOf, AnswerOf, NoCall
<1>2. asked[c] # Nothing
  BY ServiceAssumption DEF asked, AskedOf, CallsFine, CallRecords
<1>3. asked' = [asked EXCEPT ![c] = Nothing] /\ answer' = [answer EXCEPT ![c] = Nothing]
  BY <1>1, OneMapped
<1> QED
  BY <1>2, <1>3 DEF Source!Forget

LEMMA MapsCrash ==
  ASSUME CallsFine, CrashApi \/ CrashWorker
  PROVE  \E C \in SUBSET Calls : Source!ForgetAll(C)
<1>1. ASSUME NEW C \in SUBSET Calls,
             calls' = [c \in Tasks |-> IF c \in C THEN NoCall ELSE calls[c]]
      PROVE  Source!ForgetAll(C)
  <2>1. AskedOf(NoCall) = Nothing /\ AnswerOf(NoCall) = Nothing
    BY DEF AskedOf, AnswerOf, NoCall
  <2>2. asked' = [c \in Calls |-> IF c \in C THEN Nothing ELSE asked[c]]
    BY <1>1, <2>1 DEF asked, Tasks
  <2>3. answer' = [c \in Calls |-> IF c \in C THEN Nothing ELSE answer[c]]
    BY <1>1, <2>1 DEF answer, Tasks
  <2> QED
    BY <2>2, <2>3 DEF Source!ForgetAll
<1>2. Unfinished("background") \in SUBSET Calls /\ Unfinished("actor") \in SUBSET Calls
  BY DEF Unfinished, Tasks
<1> QED
  BY <1>1, <1>2 DEF CrashApi, CrashWorker, Crashed

LEMMA SourceStep ==
  ASSUME CallsFine, CallsFine', [ServiceNext]_serviceVars
  PROVE  [Source!SourceNext]_<<asked, answer>>
<1>0. ASSUME UNCHANGED calls PROVE UNCHANGED <<asked, answer>>
  BY <1>0 DEF asked, answer
<1>1. ASSUME NEW t \in Tasks, Webhook(t) \/ Enqueue(t) \/ TaskStep(t)
      PROVE  [Source!SourceNext]_<<asked, answer>>
  <2> t \in Calls
    BY DEF Tasks
  <2>1. CASE AskFiles(t)
    <3>1. PICK S \in Batches[t] : Ask(t, S)
      BY <2>1 DEF AskFiles
    <3>2. S \in SUBSET Paths
      BY ServiceAssumption
    <3>3. Source!Ask(t)
      BY <3>1, <3>2, MapsAsk
    <3> QED
      BY <3>3 DEF Source!SourceNext
  <2>2. CASE ReadTree(t)
    <3>1. Source!Answer(t) \/ UNCHANGED <<asked, answer>>
      BY <2>2, MapsReadTree DEF ReadTree
    <3> QED
      BY <3>1 DEF Source!SourceNext
  <2>3. CASE MakeRequest(t) \/ AnswerRequest(t)
    BY <2>3, MapsRequests
  <2>4. CASE GatherFiles(t)
    <3>1. Source!Answer(t)
      BY <2>4, MapsGather DEF GatherFiles
    <3> QED
      BY <3>1 DEF Source!SourceNext
  <2>5. CASE TakeFiles(t)
    <3>1. Source!Forget(t)
      BY <2>5, MapsTake DEF TakeFiles
    <3> QED
      BY <3>1 DEF Source!SourceNext
  <2>6. CASE \/ Webhook(t) \/ Enqueue(t) \/ Start(t) \/ Run(t) \/ TakeCachedToken(t)
             \/ ExchangeToken(t) \/ ExchangeFails(t) \/ WriteComment(t) \/ Publish(t)
             \/ PublishUnheard(t) \/ PublishRefused(t) \/ Finish(t)
    <3>1. UNCHANGED calls
      BY <2>6 DEF Webhook, Enqueue, Start, Run, TakeCachedToken, ExchangeToken, ExchangeFails,
                  WriteComment, Publish, PublishUnheard, PublishRefused, Finish
    <3> QED
      BY <3>1, <1>0
  <2> QED
    BY <1>1, <2>1, <2>2, <2>3, <2>4, <2>5, <2>6 DEF TaskStep
<1>2. CASE Tick \/ UNCHANGED serviceVars
  BY <1>2, <1>0 DEF Tick, serviceVars
<1>3. CASE CrashApi \/ CrashWorker
  <2>1. PICK C \in SUBSET Calls : Source!ForgetAll(C)
    BY <1>3, MapsCrash
  <2> QED
    BY <2>1 DEF Source!SourceNext
<1> QED
  BY <1>1, <1>2, <1>3 DEF ServiceNext

\* Whatever answers, times out or crashes, in whichever order, those who ask for files
\* get what BatchSource promises.
THEOREM ServiceImplementsSource == ServiceSpec => SourceKept
<1>1. ServiceInv /\ ServiceInv' /\ [ServiceNext]_serviceVars => [Source!SourceNext]_<<asked, answer>>
  BY SourceStep DEF ServiceInv
<1> QED
  BY <1>1, SourceStart, ServiceInvariant, PTL DEF ServiceSpec, SourceKept, Source!SourceSpec
=============================================================================
