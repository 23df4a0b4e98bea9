------------------------ MODULE WorkflowWorkerProofs ------------------------
(***************************************************************************)
(* Theorems about WorkflowWorker, for any number of executions, instances, *)
(* slots and faults.                                                       *)
(***************************************************************************)
EXTENDS WorkflowWorker, FiniteSetTheorems, TLAPS

-----------------------------------------------------------------------------
(* Types.                                                                  *)

\* A hand is filled one job at a time, so its cardinality means something.
HandFinite == \A w \in Instances : IsFiniteSet(hand[w])

LEMMA TypeInit == Init => TypeOK /\ HandFinite
BY FaultAssumption, FS_EmptySet DEF Init, HandFinite, TypeOK, Status, Queues, Modes, PollPoints, Phase

LEMMA CancelExecutionTypes ==
  ASSUME TypeOK, NEW w \in Instances, NEW e \in Execs, CancelExecution(w, e)
  PROVE  /\ aborted' \in [Instances -> SUBSET Execs]
         /\ inbox' \in [Instances -> SUBSET Execs]
<1>1. /\ aborted \in [Instances -> SUBSET Execs]
      /\ inbox \in [Instances -> SUBSET Execs]
  BY DEF TypeOK
<1> QED BY <1>1 DEF CancelExecution, Abort, Published

LEMMA CheckStatusTypes ==
  ASSUME TypeOK, NEW w \in Instances, NEW e \in Execs, CheckStatus(w, e)
  PROVE  /\ phase' \in [Instances -> [Execs -> Phase]]
         /\ aborted' \in [Instances -> SUBSET Execs]
         /\ processingCount' \in [Instances -> Int]
<1>1. /\ phase \in [Instances -> [Execs -> Phase]]
      /\ aborted \in [Instances -> SUBSET Execs]
      /\ processingCount \in [Instances -> Int]
  BY DEF TypeOK
<1>2. PICK p \in Phase : phase' = [phase EXCEPT ![w][e] = p]
  BY DEF CheckStatus, Leave, Goto, Phase
<1>3. aborted' \in [Instances -> SUBSET Execs]
  BY <1>1 DEF CheckStatus, Leave
<1>4. processingCount' \in [Instances -> Int]
  BY <1>1 DEF CheckStatus, Leave
<1> QED BY <1>1, <1>2, <1>3, <1>4

\* What a poll may change has its type again afterwards.
PollTypes ==
    /\ fetches \in [Instances -> Nat]
    /\ hand \in [Instances -> SUBSET Execs]
    /\ processingCount \in [Instances -> Int]
    /\ phase \in [Instances -> [Execs -> Phase]]
    /\ pollAt \in [Instances -> PollPoints]
    /\ HandFinite

LEMMA LaunchTypes ==
  ASSUME PollTypes, NEW w \in Instances, NEW jobs \in SUBSET Execs, IsFiniteSet(jobs),
         Launch(w, jobs)
  PROVE  PollTypes'
<1>1. Cardinality(jobs) \in Nat
  BY FS_CardinalityType
<1>2. /\ fetches' \in [Instances -> Nat]
      /\ hand' \in [Instances -> SUBSET Execs]
      /\ pollAt' \in [Instances -> PollPoints]
  BY DEF Launch, PollTypes, PollPoints
<1>3. processingCount' \in [Instances -> Int]
  BY <1>1 DEF Launch, PollTypes
<1>4. phase' \in [Instances -> [Execs -> Phase]]
  BY DEF Launch, PollTypes, Phase
<1>5. \A v \in Instances : hand'[v] = {} \/ hand'[v] = hand[v]
  BY DEF Launch, PollTypes
<1>6. HandFinite'
  BY <1>5, FS_EmptySet DEF PollTypes, HandFinite
<1> QED BY <1>2, <1>3, <1>4, <1>6 DEF PollTypes

LEMMA TakeTypes ==
  ASSUME queue \in [Queues -> Seq(Execs)], PollTypes,
         NEW w \in Instances, NEW q \in Queues, Take(w, q)
  PROVE  queue' \in [Queues -> Seq(Execs)] /\ PollTypes'
<1> DEFINE jobs == hand[w] \cup {Head(queue[q])}
<1>1. queue[q] \in Seq(Execs) /\ queue[q] # <<>>
  BY DEF Take
<1>2. Head(queue[q]) \in Execs /\ Tail(queue[q]) \in Seq(Execs)
  BY <1>1
<1>3. queue' \in [Queues -> Seq(Execs)]
  BY <1>2 DEF Take
<1>4. jobs \in SUBSET Execs /\ IsFiniteSet(jobs)
  BY <1>2, FS_AddElement DEF PollTypes, HandFinite
<1>5. CASE Launch(w, jobs)
  BY <1>3, <1>4, <1>5, LaunchTypes
<1>6. CASE /\ fetches[w] > 1
           /\ hand' = [hand EXCEPT ![w] = jobs]
           /\ fetches' = [fetches EXCEPT ![w] = @ - 1]
           /\ pollAt' = [pollAt EXCEPT ![w] = "priority"]
           /\ UNCHANGED <<processingCount, phase>>
  <2> HIDE DEF jobs
  <2>1. fetches' \in [Instances -> Nat] /\ pollAt' \in [Instances -> PollPoints]
    BY <1>6 DEF PollTypes, PollPoints
  <2>2. hand' \in [Instances -> SUBSET Execs] /\ HandFinite'
    BY <1>4, <1>6 DEF PollTypes, HandFinite
  <2> QED BY <1>3, <1>6, <2>1, <2>2 DEF PollTypes
<1> QED BY <1>5, <1>6 DEF Take

LEMMA TypeNext == TypeOK /\ HandFinite /\ [Next]_vars => TypeOK'
<1> SUFFICES ASSUME TypeOK, HandFinite, [Next]_vars PROVE TypeOK'
  OBVIOUS
<1> USE DEF TypeOK, Status, Queues, Modes, PollPoints, Phase, Terminal,
        store, requests, polling, processing, history
<1>1. ASSUME NEW w \in Instances, Poll(w) PROVE TypeOK'
  <2>1. CASE PollStart(w)
    BY <2>1, ConcurrencyAssumption, BatchAssumption DEF PollStart, Lesser
  <2>2. CASE PollReturns(w)
    BY <2>2 DEF PollReturns
  <2> PollTypes
    BY DEF PollTypes
  <2>3. CASE PopPriority(w)
    <3>1. CASE Take(w, "priority")
      BY <2>3, <3>1, TakeTypes DEF PopPriority, PollTypes
    <3>2. CASE pollAt' = [pollAt EXCEPT ![w] = "regular"] /\ UNCHANGED <<queue, fetches, hand, processingCount, phase>>
      BY <2>3, <3>2 DEF PopPriority
    <3> QED BY <2>3, <3>1, <3>2 DEF PopPriority
  <2>4. CASE PopRegular(w)
    <3>1. CASE Take(w, "regular")
      BY <2>4, <3>1, TakeTypes DEF PopRegular, PollTypes
    <3>2. CASE Launch(w, hand[w]) /\ UNCHANGED queue
      <4>1. PollTypes'
        BY <3>2, LaunchTypes DEF HandFinite
      <4> QED BY <2>4, <3>2, <4>1 DEF PopRegular, PollTypes
    <3> QED BY <2>4, <3>1, <3>2 DEF PopRegular
  <2>5. CASE PollFails(w)
    BY <2>5 DEF PollFails, Rejects, Fault
  <2> QED BY <1>1, <2>1, <2>2, <2>3, <2>4, <2>5 DEF Poll
<1>2. ASSUME NEW w \in Instances, Lifecycle(w) PROVE TypeOK'
  <2>1. CASE CloseRedis(w) \/ BeginShutdown(w)
    BY <2>1 DEF CloseRedis, BeginShutdown
  <2>2. CASE EndShutdown(w)
    BY <2>2 DEF EndShutdown, Abort, Active
  <2>3. CASE Exit(w)
    BY <2>3 DEF Exit, Forget, Held, Active
  <2>4. CASE Crash(w)
    BY <2>4 DEF Crash, Fault, Forget, Held, Active
  <2>5. CASE Restart(w)
    BY <2>5 DEF Restart
  <2> QED BY <1>2, <2>1, <2>2, <2>3, <2>4, <2>5 DEF Lifecycle
<1>3. ASSUME NEW w \in Instances, NEW e \in Execs, Request(w, e) PROVE TypeOK'
  <2>1. CASE CreateExecution(w, e)
    BY <2>1 DEF CreateExecution
  <2>2. CASE PushJob(w, e)
    BY <2>2 DEF PushJob
  <2>3. CASE PushFails(w, e)
    BY <2>3 DEF PushFails, Rejects, Fault
  <2>4. CASE CancelCheck(w, e)
    BY <2>4 DEF CancelCheck
  <2>5. CASE CancelWrite(w, e)
    BY <2>5 DEF CancelWrite, Published
  <2>6. CASE CancelExecution(w, e)
    BY <2>6, CancelExecutionTypes DEF CancelExecution
  <2> QED BY <1>3, <2>1, <2>2, <2>3, <2>4, <2>5, <2>6 DEF Request
<1>4. ASSUME NEW w \in Instances, NEW e \in Execs, Process(w, e) PROVE TypeOK'
  <2> USE DEF Goto, Catch, Leave
  <2>1. CASE OnCancelMessage(w, e)
    BY <2>1 DEF OnCancelMessage, Abort
  <2>2. CASE CheckStatus(w, e)
    BY <2>2, CheckStatusTypes DEF CheckStatus
  <2>3. CASE MarkRunning(w, e)
    <3>1. /\ \E p \in Phase : phase' = [phase EXCEPT ![w][e] = p]
          /\ status' = [status EXCEPT ![e] = "RUNNING"]
          /\ UNCHANGED <<aborted, processingCount>>
      BY <2>3 DEF MarkRunning
    <3>2. UNCHANGED <<queue, requests, inbox, mode, polling, faults, history>>
      BY <2>3 DEF MarkRunning
    <3> QED BY <3>1, <3>2
  <2>4. CASE NodesDone(w, e)
    BY <2>4 DEF NodesDone
  <2>5. CASE NodesThrow(w, e)
    <3>1. /\ \E p \in Phase : phase' = [phase EXCEPT ![w][e] = p]
          /\ UNCHANGED <<aborted, processingCount>>
      BY <2>5 DEF NodesThrow
    <3>2. UNCHANGED <<store, requests, inbox, mode, polling, faults, history>>
      BY <2>5 DEF NodesThrow
    <3> QED BY <3>1, <3>2
  <2>6. CASE MarkCompleted(w, e)
    BY <2>6 DEF MarkCompleted
  <2>7. CASE MarkFailed(w, e)
    BY <2>7 DEF MarkFailed
  <2>8. CASE Finish(w, e)
    BY <2>8 DEF Finish
  <2>9. CASE TryFails(w, e)
    BY <2>9 DEF TryFails, Rejects, Fault
  <2>10. CASE CatchFails(w, e)
    BY <2>10 DEF CatchFails, Rejects, Fault
  <2> QED BY <1>4, <2>1, <2>2, <2>3, <2>4, <2>5, <2>6, <2>7, <2>8, <2>9, <2>10 DEF Process, Advance
<1>5. CASE UNCHANGED vars
  BY <1>5 DEF vars
<1> QED BY <1>1, <1>2, <1>3, <1>4, <1>5 DEF Next

-----------------------------------------------------------------------------
(* Placement: an execution is in one place, and one without a row nowhere. *)

NoRowNowhere ==
    \A e \in Execs : status[e] = "NONE" =>
        ~InQueue(e) /\ \A w \in Instances : e \notin Held(w)

Placement == OnePlace /\ NoRowNowhere

\* Steps that add an execution to no place.
Quiet ==
    /\ queue' = queue
    /\ \A v \in Instances :
          /\ unpushed'[v] \subseteq unpushed[v]
          /\ hand'[v] \subseteq hand[v]
          /\ Active(v)' \subseteq Active(v)
    /\ \A e \in Execs : status'[e] = "NONE" => status[e] = "NONE"

LEMMA QuietKeepsPlacement == Placement /\ Quiet => Placement'
BY DEF Placement, OnePlace, NoRowNowhere, InQueue, Held, Quiet

\* Moving executions into one field of one process.
LEMMA GotoActive ==
  ASSUME phase \in [Instances -> [Execs -> Phase]], NEW w \in Instances, NEW e \in Execs,
         NEW p \in Phase, phase[w][e] # "idle", phase' = [phase EXCEPT ![w][e] = p]
  PROVE  \A v \in Instances :
            /\ Active(v)' \subseteq Active(v)
            /\ v # w => Active(v)' = Active(v)
            /\ p # "idle" => Active(v)' = Active(v)
            /\ p = "idle" => Active(w)' = Active(w) \ {e}
BY DEF Active

LEMMA LifecycleQuiet ==
  ASSUME TypeOK, NEW w \in Instances, Lifecycle(w) PROVE Quiet
<1>1. CASE CloseRedis(w) \/ BeginShutdown(w)
  BY <1>1 DEF CloseRedis, BeginShutdown, Quiet, Active, store, requests, polling, processing
<1>2. CASE EndShutdown(w)
  BY <1>2 DEF EndShutdown, Quiet, Active, store, requests, polling
<1>3. CASE Exit(w) \/ Crash(w)
  <2>1. Forget(w)
    BY <1>3 DEF Exit, Crash
  <2>2. /\ queue' = queue /\ status' = status
        /\ unpushed' = [unpushed EXCEPT ![w] = {}]
        /\ hand' = [hand EXCEPT ![w] = {}]
        /\ phase' = [phase EXCEPT ![w] = [e \in Execs |-> "idle"]]
    BY <2>1 DEF Forget, store
  <2>3. \A v \in Instances : Active(v)' \subseteq Active(v)
    BY <2>2 DEF Active, TypeOK
  <2>4. \A v \in Instances : unpushed'[v] \subseteq unpushed[v] /\ hand'[v] \subseteq hand[v]
    BY <2>2 DEF TypeOK
  <2> QED BY <2>2, <2>3, <2>4 DEF Quiet
<1>4. CASE Restart(w)
  BY <1>4 DEF Restart, Quiet, Active, store, requests, processing
<1> QED BY <1>1, <1>2, <1>3, <1>4 DEF Lifecycle

LEMMA ProcessQuiet ==
  ASSUME TypeOK, NEW w \in Instances, NEW e \in Execs, Process(w, e) PROVE Quiet
<1>1. queue' = queue /\ unpushed' = unpushed /\ hand' = hand
  BY DEF Process, Advance, OnCancelMessage, CheckStatus, MarkRunning, NodesDone, NodesThrow,
         MarkCompleted, MarkFailed, Finish, TryFails, CatchFails, store, requests, polling
<1>2. \A v \in Instances : Active(v)' \subseteq Active(v)
  <2>1. CASE OnCancelMessage(w, e)
    BY <2>1 DEF OnCancelMessage, Active
  <2>2. CASE ~OnCancelMessage(w, e)
    <3>1. phase[w][e] # "idle"
      BY <2>2 DEF Process, Advance, CheckStatus, MarkRunning, NodesDone, NodesThrow, MarkCompleted,
             MarkFailed, Finish, TryFails, CatchFails
    <3>2. PICK p \in Phase : phase' = [phase EXCEPT ![w][e] = p]
      BY <2>2 DEF Process, Advance, CheckStatus, MarkRunning, NodesDone, NodesThrow, MarkCompleted,
             MarkFailed, Finish, TryFails, CatchFails, Goto, Catch, Leave, Phase
    <3> QED BY <3>1, <3>2, GotoActive DEF TypeOK
  <2> QED BY <2>1, <2>2
<1>3. status' = status \/ \E s \in Status \ {"NONE"} : status' = [status EXCEPT ![e] = s]
  BY DEF Process, Advance, OnCancelMessage, CheckStatus, MarkRunning, NodesDone, NodesThrow,
         MarkCompleted, MarkFailed, Finish, TryFails, CatchFails, store, Status, Terminal
<1>4. \A f \in Execs : status'[f] = "NONE" => status[f] = "NONE"
  BY <1>3 DEF TypeOK
<1> QED BY <1>1, <1>2, <1>4 DEF Quiet

LEMMA CreateKeepsPlacement ==
  ASSUME TypeOK, Placement, NEW w \in Instances, NEW e \in Execs, CreateExecution(w, e)
  PROVE  Placement'
<1>1. /\ queue' = queue /\ hand' = hand /\ phase' = phase
      /\ unpushed' = [unpushed EXCEPT ![w] = @ \cup {e}]
      /\ status' = [status EXCEPT ![e] = "PENDING"] /\ status[e] = "NONE"
  BY DEF CreateExecution, polling, processing
<1>2. \A v \in Instances : Active(v)' = Active(v)
  BY <1>1 DEF Active
<1>3. ~InQueue(e) /\ \A v \in Instances : e \notin Held(v)
  BY <1>1 DEF Placement, NoRowNowhere
<1>4. \A v \in Instances : Held(v)' = IF v = w THEN Held(v) \cup {e} ELSE Held(v)
  BY <1>1, <1>2 DEF Held, TypeOK
<1>5. OnePlace'
  <2>1. \A q \in Queues : \A i \in 1..Len(queue[q]) : queue[q][i] # e
    BY <1>3 DEF InQueue
  <2>2. \A q, r \in Queues : \A i \in 1..Len(queue'[q]), j \in 1..Len(queue'[r]) :
           queue'[q][i] = queue'[r][j] => q = r /\ i = j
    BY <1>1 DEF OnePlace, Placement
  <2>3. \A q \in Queues : \A i \in 1..Len(queue'[q]) : \A v \in Instances :
           queue'[q][i] \notin Held(v)'
    BY <1>1, <1>4, <2>1 DEF OnePlace, Placement
  <2>4. \A v, u \in Instances : v # u => Held(v)' \cap Held(u)' = {}
    BY <1>3, <1>4 DEF OnePlace, Placement
  <2>5. \A v \in Instances :
          /\ unpushed'[v] \cap hand'[v] = {}
          /\ (unpushed'[v] \cup hand'[v]) \cap Active(v)' = {}
    BY <1>1, <1>2, <1>3 DEF OnePlace, Placement, Held, TypeOK
  <2> QED BY <2>2, <2>3, <2>4, <2>5 DEF OnePlace
<1>6. NoRowNowhere'
  <2>1. ASSUME NEW f \in Execs, status'[f] = "NONE"
        PROVE  ~InQueue(f)' /\ \A v \in Instances : f \notin Held(v)'
    <3>1. f # e /\ status[f] = "NONE"
      BY <1>1, <2>1 DEF TypeOK
    <3> QED BY <1>1, <1>4, <3>1 DEF NoRowNowhere, Placement, InQueue
  <2> QED BY <2>1 DEF NoRowNowhere
<1> QED BY <1>5, <1>6 DEF Placement

\* LPUSH and RPOP as operations on indices.
LEMMA AppendFacts ==
  ASSUME NEW s \in Seq(Execs), NEW e \in Execs
  PROVE  /\ Append(s, e) \in Seq(Execs)
         /\ Len(Append(s, e)) = Len(s) + 1
         /\ \A i \in 1..Len(s) : Append(s, e)[i] = s[i]
         /\ Append(s, e)[Len(s) + 1] = e
OBVIOUS

LEMMA TailFacts ==
  ASSUME NEW s \in Seq(Execs), s # <<>>
  PROVE  /\ Tail(s) \in Seq(Execs) /\ Head(s) \in Execs
         /\ Len(s) \in Nat \ {0} /\ Len(Tail(s)) = Len(s) - 1
         /\ Head(s) = s[1]
         /\ \A i \in 1..Len(Tail(s)) : i + 1 \in 1..Len(s) /\ Tail(s)[i] = s[i + 1]
         /\ \A i \in 1..Len(s) : i # 1 => i - 1 \in 1..Len(Tail(s)) /\ Tail(s)[i - 1] = s[i]
OBVIOUS

LEMMA PushKeepsPlacement ==
  ASSUME TypeOK, Placement, NEW w \in Instances, NEW e \in Execs, PushJob(w, e)
  PROVE  /\ Placement'
         /\ \A f \in Execs : InQueue(f)' <=> InQueue(f) \/ f = e
<1> DEFINE q == IF e \in SubExecs THEN "priority" ELSE "regular"
<1>1. /\ hand' = hand /\ phase' = phase /\ status' = status
      /\ e \in unpushed[w]
      /\ unpushed' = [unpushed EXCEPT ![w] = @ \ {e}]
      /\ q \in Queues /\ queue' = [queue EXCEPT ![q] = Append(@, e)]
  BY DEF PushJob, polling, processing, Queues
<1> HIDE DEF q
<1>2. \A v \in Instances : Active(v)' = Active(v)
  BY <1>1 DEF Active
<1>3. \A v \in Instances :
         /\ unpushed'[v] \subseteq unpushed[v] /\ Held(v)' \subseteq Held(v)
         /\ e \notin Held(v)'
  BY <1>1, <1>2 DEF Held, TypeOK, Placement, OnePlace
<1>4. /\ queue[q] \in Seq(Execs) /\ Len(queue[q]) \in Nat
      /\ queue'[q] = Append(queue[q], e) /\ Len(queue'[q]) = Len(queue[q]) + 1
      /\ \A i \in 1..Len(queue[q]) : queue'[q][i] = queue[q][i]
      /\ queue'[q][Len(queue[q]) + 1] = e
      /\ \A r \in Queues : r # q => queue'[r] = queue[r]
  BY <1>1, AppendFacts DEF TypeOK
<1>5. \A r \in Queues : \A i \in 1..Len(queue'[r]) :
         \/ i \in 1..Len(queue[r]) /\ queue'[r][i] = queue[r][i]
         \/ r = q /\ i = Len(queue[q]) + 1 /\ queue'[r][i] = e
  BY <1>1, <1>4
<1>6. \A r \in Queues : \A i \in 1..Len(queue[r]) : queue[r][i] # e
  BY <1>1 DEF Placement, OnePlace, Held
<1>7. \A f \in Execs : InQueue(f)' <=> InQueue(f) \/ f = e
  <2>1. InQueue(e)'
    <3>1. Len(queue[q]) + 1 \in 1..Len(queue'[q])
      BY <1>4
    <3> QED BY <1>1, <1>4, <3>1 DEF InQueue
  <2>2. ASSUME NEW f \in Execs, InQueue(f) PROVE InQueue(f)'
    <3>1. PICK r \in Queues : \E i \in 1..Len(queue[r]) : queue[r][i] = f
      BY <2>2 DEF InQueue
    <3>2. PICK i \in 1..Len(queue[r]) : queue[r][i] = f
      BY <3>1
    <3>3. i \in 1..Len(queue'[r]) /\ queue'[r][i] = f
      BY <1>1, <1>4, <3>2
    <3> QED BY <3>3 DEF InQueue
  <2>3. ASSUME NEW f \in Execs, InQueue(f)' PROVE InQueue(f) \/ f = e
    BY <1>5, <2>3 DEF InQueue
  <2> QED BY <2>1, <2>2, <2>3
<1>8. OnePlace'
  <2>1. ASSUME NEW r \in Queues, NEW t \in Queues, NEW i \in 1..Len(queue'[r]),
               NEW j \in 1..Len(queue'[t]), queue'[r][i] = queue'[t][j]
        PROVE  r = t /\ i = j
    BY <1>5, <1>6, <2>1 DEF Placement, OnePlace
  <2>2. \A r \in Queues : \A i \in 1..Len(queue'[r]) : \A v \in Instances :
           queue'[r][i] \notin Held(v)'
    BY <1>3, <1>5 DEF Placement, OnePlace
  <2>3. \A v, u \in Instances : v # u => Held(v)' \cap Held(u)' = {}
    BY <1>3 DEF Placement, OnePlace
  <2>4. \A v \in Instances :
          /\ unpushed'[v] \cap hand'[v] = {}
          /\ (unpushed'[v] \cup hand'[v]) \cap Active(v)' = {}
    BY <1>1, <1>2, <1>3 DEF Placement, OnePlace
  <2> QED BY <2>1, <2>2, <2>3, <2>4 DEF OnePlace
<1>9. NoRowNowhere'
  <2>1. status[e] # "NONE"
    BY <1>1 DEF Placement, NoRowNowhere, Held
  <2> QED BY <1>1, <1>3, <1>7, <2>1 DEF Placement, NoRowNowhere
<1> QED BY <1>7, <1>8, <1>9 DEF Placement

LEMMA RequestKeepsPlacement ==
  ASSUME TypeOK, Placement, NEW w \in Instances, NEW e \in Execs, Request(w, e)
  PROVE  Placement'
<1>1. CASE CreateExecution(w, e)
  BY <1>1, CreateKeepsPlacement
<1>2. CASE PushJob(w, e)
  BY <1>2, PushKeepsPlacement
<1>3. CASE PushFails(w, e)
  <2>1. Quiet
    BY <1>3 DEF PushFails, Quiet, Active, TypeOK, store, polling, processing
  <2> QED BY <2>1, QuietKeepsPlacement
<1>4. CASE CancelCheck(w, e)
  <2>1. Quiet
    BY <1>4 DEF CancelCheck, Quiet, Active, store, polling, processing
  <2> QED BY <2>1, QuietKeepsPlacement
<1>5. CASE CancelWrite(w, e)
  <2>1. Quiet
    BY <1>5 DEF CancelWrite, Quiet, Active, TypeOK, polling, processing
  <2> QED BY <2>1, QuietKeepsPlacement
<1>6. CASE CancelExecution(w, e)
  <2>1. Quiet
    BY <1>6 DEF CancelExecution, Quiet, Active, store, requests, polling
  <2> QED BY <2>1, QuietKeepsPlacement
<1> QED BY <1>1, <1>2, <1>3, <1>4, <1>5, <1>6 DEF Request

\* Starting jobs moves them within one instance.
LEMMA LaunchActive ==
  ASSUME PollTypes, NEW w \in Instances, NEW jobs \in SUBSET Execs, Launch(w, jobs)
  PROVE  \A v \in Instances :
            /\ Active(v)' = IF v = w THEN Active(v) \cup jobs ELSE Active(v)
            /\ hand'[v] = IF v = w THEN {} ELSE hand[v]
BY DEF Launch, PollTypes, Active

\* Popping the head e of list q into the hand or straight into execution.
LEMMA TakeKeepsPlacement ==
  ASSUME TypeOK, HandFinite, Placement, NEW w \in Instances, NEW q \in Queues, Take(w, q),
         UNCHANGED <<status, requests>>
  PROVE  /\ Placement'
         /\ \A f \in Execs : InQueue(f) <=> InQueue(f)' \/ f = Head(queue[q])
         /\ Head(queue[q]) \in Held(w)'
         /\ \A v \in Instances : Held(v) \subseteq Held(v)'
<1> DEFINE e == Head(queue[q])
<1>1. /\ queue[q] \in Seq(Execs) /\ queue[q] # <<>>
      /\ queue' = [queue EXCEPT ![q] = Tail(@)]
      /\ status' = status /\ unpushed' = unpushed
  BY DEF Take, TypeOK, requests
<1>2. /\ e \in Execs /\ e = queue[q][1] /\ 1 \in 1..Len(queue[q])
      /\ queue'[q] = Tail(queue[q])
      /\ \A r \in Queues : r # q => queue'[r] = queue[r]
  BY <1>1, TailFacts DEF TypeOK
<1>3. \A v \in Instances : e \notin Held(v)
  BY <1>2 DEF Placement, OnePlace
<1>4. /\ \A v \in Instances : Held(v)' = IF v = w THEN Held(v) \cup {e} ELSE Held(v)
      /\ \A v \in Instances :
            /\ unpushed'[v] \cap hand'[v] = {}
            /\ (unpushed'[v] \cup hand'[v]) \cap Active(v)' = {}
  <2>1. hand[w] \cup {e} \in SUBSET Execs /\ PollTypes
    BY <1>2 DEF TypeOK, PollTypes
  <2>2. CASE Launch(w, hand[w] \cup {e})
    <3>1. \A v \in Instances :
            /\ Active(v)' = IF v = w THEN Active(v) \cup (hand[v] \cup {e}) ELSE Active(v)
            /\ hand'[v] = IF v = w THEN {} ELSE hand[v]
      BY <2>1, <2>2, LaunchActive
    <3> HIDE DEF e
    <3>2. \A v \in Instances : Held(v)' = IF v = w THEN Held(v) \cup {e} ELSE Held(v)
      BY <1>1, <3>1 DEF Held
    <3>3. \A v \in Instances :
            /\ unpushed'[v] \cap hand'[v] = {}
            /\ (unpushed'[v] \cup hand'[v]) \cap Active(v)' = {}
      BY <1>1, <1>3, <3>1 DEF Held, Placement, OnePlace
    <3> QED BY <3>2, <3>3
  <2>3. CASE hand' = [hand EXCEPT ![w] = hand[w] \cup {e}] /\ phase' = phase
    <3>1. \A v \in Instances :
            /\ Active(v)' = Active(v)
            /\ hand'[v] = IF v = w THEN hand[v] \cup {e} ELSE hand[v]
      BY <2>3 DEF Active, TypeOK
    <3> HIDE DEF e
    <3>2. \A v \in Instances : Held(v)' = IF v = w THEN Held(v) \cup {e} ELSE Held(v)
      BY <1>1, <3>1 DEF Held
    <3>3. \A v \in Instances :
            /\ unpushed'[v] \cap hand'[v] = {}
            /\ (unpushed'[v] \cup hand'[v]) \cap Active(v)' = {}
      <4>1. \A v \in Instances : /\ e \notin unpushed[v] /\ e \notin Active(v)
                                  /\ unpushed[v] \cap hand[v] = {}
                                  /\ (unpushed[v] \cup hand[v]) \cap Active(v) = {}
        BY <1>3 DEF Held, Placement, OnePlace
      <4> QED BY <1>1, <3>1, <4>1
    <3> QED BY <3>2, <3>3
  <2> QED BY <2>2, <2>3 DEF Take
<1> HIDE DEF e
<1>5. \A r \in Queues : \A i \in 1..Len(queue'[r]) :
         \E j \in 1..Len(queue[r]) : /\ queue'[r][i] = queue[r][j]
                                     /\ j = IF r = q THEN i + 1 ELSE i
  <2>1. ASSUME NEW i \in 1..Len(queue'[q])
        PROVE  i + 1 \in 1..Len(queue[q]) /\ queue'[q][i] = queue[q][i + 1]
    BY <1>1, <1>2, TailFacts
  <2> QED BY <1>2, <2>1
<1>6. \A r \in Queues : \A j \in 1..Len(queue[r]) :
         \/ r = q /\ j = 1
         \/ \E i \in 1..Len(queue'[r]) : queue'[r][i] = queue[r][j]
  <2>1. ASSUME NEW j \in 1..Len(queue[q]), j # 1
        PROVE  j - 1 \in 1..Len(queue'[q]) /\ queue'[q][j - 1] = queue[q][j]
    BY <1>1, <1>2, <2>1, TailFacts
  <2> QED BY <1>2, <2>1
<1>7. \A f \in Execs : InQueue(f) <=> InQueue(f)' \/ f = e
  <2>1. InQueue(e)
    BY <1>2 DEF InQueue
  <2>2. ASSUME NEW f \in Execs, InQueue(f)' PROVE InQueue(f)
    <3>1. PICK r \in Queues : \E i \in 1..Len(queue'[r]) : queue'[r][i] = f
      BY <2>2 DEF InQueue
    <3>2. \E j \in 1..Len(queue[r]) : queue[r][j] = f
      BY <1>5, <3>1
    <3> QED BY <3>2 DEF InQueue
  <2>3. ASSUME NEW f \in Execs, InQueue(f), f # e PROVE InQueue(f)'
    <3>1. PICK r \in Queues : \E j \in 1..Len(queue[r]) : queue[r][j] = f
      BY <2>3 DEF InQueue
    <3>2. \E i \in 1..Len(queue'[r]) : queue'[r][i] = f
      BY <1>2, <1>6, <2>3, <3>1
    <3> QED BY <3>2 DEF InQueue
  <2> QED BY <2>1, <2>2, <2>3
<1>8. ASSUME NEW r \in Queues, NEW i \in 1..Len(queue'[r]) PROVE queue'[r][i] # e
  <2>1. PICK j \in 1..Len(queue[r]) : /\ queue'[r][i] = queue[r][j]
                                      /\ j = IF r = q THEN i + 1 ELSE i
    BY <1>5
  <2>2. queue[r][j] = queue[q][1] => r = q /\ j = 1
    BY <1>2, <2>1 DEF Placement, OnePlace
  <2> QED BY <1>2, <2>1, <2>2
<1>9. OnePlace'
  <2>1. ASSUME NEW r \in Queues, NEW t \in Queues, NEW i \in 1..Len(queue'[r]),
               NEW j \in 1..Len(queue'[t]), queue'[r][i] = queue'[t][j]
        PROVE  r = t /\ i = j
    <3>1. PICK k \in 1..Len(queue[r]) : /\ queue'[r][i] = queue[r][k]
                                        /\ k = IF r = q THEN i + 1 ELSE i
      BY <1>5
    <3>2. PICK l \in 1..Len(queue[t]) : /\ queue'[t][j] = queue[t][l]
                                        /\ l = IF t = q THEN j + 1 ELSE j
      BY <1>5
    <3>3. queue[r][k] = queue[t][l] => r = t /\ k = l
      BY DEF Placement, OnePlace
    <3>4. r = t /\ k = l
      BY <2>1, <3>1, <3>2, <3>3
    <3>5. i \in Int /\ j \in Int
      OBVIOUS
    <3> QED BY <3>1, <3>2, <3>4, <3>5
  <2>2. \A r \in Queues : \A i \in 1..Len(queue'[r]) : \A v \in Instances :
           queue'[r][i] \notin Held(v)'
    <3>1. ASSUME NEW r \in Queues, NEW i \in 1..Len(queue'[r]), NEW v \in Instances
          PROVE  queue'[r][i] \notin Held(v)'
      <4>1. queue'[r][i] # e
        BY <1>8
      <4>2. \E j \in 1..Len(queue[r]) : queue'[r][i] = queue[r][j]
        BY <1>5
      <4>3. queue'[r][i] \notin Held(v)
        BY <4>2 DEF Placement, OnePlace
      <4> QED BY <1>4, <4>1, <4>3
    <3> QED BY <3>1
  <2>3. \A v, u \in Instances : v # u => Held(v)' \cap Held(u)' = {}
    BY <1>3, <1>4 DEF Placement, OnePlace
  <2> QED BY <1>4, <2>1, <2>2, <2>3 DEF OnePlace
<1>10. NoRowNowhere'
  <2>1. status[e] # "NONE"
    BY <1>2 DEF Placement, NoRowNowhere, InQueue
  <2> QED BY <1>1, <1>4, <1>7, <2>1 DEF Placement, NoRowNowhere
<1>11. e \in Held(w)' /\ \A v \in Instances : Held(v) \subseteq Held(v)'
  BY <1>4
<1> QED BY <1>7, <1>9, <1>10, <1>11 DEF Placement, e

LEMMA PollKeepsPlacement ==
  ASSUME TypeOK, HandFinite, Placement, NEW w \in Instances, Poll(w)
  PROVE  Placement'
<1> PollTypes /\ queue \in [Queues -> Seq(Execs)]
  BY DEF PollTypes, TypeOK
<1>1. CASE PollStart(w)
  <2>1. Quiet
    BY <1>1 DEF PollStart, Quiet, Active, store, requests, processing
  <2> QED BY <2>1, QuietKeepsPlacement
<1>2. CASE PollReturns(w)
  <2>1. Quiet
    BY <1>2 DEF PollReturns, Quiet, Active, store, requests, processing
  <2> QED BY <2>1, QuietKeepsPlacement
<1>3. CASE PopPriority(w)
  <2>1. CASE Take(w, "priority")
    <3>1. UNCHANGED <<status, requests>> /\ "priority" \in Queues
      BY <1>3 DEF PopPriority, Queues
    <3> QED BY <2>1, <3>1, TakeKeepsPlacement
  <2>2. CASE ~Take(w, "priority")
    <3>1. Quiet
      BY <1>3, <2>2 DEF PopPriority, Quiet, Active, requests
    <3> QED BY <3>1, QuietKeepsPlacement
  <2> QED BY <2>1, <2>2
<1>4. CASE PopRegular(w)
  <2>1. CASE Take(w, "regular")
    <3>1. UNCHANGED <<status, requests>> /\ "regular" \in Queues
      BY <1>4 DEF PopRegular, Queues
    <3> QED BY <2>1, <3>1, TakeKeepsPlacement
  <2>2. CASE ~Take(w, "regular")
    <3>1. /\ Launch(w, hand[w]) /\ queue' = queue /\ status' = status
          /\ unpushed' = unpushed /\ hand[w] \in SUBSET Execs
      BY <1>4, <2>2 DEF PopRegular, requests, PollTypes
    <3>2. \A v \in Instances :
            /\ Active(v)' = IF v = w THEN Active(v) \cup hand[w] ELSE Active(v)
            /\ hand'[v] = IF v = w THEN {} ELSE hand[v]
      BY <3>1, LaunchActive
    <3>3. \A v \in Instances : Held(v)' = Held(v)
      BY <3>1, <3>2 DEF Held
    <3>4. \A v \in Instances : /\ unpushed[v] \cap hand[v] = {}
                                /\ (unpushed[v] \cup hand[v]) \cap Active(v) = {}
      BY DEF Placement, OnePlace
    <3>5. \A v \in Instances : /\ unpushed'[v] \cap hand'[v] = {}
                                /\ (unpushed'[v] \cup hand'[v]) \cap Active(v)' = {}
      BY <3>1, <3>2, <3>4
    <3> QED BY <3>1, <3>3, <3>5 DEF Placement, OnePlace, NoRowNowhere, InQueue
  <2> QED BY <2>1, <2>2
<1>5. CASE PollFails(w)
  <2>1. Quiet
    BY <1>5 DEF PollFails, Quiet, Active, PollTypes, store, requests, processing
  <2> QED BY <2>1, QuietKeepsPlacement
<1> QED BY <1>1, <1>2, <1>3, <1>4, <1>5 DEF Poll

LEMMA PlacementInit == Init => Placement
BY DEF Init, Placement, OnePlace, NoRowNowhere, InQueue, Held, Active, Queues

LEMMA PlacementNext == TypeOK /\ HandFinite /\ Placement /\ [Next]_vars => Placement'
<1> SUFFICES ASSUME TypeOK, HandFinite, Placement, [Next]_vars PROVE Placement'
  OBVIOUS
<1>1. ASSUME NEW w \in Instances, Poll(w) PROVE Placement'
  BY <1>1, PollKeepsPlacement
<1>2. ASSUME NEW w \in Instances, Lifecycle(w) PROVE Placement'
  BY <1>2, LifecycleQuiet, QuietKeepsPlacement
<1>3. ASSUME NEW w \in Instances, NEW e \in Execs, Request(w, e) PROVE Placement'
  BY <1>3, RequestKeepsPlacement
<1>4. ASSUME NEW w \in Instances, NEW e \in Execs, Process(w, e) PROVE Placement'
  BY <1>4, ProcessQuiet, QuietKeepsPlacement
<1>5. CASE UNCHANGED vars
  <2>1. Quiet
    BY <1>5 DEF vars, store, requests, polling, processing, Quiet, Active
  <2> QED BY <2>1, QuietKeepsPlacement
<1> QED BY <1>1, <1>2, <1>3, <1>4, <1>5 DEF Next

-----------------------------------------------------------------------------
(* Slots: what poll() reserves before its awaits still fits after them.    *)

Slots(w) ==
    /\ IsFiniteSet(hand[w]) /\ IsFiniteSet(Active(w))
    /\ processingCount[w] = Cardinality(Active(w))
    /\ processingCount[w] <= ConcurrentWorkers
    /\ mode[w] = "exited" => pollAt[w] = "off"
    /\ pollAt[w] \in {"timer", "off"} => hand[w] = {}
    /\ pollAt[w] \in {"priority", "regular"} =>
          /\ fetches[w] >= 1
          /\ processingCount[w] + Cardinality(hand[w]) + fetches[w] <= ConcurrentWorkers

SameSlots(w) ==
    /\ Active(w)' = Active(w)
    /\ hand'[w] = hand[w] /\ processingCount'[w] = processingCount[w]
    /\ pollAt'[w] = pollAt[w] /\ fetches'[w] = fetches[w]
    /\ mode'[w] = "exited" => mode[w] = "exited"

SlotInv == \A w \in Instances : Slots(w)

LEMMA SameSlotsKeep ==
  ASSUME NEW w \in Instances, Slots(w), SameSlots(w) PROVE Slots(w)'
BY DEF Slots, SameSlots

\* One more job started, one less active.
LEMMA LeaveSlots ==
  ASSUME TypeOK, NEW w \in Instances, NEW e \in Execs, Slots(w), phase[w][e] # "idle",
         Leave(w, e), UNCHANGED <<mode, polling>>
  PROVE  Slots(w)'
<1>1. /\ Active(w)' = Active(w) \ {e}
      /\ processingCount'[w] = processingCount[w] - 1
      /\ hand' = hand /\ pollAt' = pollAt /\ fetches' = fetches /\ mode' = mode
  BY GotoActive DEF Leave, Goto, TypeOK, Phase, polling
<1>2. e \in Active(w)
  BY DEF Active
<1>3. /\ IsFiniteSet(Active(w) \ {e})
      /\ Cardinality(Active(w) \ {e}) = Cardinality(Active(w)) - 1
  BY <1>2, FS_RemoveElement DEF Slots
<1>4. Cardinality(Active(w)) \in Nat /\ Cardinality(hand[w]) \in Nat /\ fetches[w] \in Nat
  BY FS_CardinalityType DEF Slots, TypeOK
<1> QED BY <1>1, <1>3, <1>4, ConcurrencyAssumption DEF Slots

LEMMA LaunchSlots ==
  ASSUME TypeOK, NEW w \in Instances, Slots(w), NEW jobs \in SUBSET Execs, IsFiniteSet(jobs),
         jobs \cap Active(w) = {}, Launch(w, jobs),
         processingCount[w] + Cardinality(jobs) <= ConcurrentWorkers,
         pollAt[w] \in {"priority", "regular"}, UNCHANGED mode
  PROVE  Slots(w)'
<1>1. /\ Active(w)' = Active(w) \cup jobs
      /\ hand'[w] = {} /\ pollAt'[w] = "timer"
  BY LaunchActive DEF Launch, PollTypes, TypeOK, HandFinite, Active
<1>2. processingCount'[w] = processingCount[w] + Cardinality(jobs)
  BY DEF Launch, TypeOK
<1>3. /\ IsFiniteSet(Active(w) \cup jobs)
      /\ Cardinality(Active(w) \cup jobs) =
            Cardinality(Active(w)) + Cardinality(jobs) - Cardinality(Active(w) \cap jobs)
  BY FS_Union DEF Slots
<1>4. Cardinality(Active(w) \cap jobs) = 0
  <2>1. Active(w) \cap jobs = {}
    OBVIOUS
  <2> QED BY <2>1, FS_EmptySet
<1>5. Cardinality(Active(w)) \in Nat /\ Cardinality(jobs) \in Nat
  BY FS_CardinalityType DEF Slots
<1> QED BY <1>1, <1>2, <1>3, <1>4, <1>5, FS_EmptySet DEF Slots

LEMMA TakeSlots ==
  ASSUME TypeOK, Placement, NEW w \in Instances, Slots(w), NEW q \in Queues, Take(w, q),
         pollAt[w] \in {"priority", "regular"}, UNCHANGED mode
  PROVE  Slots(w)'
<1> DEFINE jobs == hand[w] \cup {Head(queue[q])}
<1>1. /\ queue[q] \in Seq(Execs) /\ queue[q] # <<>>
      /\ Head(queue[q]) \in Execs /\ Head(queue[q]) = queue[q][1] /\ 1 \in 1..Len(queue[q])
  BY TailFacts DEF Take, TypeOK
<1>2. /\ jobs \in SUBSET Execs /\ IsFiniteSet(jobs)
      /\ Cardinality(jobs) \in Nat /\ Cardinality(jobs) <= Cardinality(hand[w]) + 1
  <2>1. IsFiniteSet(hand[w])
    BY DEF Slots
  <2>2. /\ IsFiniteSet(jobs)
        /\ Cardinality(jobs) = IF Head(queue[q]) \in hand[w] THEN Cardinality(hand[w])
                                                             ELSE Cardinality(hand[w]) + 1
    BY <2>1, FS_AddElement
  <2>3. Cardinality(hand[w]) \in Nat
    BY <2>1, FS_CardinalityType
  <2>4. jobs \in SUBSET Execs
    BY <1>1 DEF TypeOK
  <2> QED BY <2>2, <2>3, <2>4
<1>3. jobs \cap Active(w) = {}
  BY <1>1 DEF Placement, OnePlace, Held
<1>4. /\ fetches[w] \in Nat /\ processingCount[w] \in Int /\ Cardinality(hand[w]) \in Nat
      /\ fetches[w] >= 1
      /\ processingCount[w] + Cardinality(hand[w]) + fetches[w] <= ConcurrentWorkers
  BY FS_CardinalityType DEF Slots, TypeOK
<1>5. CASE fetches[w] = 1 /\ Launch(w, jobs)
  <2>1. processingCount[w] + Cardinality(jobs) <= ConcurrentWorkers
    BY <1>2, <1>4, <1>5, ConcurrencyAssumption
  <2> HIDE DEF jobs
  <2> QED BY <1>2, <1>3, <1>5, <2>1, LaunchSlots
<1>6. CASE /\ fetches[w] > 1
           /\ hand' = [hand EXCEPT ![w] = jobs]
           /\ fetches' = [fetches EXCEPT ![w] = @ - 1]
           /\ pollAt' = [pollAt EXCEPT ![w] = "priority"]
           /\ UNCHANGED <<processingCount, phase>>
  <2> HIDE DEF jobs
  <2>1. /\ hand'[w] = jobs /\ fetches'[w] = fetches[w] - 1 /\ pollAt'[w] = "priority"
        /\ processingCount' = processingCount /\ Active(w)' = Active(w)
    BY <1>6 DEF TypeOK, Active
  <2> QED BY <1>2, <1>4, <1>6, <2>1, ConcurrencyAssumption DEF Slots
<1> QED BY <1>5, <1>6 DEF Take

LEMMA PollSlots ==
  ASSUME TypeOK, Placement, NEW w \in Instances, Slots(w), Poll(w)
  PROVE  Slots(w)'
<1>1. CASE PollStart(w)
  <2>1. /\ hand' = hand /\ processingCount' = processingCount /\ phase' = phase
        /\ pollAt'[w] = "priority" /\ hand[w] = {}
        /\ processingCount[w] < ConcurrentWorkers
        /\ mode' = mode /\ mode[w] # "exited"
        /\ fetches'[w] = Lesser(ConcurrentWorkers - processingCount[w], BatchSize)
    BY <1>1 DEF PollStart, processing, TypeOK, Slots
  <2>2. Cardinality({}) = 0 /\ processingCount[w] \in Int
    BY FS_EmptySet DEF TypeOK
  <2> QED BY <2>1, <2>2, ConcurrencyAssumption, BatchAssumption DEF Slots, Active, Lesser
<1>2. CASE PollReturns(w)
  BY <1>2 DEF PollReturns, Slots, Active, processing, TypeOK
<1>3. CASE PopPriority(w)
  <2>1. CASE Take(w, "priority")
    BY <1>3, <2>1, TakeSlots DEF PopPriority, Queues
  <2>2. CASE /\ pollAt' = [pollAt EXCEPT ![w] = "regular"]
             /\ UNCHANGED <<queue, fetches, hand, processingCount, phase>>
    BY <1>3, <2>2 DEF PopPriority, Slots, Active, TypeOK
  <2> QED BY <1>3, <2>1, <2>2 DEF PopPriority
<1>4. CASE PopRegular(w)
  <2>1. CASE Take(w, "regular")
    BY <1>4, <2>1, TakeSlots DEF PopRegular, Queues
  <2>2. CASE Launch(w, hand[w])
    <3>1. hand[w] \in SUBSET Execs /\ hand[w] \cap Active(w) = {}
      BY DEF TypeOK, Placement, OnePlace
    <3>2. /\ IsFiniteSet(hand[w]) /\ Cardinality(hand[w]) \in Nat
          /\ processingCount[w] \in Int /\ fetches[w] \in Nat
          /\ processingCount[w] + Cardinality(hand[w]) + fetches[w] <= ConcurrentWorkers
      BY <1>4, FS_CardinalityType DEF PopRegular, Slots, TypeOK
    <3>3. processingCount[w] + Cardinality(hand[w]) <= ConcurrentWorkers
      BY <3>2, ConcurrencyAssumption
    <3>4. pollAt[w] = "regular" /\ UNCHANGED mode
      BY <1>4 DEF PopRegular
    <3> QED BY <2>2, <3>1, <3>2, <3>3, <3>4, LaunchSlots
  <2> QED BY <1>4, <2>1, <2>2 DEF PopRegular
<1>5. CASE PollFails(w)
  <2>1. /\ hand'[w] = {} /\ pollAt'[w] = "timer"
        /\ processingCount' = processingCount /\ phase' = phase
        /\ mode' = mode /\ pollAt[w] # "off"
    BY <1>5 DEF PollFails, processing, TypeOK
  <2> QED BY <2>1, FS_EmptySet DEF Slots, Active
<1> QED BY <1>1, <1>2, <1>3, <1>4, <1>5 DEF Poll

LEMMA LifecycleSlots ==
  ASSUME TypeOK, NEW w \in Instances, Slots(w), Lifecycle(w)
  PROVE  Slots(w)'
<1>1. CASE CloseRedis(w) \/ BeginShutdown(w)
  <2>1. /\ hand' = hand /\ processingCount' = processingCount /\ phase' = phase
        /\ fetches' = fetches /\ mode'[w] \in {"closing", "draining"}
        /\ \/ pollAt'[w] = pollAt[w]
           \/ pollAt'[w] = IF pollAt[w] = "timer" THEN "off" ELSE pollAt[w]
    BY <1>1 DEF CloseRedis, BeginShutdown, polling, processing, TypeOK
  <2> QED BY <2>1 DEF Slots, Active
<1>2. CASE EndShutdown(w)
  BY <1>2, SameSlotsKeep DEF EndShutdown, SameSlots, Active, polling
<1>3. CASE Exit(w) \/ Crash(w)
  <2>1. /\ hand'[w] = {} /\ pollAt'[w] = "off" /\ processingCount'[w] = 0
        /\ phase'[w] = [e \in Execs |-> "idle"]
    BY <1>3 DEF Exit, Crash, Forget, TypeOK
  <2>2. Active(w)' = {}
    BY <2>1 DEF Active
  <2> QED BY <2>1, <2>2, FS_EmptySet, ConcurrencyAssumption DEF Slots
<1>4. CASE Restart(w)
  BY <1>4 DEF Restart, Slots, Active, processing, TypeOK
<1> QED BY <1>1, <1>2, <1>3, <1>4 DEF Lifecycle

LEMMA ProcessSlots ==
  ASSUME TypeOK, NEW w \in Instances, NEW e \in Execs, Slots(w), Process(w, e)
  PROVE  Slots(w)'
<1>1. UNCHANGED <<mode, polling>>
  BY DEF Process, Advance, OnCancelMessage, CheckStatus, MarkRunning, NodesDone, NodesThrow,
         MarkCompleted, MarkFailed, Finish, TryFails, CatchFails
<1>2. CASE Leave(w, e) /\ phase[w][e] # "idle"
  BY <1>1, <1>2, LeaveSlots
<1>3. CASE OnCancelMessage(w, e)
  BY <1>3, SameSlotsKeep DEF OnCancelMessage, SameSlots, Active, polling
<1>4. CASE ~Leave(w, e) /\ ~OnCancelMessage(w, e)
  <2>1. processingCount' = processingCount /\ phase[w][e] # "idle"
    BY <1>4 DEF Process, Advance, CheckStatus, MarkRunning, NodesDone, NodesThrow, MarkCompleted,
           MarkFailed, Finish, TryFails, CatchFails, Catch
  <2>2. PICK p \in Phase \ {"idle"} : phase' = [phase EXCEPT ![w][e] = p]
    BY <1>4 DEF Process, Advance, CheckStatus, MarkRunning, NodesDone, NodesThrow, MarkCompleted,
           MarkFailed, Finish, TryFails, CatchFails, Catch, Goto, Phase
  <2>3. Active(w)' = Active(w)
    BY <2>1, <2>2, GotoActive DEF TypeOK
  <2> QED BY <1>1, <2>1, <2>3, SameSlotsKeep DEF SameSlots, polling
<1>5. Leave(w, e) => OnCancelMessage(w, e) \/ phase[w][e] # "idle"
  BY DEF Process, Advance, CheckStatus, MarkRunning, NodesDone, NodesThrow, MarkCompleted,
         MarkFailed, Finish, TryFails, CatchFails
<1> QED BY <1>2, <1>3, <1>4, <1>5

LEMMA RequestSlots ==
  ASSUME TypeOK, NEW w \in Instances, NEW e \in Execs, NEW v \in Instances, Slots(v),
         Request(w, e)
  PROVE  Slots(v)'
<1>1. UNCHANGED <<mode, polling, processingCount, phase>>
  BY DEF Request, CreateExecution, PushJob, PushFails, CancelCheck, CancelWrite,
         CancelExecution, processing
<1> QED BY <1>1, SameSlotsKeep DEF SameSlots, Active, polling

\* A step of one instance leaves the slots of the others alone.
LEMMA OthersKeepSlots ==
  ASSUME TypeOK, NEW w \in Instances, NEW v \in Instances, v # w, Slots(v),
         Poll(w) \/ Lifecycle(w) \/ \E e \in Execs : Process(w, e)
  PROVE  Slots(v)'
<1>1. /\ hand'[v] = hand[v] /\ processingCount'[v] = processingCount[v]
      /\ pollAt'[v] = pollAt[v] /\ fetches'[v] = fetches[v] /\ mode'[v] = mode[v]
      /\ phase'[v] = phase[v]
  <2> USE DEF TypeOK, polling, processing
  <2>1. CASE Poll(w)
    BY <2>1 DEF Poll, PollStart, PollReturns, PopPriority, PopRegular, PollFails, Take, Launch
  <2>2. CASE Lifecycle(w)
    BY <2>2 DEF Lifecycle, CloseRedis, BeginShutdown, EndShutdown, Exit, Crash, Restart, Forget
  <2>3. ASSUME NEW e \in Execs, Process(w, e)
        PROVE  /\ hand'[v] = hand[v] /\ processingCount'[v] = processingCount[v]
               /\ pollAt'[v] = pollAt[v] /\ fetches'[v] = fetches[v] /\ mode'[v] = mode[v]
               /\ phase'[v] = phase[v]
    BY <2>3 DEF Process, Advance, OnCancelMessage, CheckStatus, MarkRunning, NodesDone, NodesThrow,
           MarkCompleted, MarkFailed, Finish, TryFails, CatchFails, Goto, Leave, Catch
  <2> QED BY <2>1, <2>2, <2>3
<1> QED BY <1>1, SameSlotsKeep DEF SameSlots, Active

LEMMA SlotInit == Init => SlotInv
<1> SUFFICES ASSUME Init, NEW w \in Instances PROVE Slots(w)
  BY DEF SlotInv
<1>1. Active(w) = {}
  BY DEF Init, Active
<1> QED BY <1>1, FS_EmptySet, ConcurrencyAssumption DEF Init, Slots

LEMMA SlotNext == TypeOK /\ Placement /\ SlotInv /\ [Next]_vars => SlotInv'
<1> SUFFICES ASSUME TypeOK, Placement, SlotInv, [Next]_vars, NEW v \in Instances
             PROVE  Slots(v)'
  BY DEF SlotInv
<1>0. Slots(v)
  BY DEF SlotInv
<1>1. ASSUME NEW w \in Instances, Poll(w) \/ Lifecycle(w) PROVE Slots(v)'
  BY <1>0, <1>1, PollSlots, LifecycleSlots, OthersKeepSlots
<1>2. ASSUME NEW w \in Instances, NEW e \in Execs, Request(w, e) PROVE Slots(v)'
  BY <1>0, <1>2, RequestSlots
<1>3. ASSUME NEW w \in Instances, NEW e \in Execs, Process(w, e) PROVE Slots(v)'
  BY <1>0, <1>3, ProcessSlots, OthersKeepSlots
<1>4. CASE UNCHANGED vars
  BY <1>0, <1>4, SameSlotsKeep DEF SameSlots, Active, vars, polling, processing
<1> QED BY <1>1, <1>2, <1>3, <1>4 DEF Next

-----------------------------------------------------------------------------
(* Status: what the row says agrees with where the execution is.           *)

Waiting(e) ==
    \/ InQueue(e)
    \/ \E w \in Instances : e \in unpushed[w] \cup hand[w] \/ phase[w][e] \in {"check", "start"}

StatusInv ==
    \A e \in Execs :
        /\ Waiting(e) => status[e] \in {"PENDING", "CANCELLED"}
        /\ \A w \in Instances :
              /\ phase[w][e] \in {"run", "complete"} => status[e] \in {"RUNNING", "CANCELLED"}
              /\ phase[w][e] \in {"cleanup", "report"} => status[e] \in Terminal

\* A step that takes no execution further than it was: back to waiting, to an
\* error path or to nowhere.
NoProgress(e) ==
    /\ Waiting(e)' => Waiting(e)
    /\ \A v \in Instances :
          \/ phase'[v][e] = phase[v][e]
          \/ phase'[v][e] \in {"idle", "check", "start", "failing", "aborting"}

StatusOf(e) ==
    /\ Waiting(e) => status[e] \in {"PENDING", "CANCELLED"}
    /\ \A w \in Instances :
          /\ phase[w][e] \in {"run", "complete"} => status[e] \in {"RUNNING", "CANCELLED"}
          /\ phase[w][e] \in {"cleanup", "report"} => status[e] \in Terminal

LEMMA NoProgressKeeps ==
  ASSUME NEW e \in Execs, StatusOf(e), NoProgress(e), status'[e] \in {status[e], "CANCELLED"}
  PROVE  StatusOf(e)'
BY DEF StatusOf, NoProgress, Terminal

LEMMA StatusOfAll == StatusInv <=> \A e \in Execs : StatusOf(e)
BY DEF StatusInv, StatusOf

LEMMA LaunchPhase ==
  ASSUME TypeOK, NEW w \in Instances, NEW jobs \in SUBSET Execs, Launch(w, jobs),
         NEW v \in Instances, NEW e \in Execs
  PROVE  phase'[v][e] = IF v = w /\ e \in jobs THEN "check" ELSE phase[v][e]
BY DEF Launch, TypeOK

LEMMA TakeNoProgress ==
  ASSUME TypeOK, HandFinite, Placement, NEW w \in Instances, NEW q \in Queues, Take(w, q),
         UNCHANGED <<status, requests>>, NEW e \in Execs
  PROVE  NoProgress(e)
<1> DEFINE h == Head(queue[q])
           jobs == hand[w] \cup {h}
<1>1. /\ \A f \in Execs : InQueue(f) <=> InQueue(f)' \/ f = h
      /\ unpushed' = unpushed
  BY TakeKeepsPlacement DEF requests
<1>2. h \in Execs /\ jobs \in SUBSET Execs
  <2>1. queue[q] \in Seq(Execs) /\ queue[q] # <<>>
    BY DEF Take, TypeOK
  <2> QED BY <2>1 DEF TypeOK
<1>3. InQueue(h)
  BY <1>1, <1>2
<1>4. \A v \in Instances :
         /\ hand'[v] \subseteq hand[v] \cup {h}
         /\ \/ phase'[v][e] = phase[v][e]
            \/ phase'[v][e] = "check" /\ (e \in hand[v] \/ e = h)
  <2>1. CASE Launch(w, jobs)
    <3> HIDE DEF h
    <3>1. \A v \in Instances : hand'[v] = {} \/ hand'[v] = hand[v]
      BY <2>1 DEF Launch, TypeOK
    <3>2. \A v \in Instances :
             phase'[v][e] = IF v = w /\ e \in jobs THEN "check" ELSE phase[v][e]
      BY <1>2, <2>1, LaunchPhase
    <3> QED BY <3>1, <3>2
  <2>2. CASE hand' = [hand EXCEPT ![w] = jobs] /\ phase' = phase
    <3> HIDE DEF h
    <3> QED BY <2>2 DEF TypeOK
  <2> QED BY <2>1, <2>2 DEF Take
<1> HIDE DEF h
<1>5. Waiting(e)' => Waiting(e)
  BY <1>1, <1>3, <1>4 DEF Waiting
<1> QED BY <1>4, <1>5 DEF NoProgress

LEMMA PollStatus ==
  ASSUME TypeOK, HandFinite, Placement, NEW w \in Instances, Poll(w), NEW e \in Execs
  PROVE  NoProgress(e) /\ status' = status
<1>1. status' = status /\ unpushed' = unpushed /\ UNCHANGED <<status, requests>>
  BY DEF Poll, PollStart, PollReturns, PopPriority, PopRegular, PollFails, store, requests
<1>2. CASE queue' = queue /\ phase' = phase /\ \A v \in Instances : hand'[v] \subseteq hand[v]
  BY <1>1, <1>2 DEF Waiting, InQueue, NoProgress
<1>3. ASSUME NEW q \in Queues, Take(w, q) PROVE NoProgress(e)
  BY <1>1, <1>3, TakeNoProgress
<1>4. CASE Launch(w, hand[w]) /\ queue' = queue
  <2>1. hand[w] \in SUBSET Execs /\ \A v \in Instances : hand'[v] \subseteq hand[v]
    BY <1>4 DEF Launch, TypeOK
  <2>2. \A v \in Instances :
           phase'[v][e] = IF v = w /\ e \in hand[w] THEN "check" ELSE phase[v][e]
    BY <1>4, <2>1, LaunchPhase
  <2> QED BY <1>1, <1>4, <2>1, <2>2 DEF Waiting, InQueue, NoProgress
<1>5. CASE PollStart(w) \/ PollReturns(w)
  BY <1>2, <1>5 DEF PollStart, PollReturns, store, processing
<1>6. CASE PollFails(w)
  BY <1>2, <1>6 DEF PollFails, store, processing, TypeOK
<1>7. CASE PopPriority(w)
  BY <1>2, <1>3, <1>7 DEF PopPriority, Queues
<1>8. CASE PopRegular(w)
  BY <1>3, <1>4, <1>8 DEF PopRegular, Queues
<1> QED BY <1>1, <1>5, <1>6, <1>7, <1>8 DEF Poll

LEMMA LifecycleStatus ==
  ASSUME TypeOK, NEW w \in Instances, Lifecycle(w), NEW e \in Execs
  PROVE  NoProgress(e) /\ status' = status
<1>1. status' = status /\ queue' = queue
  BY DEF Lifecycle, CloseRedis, BeginShutdown, EndShutdown, Exit, Crash, Restart, Forget, store
<1>2. \A v \in Instances : /\ unpushed'[v] \subseteq unpushed[v] /\ hand'[v] \subseteq hand[v]
                           /\ phase'[v][e] = phase[v][e] \/ phase'[v][e] = "idle"
  <2>1. CASE CloseRedis(w) \/ BeginShutdown(w) \/ EndShutdown(w) \/ Restart(w)
    BY <2>1 DEF CloseRedis, BeginShutdown, EndShutdown, Restart, requests, polling, processing
  <2>2. CASE Forget(w)
    BY <2>2 DEF Forget, TypeOK
  <2> QED BY <2>1, <2>2 DEF Lifecycle, Exit, Crash
<1> QED BY <1>1, <1>2 DEF NoProgress, Waiting, InQueue

LEMMA RequestStatus ==
  ASSUME TypeOK, Placement, StatusInv, NEW w \in Instances, NEW e \in Execs, Request(w, e),
         NEW f \in Execs
  PROVE  StatusOf(f)'
<1>0. StatusOf(f)
  BY StatusOfAll
<1>1. CASE CreateExecution(w, e)
  <2>1. /\ queue' = queue /\ hand' = hand /\ phase' = phase
        /\ unpushed' = [unpushed EXCEPT ![w] = @ \cup {e}]
        /\ status' = [status EXCEPT ![e] = "PENDING"] /\ status[e] = "NONE"
    BY <1>1 DEF CreateExecution, polling, processing
  <2>2. CASE f = e
    <3>1. \A v \in Instances : phase[v][e] = "idle"
      BY <2>1 DEF Placement, NoRowNowhere, Held, Active
    <3> QED BY <2>1, <2>2, <3>1 DEF StatusOf, TypeOK
  <2>3. CASE f # e
    BY <1>0, <2>1, <2>3, NoProgressKeeps DEF NoProgress, Waiting, InQueue, TypeOK
  <2> QED BY <2>2, <2>3
<1>2. CASE PushJob(w, e)
  <2>1. /\ hand' = hand /\ phase' = phase /\ status' = status /\ e \in unpushed[w]
        /\ \A v \in Instances : unpushed'[v] \subseteq unpushed[v]
    BY <1>2 DEF PushJob, polling, processing, TypeOK
  <2>2. InQueue(f)' <=> InQueue(f) \/ f = e
    BY <1>2, PushKeepsPlacement
  <2> QED BY <1>0, <2>1, <2>2, NoProgressKeeps DEF NoProgress, Waiting
<1>3. CASE PushFails(w, e) \/ CancelCheck(w, e) \/ CancelExecution(w, e)
  <2>1. /\ status' = status /\ queue' = queue /\ hand' = hand /\ phase' = phase
        /\ \A v \in Instances : unpushed'[v] \subseteq unpushed[v]
    BY <1>3 DEF PushFails, CancelCheck, CancelExecution, store, requests, polling,
                processing, TypeOK
  <2> QED BY <1>0, <2>1, NoProgressKeeps DEF NoProgress, Waiting, InQueue
<1>4. CASE CancelWrite(w, e)
  <2>1. /\ queue' = queue /\ hand' = hand /\ phase' = phase /\ unpushed' = unpushed
        /\ status'[f] \in {status[f], "CANCELLED"}
    BY <1>4 DEF CancelWrite, polling, processing, TypeOK
  <2> QED BY <1>0, <2>1, NoProgressKeeps DEF NoProgress, Waiting, InQueue
<1> QED BY <1>1, <1>2, <1>3, <1>4 DEF Request

\* An execution being processed is nowhere else.
LEMMA OnlyHere ==
  ASSUME TypeOK, Placement, NEW w \in Instances, NEW e \in Execs, phase[w][e] # "idle"
  PROVE  /\ ~InQueue(e)
         /\ \A v \in Instances : e \notin unpushed[v] \cup hand[v]
         /\ \A v \in Instances : v # w => phase[v][e] = "idle"
<1>1. e \in Active(w) /\ e \in Held(w)
  BY DEF Active, Held
<1>2. ~InQueue(e)
  BY <1>1 DEF Placement, OnePlace, InQueue
<1>3. \A v \in Instances : v # w => e \notin Held(v)
  BY <1>1 DEF Placement, OnePlace
<1>4. e \notin unpushed[w] \cup hand[w]
  BY <1>1 DEF Placement, OnePlace
<1> QED BY <1>2, <1>3, <1>4 DEF Held, Active

\* A step of processExecution moves one execution of one instance.
LEMMA ProcessMoves ==
  ASSUME TypeOK, NEW w \in Instances, NEW e \in Execs, Process(w, e), ~OnCancelMessage(w, e)
  PROVE  /\ phase[w][e] # "idle"
         /\ \E p \in Phase : phase' = [phase EXCEPT ![w][e] = p]
         /\ queue' = queue /\ unpushed' = unpushed /\ hand' = hand
         /\ \A f \in Execs \ {e} : status'[f] = status[f]
<1>1. phase[w][e] # "idle"
  BY DEF Process, Advance, CheckStatus, MarkRunning, NodesDone, NodesThrow, MarkCompleted,
         MarkFailed, Finish, TryFails, CatchFails
<1>2. \E p \in Phase : phase' = [phase EXCEPT ![w][e] = p]
  BY DEF Process, Advance, CheckStatus, MarkRunning, NodesDone, NodesThrow, MarkCompleted,
         MarkFailed, Finish, TryFails, CatchFails, Goto, Catch, Leave, Phase
<1>3. queue' = queue /\ unpushed' = unpushed /\ hand' = hand
  BY DEF Process, Advance, CheckStatus, MarkRunning, NodesDone, NodesThrow, MarkCompleted,
         MarkFailed, Finish, TryFails, CatchFails, store, requests, polling
<1>4. status' = status \/ \E s \in Status : status' = [status EXCEPT ![e] = s]
  BY DEF Process, Advance, CheckStatus, MarkRunning, NodesDone, NodesThrow, MarkCompleted,
         MarkFailed, Finish, TryFails, CatchFails, store, Status, Terminal
<1> QED BY <1>1, <1>2, <1>3, <1>4 DEF TypeOK

LEMMA ProcessStatus ==
  ASSUME TypeOK, Placement, StatusInv, NEW w \in Instances, NEW e \in Execs, Process(w, e),
         NEW f \in Execs
  PROVE  StatusOf(f)'
<1>0. StatusOf(f)
  BY StatusOfAll
<1>1. CASE OnCancelMessage(w, e)
  <2>1. /\ status' = status /\ queue' = queue /\ hand' = hand /\ phase' = phase
        /\ unpushed' = unpushed
    BY <1>1 DEF OnCancelMessage, store, requests, polling
  <2> QED BY <1>0, <2>1, NoProgressKeeps DEF NoProgress, Waiting, InQueue
<1> SUFFICES ASSUME ~OnCancelMessage(w, e) PROVE StatusOf(f)'
  BY <1>1
<1>2. /\ phase[w][e] # "idle"
      /\ queue' = queue /\ unpushed' = unpushed /\ hand' = hand
      /\ \A g \in Execs \ {e} : status'[g] = status[g]
  BY ProcessMoves
<1>3. PICK p \in Phase : phase' = [phase EXCEPT ![w][e] = p]
  BY ProcessMoves
<1>4. CASE f # e
  <2>1. \A v \in Instances : phase'[v][f] = phase[v][f]
    BY <1>3, <1>4 DEF TypeOK
  <2> QED BY <1>0, <1>2, <1>4, <2>1, NoProgressKeeps DEF NoProgress, Waiting, InQueue
<1>5. CASE f = e
  <2>1. /\ ~InQueue(e)' /\ \A v \in Instances : e \notin unpushed'[v] \cup hand'[v]
        /\ \A v \in Instances : v # w => phase'[v][e] = "idle"
    BY <1>2, <1>3, OnlyHere DEF InQueue, TypeOK
  <2>2. phase'[w][e] = p
    BY <1>3 DEF TypeOK
  <2>3. Waiting(e)' <=> p \in {"check", "start"}
    BY <2>1, <2>2 DEF Waiting
  <2>4. CASE CheckStatus(w, e)
    <3>1. phase[w][e] = "check" /\ status' = status /\ p \in {"idle", "start"}
      BY <2>2, <2>4 DEF CheckStatus, Leave, Goto, store, TypeOK
    <3>2. Waiting(e)
      BY <3>1 DEF Waiting
    <3> QED BY <1>0, <1>5, <2>1, <2>2, <3>1, <3>2, NoProgressKeeps DEF NoProgress
  <2>5. CASE MarkRunning(w, e)
    <3>1. p \in {"run", "failing", "aborting"} /\ status'[e] = "RUNNING"
      BY <2>2, <2>5 DEF MarkRunning, Catch, Goto, TypeOK
    <3> QED BY <1>5, <2>1, <2>2, <2>3, <3>1 DEF StatusOf
  <2>6. CASE NodesDone(w, e)
    <3>1. phase[w][e] = "run" /\ p = "complete" /\ status' = status
      BY <2>2, <2>6 DEF NodesDone, Goto, TypeOK, store
    <3> QED BY <1>0, <1>5, <2>1, <2>2, <2>3, <3>1 DEF StatusOf
  <2>7. CASE MarkCompleted(w, e)
    <3>1. p = "cleanup" /\ status'[e] = "COMPLETED"
      BY <2>2, <2>7 DEF MarkCompleted, Goto, TypeOK
    <3> QED BY <1>5, <2>1, <2>2, <2>3, <3>1 DEF StatusOf, Terminal
  <2>8. CASE MarkFailed(w, e)
    <3>1. p = "report" /\ status'[e] \in {"CANCELLED", "FAILED"}
      BY <2>2, <2>8 DEF MarkFailed, Goto, TypeOK
    <3> QED BY <1>5, <2>1, <2>2, <2>3, <3>1 DEF StatusOf, Terminal
  <2>9. CASE NodesThrow(w, e) \/ TryFails(w, e) \/ Finish(w, e) \/ CatchFails(w, e)
    <3>1. p \in {"idle", "failing", "aborting"} /\ status' = status
      BY <2>2, <2>9 DEF NodesThrow, TryFails, Finish, CatchFails, Catch, Leave, Goto, TypeOK, store
    <3> QED BY <1>0, <1>5, <2>1, <2>2, <2>3, <3>1 DEF StatusOf
  <2> QED BY <2>4, <2>5, <2>6, <2>7, <2>8, <2>9 DEF Process, Advance
<1> QED BY <1>4, <1>5

LEMMA StatusInit == Init => StatusInv
BY DEF Init, StatusInv, Waiting, InQueue, Queues

LEMMA StatusNext ==
  TypeOK /\ HandFinite /\ Placement /\ StatusInv /\ [Next]_vars => StatusInv'
<1> SUFFICES ASSUME TypeOK, HandFinite, Placement, StatusInv, [Next]_vars, NEW f \in Execs
             PROVE  StatusOf(f)'
  BY DEF StatusInv, StatusOf
<1>0. StatusOf(f)
  BY StatusOfAll
<1>1. ASSUME NEW w \in Instances, Poll(w) PROVE StatusOf(f)'
  BY <1>0, <1>1, PollStatus, NoProgressKeeps
<1>2. ASSUME NEW w \in Instances, Lifecycle(w) PROVE StatusOf(f)'
  BY <1>0, <1>2, LifecycleStatus, NoProgressKeeps
<1>3. ASSUME NEW w \in Instances, NEW e \in Execs, Request(w, e) PROVE StatusOf(f)'
  BY <1>3, RequestStatus
<1>4. ASSUME NEW w \in Instances, NEW e \in Execs, Process(w, e) PROVE StatusOf(f)'
  BY <1>4, ProcessStatus
<1>5. CASE UNCHANGED vars
  <2>1. NoProgress(f) /\ status' = status
    BY <1>5 DEF NoProgress, Waiting, InQueue, vars, store, requests, polling, processing
  <2> QED BY <1>0, <2>1, NoProgressKeeps
<1> QED BY <1>1, <1>2, <1>3, <1>4, <1>5 DEF Next

\* An execution that has ended is not started again: the row leaves COMPLETED
\* and FAILED only for another final status.
LEMMA EndedStep ==
  ASSUME TypeOK, StatusInv, [Next]_vars, NEW e \in Execs,
         status[e] \in {"COMPLETED", "FAILED"}
  PROVE  status'[e] \notin {"PENDING", "RUNNING"}
<1>1. ~Waiting(e)
  BY DEF StatusInv
<1>2. ASSUME NEW w \in Instances, Poll(w) \/ Lifecycle(w)
      PROVE  status'[e] \notin {"PENDING", "RUNNING"}
  <2>1. status' = status
    BY <1>2 DEF Poll, PollStart, PollReturns, PopPriority, PopRegular, PollFails, Lifecycle,
                CloseRedis, BeginShutdown, EndShutdown, Exit, Crash, Restart, Forget, store
  <2> QED BY <2>1
<1>3. ASSUME NEW w \in Instances, NEW f \in Execs, Request(w, f)
      PROVE  status'[e] \notin {"PENDING", "RUNNING"}
  BY <1>3 DEF Request, CreateExecution, PushJob, PushFails, CancelCheck, CancelWrite,
              CancelExecution, TypeOK, store
<1>4. ASSUME NEW w \in Instances, NEW f \in Execs, Process(w, f)
      PROVE  status'[e] \notin {"PENDING", "RUNNING"}
  <2>1. CASE MarkRunning(w, f)
    <3>1. f # e
      BY <1>1, <2>1 DEF MarkRunning, Waiting
    <3> QED BY <2>1, <3>1 DEF MarkRunning, TypeOK
  <2>2. CASE ~MarkRunning(w, f)
    <3>1. status' = status \/ \E s \in Terminal : status' = [status EXCEPT ![f] = s]
      BY <1>4, <2>2 DEF Process, Advance, OnCancelMessage, CheckStatus, NodesDone, NodesThrow,
           MarkCompleted, MarkFailed, Finish, TryFails, CatchFails, store, Terminal
    <3> QED BY <3>1 DEF TypeOK, Terminal
  <2> QED BY <2>1, <2>2
<1>5. CASE UNCHANGED vars
  BY <1>5 DEF vars, store
<1> QED BY <1>2, <1>3, <1>4, <1>5 DEF Next

-----------------------------------------------------------------------------
(* Cancellation before a worker starts the execution.                      *)

LEMMA EarlyNext ==
  TypeOK /\ HandFinite /\ Placement /\ StatusInv /\ QueuedCancelHonoured /\ [Next]_vars
     => QueuedCancelHonoured'
<1> SUFFICES ASSUME TypeOK, HandFinite, Placement, StatusInv, QueuedCancelHonoured,
                    [Next]_vars, NEW f \in cancelledEarly'
             PROVE  /\ status'[f] \in {"CANCELLED", "FAILED"}
                    /\ \A w \in Instances :
                         phase'[w][f] \notin {"start", "run", "complete", "cleanup"}
  BY DEF QueuedCancelHonoured
<1> DEFINE Honoured(g) == /\ status[g] \in {"CANCELLED", "FAILED"}
                          /\ \A w \in Instances :
                               phase[w][g] \notin {"start", "run", "complete", "cleanup"}
<1>1. ASSUME NEW w \in Instances, Poll(w) PROVE Honoured(f)'
  <2>1. cancelledEarly' = cancelledEarly
    BY <1>1 DEF Poll, PollStart, PollReturns, PopPriority, PopRegular, PollFails, history
  <2>2. f \in Execs /\ Honoured(f)
    BY <2>1 DEF TypeOK, QueuedCancelHonoured
  <2>3. status' = status
    BY <1>1, <2>2, PollStatus
  <2>4. \A v \in Instances : phase'[v][f] \in {phase[v][f], "check"}
    <3>1. CASE phase' = phase
      BY <3>1
    <3>2. ASSUME NEW jobs \in SUBSET Execs, Launch(w, jobs)
          PROVE  \A v \in Instances : phase'[v][f] \in {phase[v][f], "check"}
      BY <2>2, <3>2, LaunchPhase
    <3>3. ASSUME NEW q \in Queues, Take(w, q), ~(phase' = phase)
          PROVE  \E jobs \in SUBSET Execs : Launch(w, jobs)
      <4>1. Launch(w, hand[w] \cup {Head(queue[q])})
        BY <3>3 DEF Take
      <4>2. hand[w] \cup {Head(queue[q])} \in SUBSET Execs
        BY <3>3 DEF Take, TypeOK
      <4> QED BY <4>1, <4>2
    <3>4. phase' = phase \/ \E jobs \in SUBSET Execs : Launch(w, jobs)
      <4>1. hand[w] \in SUBSET Execs
        BY DEF TypeOK
      <4> QED BY <1>1, <3>3, <4>1 DEF Poll, PollStart, PollReturns, PopPriority, PopRegular, PollFails,
             processing, Queues
    <3> QED BY <3>1, <3>2, <3>4
  <2> QED BY <2>2, <2>3, <2>4
<1>2. ASSUME NEW w \in Instances, Lifecycle(w) PROVE Honoured(f)'
  <2>1. cancelledEarly' = cancelledEarly
    BY <1>2 DEF Lifecycle, CloseRedis, BeginShutdown, EndShutdown, Exit, Crash, Restart, Forget, history
  <2>2. f \in Execs /\ Honoured(f)
    BY <2>1 DEF TypeOK, QueuedCancelHonoured
  <2>3. status' = status
    BY <1>2, <2>2, LifecycleStatus
  <2>4. \A v \in Instances : phase'[v][f] \in {phase[v][f], "idle"}
    <3>1. CASE phase' = phase
      BY <3>1
    <3>2. CASE phase' = [phase EXCEPT ![w] = [e \in Execs |-> "idle"]]
      BY <2>2, <3>2 DEF TypeOK
    <3> QED BY <1>2, <3>1, <3>2 DEF Lifecycle, CloseRedis, BeginShutdown, EndShutdown, Exit, Crash,
               Restart, Forget, processing
  <2> QED BY <2>2, <2>3, <2>4
<1>3. ASSUME NEW w \in Instances, NEW e \in Execs, Request(w, e) PROVE Honoured(f)'
  <2>1. phase' = phase
    BY <1>3 DEF Request, CreateExecution, PushJob, PushFails, CancelCheck, CancelWrite,
                CancelExecution, processing
  <2>2. CASE CancelWrite(w, e)
    <3>1. status' = [status EXCEPT ![e] = "CANCELLED"]
      BY <2>2 DEF CancelWrite
    <3>2. \/ f \in cancelledEarly
          \/ f = e /\ \A v \in Instances : e \notin Active(v)
      BY <2>2 DEF CancelWrite
    <3>3. CASE f \in cancelledEarly
      BY <2>1, <3>1, <3>3 DEF TypeOK, QueuedCancelHonoured
    <3>4. CASE f = e /\ \A v \in Instances : e \notin Active(v)
      BY <2>1, <3>1, <3>4 DEF TypeOK, Active
    <3> QED BY <3>2, <3>3, <3>4
  <2>3. CASE ~CancelWrite(w, e)
    <3>1. /\ cancelledEarly' = cancelledEarly
          /\ \/ status' = status
             \/ status[e] = "NONE" /\ status' = [status EXCEPT ![e] = "PENDING"]
      BY <1>3, <2>3 DEF Request, CreateExecution, PushJob, PushFails, CancelCheck,
                  CancelExecution, history, store
    <3>2. f \in Execs /\ Honoured(f)
      BY <3>1 DEF TypeOK, QueuedCancelHonoured
    <3> QED BY <2>1, <3>1, <3>2 DEF TypeOK
  <2> QED BY <2>2, <2>3
<1>4. ASSUME NEW w \in Instances, NEW e \in Execs, Process(w, e) PROVE Honoured(f)'
  <2>1. cancelledEarly' = cancelledEarly
    BY <1>4 DEF Process, Advance, OnCancelMessage, CheckStatus, MarkRunning, NodesDone, NodesThrow,
           MarkCompleted, MarkFailed, Finish, TryFails, CatchFails, history
  <2>2. f \in Execs /\ Honoured(f)
    BY <2>1 DEF TypeOK, QueuedCancelHonoured
  <2>3. CASE OnCancelMessage(w, e)
    BY <2>2, <2>3 DEF OnCancelMessage, store
  <2>4. CASE ~OnCancelMessage(w, e)
    <3>1. PICK p \in Phase : phase' = [phase EXCEPT ![w][e] = p]
      BY <1>4, <2>4, ProcessMoves
    <3>2. CASE f # e
      <4>1. status'[f] = status[f]
        BY <1>4, <2>2, <2>4, <3>2, ProcessMoves
      <4>2. \A v \in Instances : phase'[v][f] = phase[v][f]
        BY <3>1, <3>2 DEF TypeOK
      <4> QED BY <2>2, <4>1, <4>2
    <3>3. CASE f = e
      <4>1. phase[w][e] = "check" => status[e] = "CANCELLED"
        BY <2>2, <3>3 DEF StatusInv, Waiting
      <4>2. phase[w][e] \notin {"start", "run", "complete", "cleanup"}
        BY <2>2, <3>3
      <4>3. \/ CheckStatus(w, e) /\ Goto(w, e, "idle") /\ status' = status
            \/ MarkFailed(w, e)
            \/ Finish(w, e) /\ Goto(w, e, "idle") /\ status' = status
            \/ TryFails(w, e) /\ Catch(w, e) /\ status' = status
            \/ CatchFails(w, e) /\ Goto(w, e, "idle") /\ status' = status
        BY <1>4, <2>4, <4>1, <4>2 DEF Process, Advance, CheckStatus, MarkRunning, NodesDone,
           NodesThrow, MarkCompleted, Finish, TryFails, CatchFails, Leave, store
      <4>4. /\ phase'[w][e] \in {"idle", "report", "failing", "aborting"}
            /\ status'[e] \in {status[e], "CANCELLED", "FAILED"}
        BY <4>3 DEF MarkFailed, Goto, Catch, TypeOK
      <4>5. \A v \in Instances : v # w => phase'[v][e] = phase[v][e]
        BY <3>1 DEF TypeOK
      <4> QED BY <2>2, <3>3, <4>4, <4>5
    <3> QED BY <3>2, <3>3
  <2> QED BY <2>3, <2>4
<1>5. CASE UNCHANGED vars
  BY <1>5 DEF vars, store, processing, history, QueuedCancelHonoured
<1> QED BY <1>1, <1>2, <1>3, <1>4, <1>5 DEF Next

-----------------------------------------------------------------------------
(* No execution disappears.                                                *)

Kept(e) == InQueue(e) \/ \E w \in Instances : e \in Held(w)

LEMMA ForgottenNext ==
  TypeOK /\ HandFinite /\ Placement /\ StatusInv /\ NoneForgotten /\ [Next]_vars
     => NoneForgotten'
<1> SUFFICES ASSUME TypeOK, HandFinite, Placement, StatusInv, NoneForgotten, [Next]_vars,
                    NEW f \in Execs, status'[f] \in {"PENDING", "RUNNING"}
             PROVE  f \in lost' \/ Kept(f)'
  BY DEF NoneForgotten, Kept
<1>1. ASSUME lost \subseteq lost', status[f] \in {"PENDING", "RUNNING"},
             Kept(f) => Kept(f)' \/ f \in lost'
      PROVE  f \in lost' \/ Kept(f)'
  BY <1>1 DEF NoneForgotten, Kept
<1>2. ASSUME queue' = queue, \A v \in Instances : Held(v) \subseteq Held(v)'
      PROVE  Kept(f) => Kept(f)'
  BY <1>2 DEF Kept, InQueue
<1>3. ASSUME NEW w \in Instances, Poll(w) PROVE f \in lost' \/ Kept(f)'
  <2>1. status' = status
    BY <1>3, PollStatus
  <2>2. CASE PollFails(w)
    <3>1. /\ queue' = queue /\ unpushed' = unpushed /\ phase' = phase
          /\ hand' = [hand EXCEPT ![w] = {}] /\ lost' = lost \cup hand[w]
      BY <2>2 DEF PollFails, store, requests, processing
    <3>2. \A v \in Instances : Held(v) \subseteq Held(v)' \cup lost'
      BY <3>1 DEF Held, Active, TypeOK
    <3> QED BY <1>1, <2>1, <3>1, <3>2 DEF Kept, InQueue
  <2>3. ASSUME NEW q \in Queues, Take(w, q), UNCHANGED <<status, requests>>, lost' = lost
        PROVE  f \in lost' \/ Kept(f)'
    <3>1. Kept(f) => Kept(f)'
      BY <2>3, TakeKeepsPlacement DEF Kept
    <3> QED BY <1>1, <2>1, <2>3, <3>1
  <2>4. CASE PopRegular(w) /\ ~Take(w, "regular")
    <3>1. /\ Launch(w, hand[w]) /\ queue' = queue /\ unpushed' = unpushed
          /\ hand[w] \in SUBSET Execs /\ lost' = lost
      BY <2>4 DEF PopRegular, requests, TypeOK, history
    <3>2. \A v \in Instances :
            /\ Active(v)' = IF v = w THEN Active(v) \cup hand[w] ELSE Active(v)
            /\ hand'[v] = IF v = w THEN {} ELSE hand[v]
      BY <3>1, LaunchActive DEF PollTypes, TypeOK
    <3>3. \A v \in Instances : Held(v)' = Held(v)
      BY <3>1, <3>2 DEF Held
    <3> QED BY <1>1, <1>2, <2>1, <3>1, <3>3
  <2>5. CASE /\ queue' = queue /\ unpushed' = unpushed /\ phase' = phase
             /\ hand' = hand /\ lost' = lost
    BY <1>1, <1>2, <2>1, <2>5 DEF Held, Active
  <2> QED BY <1>3, <2>2, <2>3, <2>4, <2>5 DEF Poll, PollStart, PollReturns, PopPriority,
             PopRegular, Queues, store, requests, processing, history
<1>4. ASSUME NEW w \in Instances, Lifecycle(w) PROVE f \in lost' \/ Kept(f)'
  <2>1. status' = status /\ queue' = queue
    BY <1>4 DEF Lifecycle, CloseRedis, BeginShutdown, EndShutdown, Exit, Crash, Restart, Forget, store
  <2>2. CASE Forget(w)
    <3>1. \A v \in Instances : Held(v) \subseteq Held(v)' \cup lost'
      BY <2>2 DEF Forget, Held, Active, TypeOK
    <3>2. lost \subseteq lost'
      BY <2>2 DEF Forget
    <3> QED BY <1>1, <2>1, <3>1, <3>2 DEF Kept, InQueue
  <2>3. CASE CloseRedis(w) \/ BeginShutdown(w) \/ EndShutdown(w) \/ Restart(w)
    <3>1. \A v \in Instances : Held(v)' = Held(v)
      BY <2>3 DEF CloseRedis, BeginShutdown, EndShutdown, Restart, Held, Active, requests, polling, processing
    <3>2. lost' = lost
      BY <2>3 DEF CloseRedis, BeginShutdown, EndShutdown, Restart, history
    <3> QED BY <1>1, <1>2, <2>1, <3>1, <3>2
  <2> QED BY <1>4, <2>2, <2>3 DEF Lifecycle, Exit, Crash
<1>5. ASSUME NEW w \in Instances, NEW e \in Execs, Request(w, e) PROVE f \in lost' \/ Kept(f)'
  <2>1. CASE CreateExecution(w, e)
    <3>1. /\ unpushed' = [unpushed EXCEPT ![w] = @ \cup {e}] /\ queue' = queue
          /\ hand' = hand /\ phase' = phase /\ lost' = lost
          /\ status' = [status EXCEPT ![e] = "PENDING"]
      BY <2>1 DEF CreateExecution, polling, processing, history
    <3>2. \A v \in Instances : Held(v) \subseteq Held(v)'
      BY <3>1 DEF Held, Active, TypeOK
    <3>3. e \in Held(w)'
      BY <3>1 DEF Held, TypeOK
    <3> QED BY <1>1, <1>2, <3>1, <3>2, <3>3 DEF Kept, TypeOK
  <2>2. CASE PushJob(w, e)
    <3>1. /\ unpushed' = [unpushed EXCEPT ![w] = @ \ {e}] /\ hand' = hand /\ phase' = phase
          /\ lost' = lost /\ status' = status
      BY <2>2 DEF PushJob, polling, processing, history
    <3>2. \A g \in Execs : InQueue(g)' <=> InQueue(g) \/ g = e
      BY <2>2, PushKeepsPlacement
    <3>3. \A v \in Instances : Held(v) \subseteq Held(v)' \cup {e}
      BY <3>1 DEF Held, Active, TypeOK
    <3> QED BY <1>1, <3>1, <3>2, <3>3 DEF Kept
  <2>3. CASE PushFails(w, e)
    <3>1. /\ unpushed' = [unpushed EXCEPT ![w] = @ \ {e}] /\ hand' = hand /\ phase' = phase
          /\ queue' = queue /\ lost' = lost \cup {e} /\ status' = status
      BY <2>3 DEF PushFails, polling, processing, store
    <3>2. \A v \in Instances : Held(v) \subseteq Held(v)' \cup lost'
      BY <3>1 DEF Held, Active, TypeOK
    <3> QED BY <1>1, <3>1, <3>2 DEF Kept, InQueue
  <2>4. CASE CancelCheck(w, e) \/ CancelWrite(w, e) \/ CancelExecution(w, e)
    <3>1. /\ queue' = queue /\ unpushed' = unpushed /\ hand' = hand /\ phase' = phase
          /\ lost' = lost
          /\ status' = status \/ status' = [status EXCEPT ![e] = "CANCELLED"]
      BY <2>4 DEF CancelCheck, CancelWrite, CancelExecution, store, requests, polling,
                  processing, history
    <3>2. status[f] \in {"PENDING", "RUNNING"}
      BY <3>1 DEF TypeOK
    <3> QED BY <1>1, <1>2, <3>1, <3>2 DEF Held, Active
  <2> QED BY <1>5, <2>1, <2>2, <2>3, <2>4 DEF Request
<1>6. ASSUME NEW w \in Instances, NEW e \in Execs, Process(w, e) PROVE f \in lost' \/ Kept(f)'
  <2>1. CASE OnCancelMessage(w, e)
    BY <1>1, <1>2, <2>1 DEF OnCancelMessage, Held, Active, store, requests, polling, history
  <2>2. CASE ~OnCancelMessage(w, e)
    <3>1. /\ phase[w][e] # "idle"
          /\ queue' = queue /\ unpushed' = unpushed /\ hand' = hand
          /\ \A g \in Execs \ {e} : status'[g] = status[g]
      BY <1>6, <2>2, ProcessMoves
    <3>2. PICK p \in Phase : phase' = [phase EXCEPT ![w][e] = p]
      BY <1>6, <2>2, ProcessMoves
    <3>3. lost \subseteq lost'
      BY <1>6, <2>2 DEF Process, Advance, CheckStatus, MarkRunning, NodesDone, NodesThrow,
           MarkCompleted, MarkFailed, Finish, TryFails, CatchFails, history
    <3>4. CASE f # e
      <4>1. \A v \in Instances : f \in Active(v) => f \in Active(v)'
        BY <3>2, <3>4 DEF Active, TypeOK
      <4> QED BY <1>1, <3>1, <3>3, <3>4, <4>1 DEF Kept, Held, InQueue
    <3>5. CASE f = e /\ p # "idle"
      <4>1. f \in Active(w)'
        BY <3>2, <3>5 DEF Active, TypeOK
      <4> QED BY <4>1 DEF Kept, Held
    <3>6. CASE f = e /\ p = "idle"
      <4>1. phase'[w][e] = "idle"
        BY <3>2, <3>6 DEF TypeOK
      <4>2. CheckStatus(w, e) \/ Finish(w, e) \/ CatchFails(w, e)
        BY <1>6, <2>2, <4>1 DEF Process, Advance, MarkRunning, NodesDone, NodesThrow,
           MarkCompleted, MarkFailed, TryFails, Goto, Catch, TypeOK
      <4>3. status' = status
        BY <4>2 DEF CheckStatus, Finish, CatchFails, store
      <4>4. CASE CheckStatus(w, e)
        <5>1. status[e] = "CANCELLED"
          BY <4>1, <4>4 DEF CheckStatus, Goto, TypeOK
        <5> QED BY <3>6, <4>3, <5>1
      <4>5. phase[w][e] \in {"cleanup", "report"} => status[e] \in Terminal
        BY DEF StatusInv
      <4>6. CASE Finish(w, e)
        BY <3>6, <4>3, <4>5, <4>6 DEF Finish, Terminal
      <4>7. CASE CatchFails(w, e)
        BY <3>6, <4>3, <4>5, <4>7 DEF CatchFails, Terminal
      <4> QED BY <4>2, <4>4, <4>6, <4>7
    <3> QED BY <3>4, <3>5, <3>6
  <2> QED BY <2>1, <2>2
<1>7. CASE UNCHANGED vars
  BY <1>1, <1>2, <1>7 DEF vars, store, requests, polling, processing, history, Held, Active
<1> QED BY <1>3, <1>4, <1>5, <1>6, <1>7 DEF Next

-----------------------------------------------------------------------------
(* Aborts.                                                                 *)

\* A step of poll() starts a set of jobs or leaves every phase alone.
LEMMA LaunchOrNot ==
  ASSUME TypeOK, NEW w \in Instances, Poll(w)
  PROVE  phase' = phase \/ \E jobs \in SUBSET Execs : Launch(w, jobs)
<1>1. ASSUME NEW q \in Queues, Take(w, q)
      PROVE  phase' = phase \/ \E jobs \in SUBSET Execs : Launch(w, jobs)
  <2>1. hand[w] \cup {Head(queue[q])} \in SUBSET Execs
    <3>1. queue[q] \in Seq(Execs) /\ queue[q] # <<>> /\ hand[w] \in SUBSET Execs
      BY <1>1 DEF Take, TypeOK
    <3>2. Head(queue[q]) \in Execs
      BY <3>1
    <3> QED BY <3>1, <3>2
  <2> QED BY <1>1, <2>1 DEF Take
<1>2. hand[w] \in SUBSET Execs
  BY DEF TypeOK
<1>3. CASE PopPriority(w)
  BY <1>1, <1>3 DEF PopPriority, Queues
<1>4. CASE PopRegular(w)
  BY <1>1, <1>2, <1>4 DEF PopRegular, Queues
<1>5. CASE PollStart(w) \/ PollReturns(w) \/ PollFails(w)
  BY <1>5 DEF PollStart, PollReturns, PollFails, processing
<1> QED BY <1>3, <1>4, <1>5 DEF Poll

-----------------------------------------------------------------------------
(* A cancel request between its check and its write is of a row that exists. *)

CancelsHaveRow == \A w \in Instances : \A e \in cancelling[w] : status[e] # "NONE"

LEMMA CancelsNext == TypeOK /\ CancelsHaveRow /\ [Next]_vars => CancelsHaveRow'
<1> SUFFICES ASSUME TypeOK, CancelsHaveRow, [Next]_vars,
                    NEW v \in Instances, NEW f \in cancelling'[v]
             PROVE  status'[f] # "NONE"
  BY DEF CancelsHaveRow
<1>1. ASSUME f \in cancelling[v], status'[f] = "NONE" => status[f] = "NONE"
      PROVE  status'[f] # "NONE"
  BY <1>1 DEF CancelsHaveRow
<1>2. \A u \in Instances : cancelling[u] \subseteq Execs
  BY DEF TypeOK
<1>3. ASSUME NEW w \in Instances, Poll(w) PROVE status'[f] # "NONE"
  BY <1>1, <1>3 DEF Poll, PollStart, PollReturns, PopPriority, PopRegular, PollFails,
     store, requests
<1>4. ASSUME NEW w \in Instances, Lifecycle(w) PROVE status'[f] # "NONE"
  BY <1>1, <1>4 DEF Lifecycle, CloseRedis, BeginShutdown, EndShutdown, Exit, Crash, Restart, Forget,
     store, requests, TypeOK
<1>5. ASSUME NEW w \in Instances, NEW e \in Execs, Request(w, e) PROVE status'[f] # "NONE"
  <2>1. CASE CreateExecution(w, e)
    BY <1>1, <1>2, <2>1 DEF CreateExecution, TypeOK
  <2>2. CASE PushJob(w, e) \/ PushFails(w, e) \/ CancelExecution(w, e)
    BY <1>1, <2>2 DEF PushJob, PushFails, CancelExecution, store, requests
  <2>3. CASE CancelCheck(w, e)
    BY <1>1, <2>3 DEF CancelCheck, Cancellable, store, TypeOK
  <2>4. CASE CancelWrite(w, e)
    BY <1>1, <1>2, <2>4 DEF CancelWrite, TypeOK
  <2> QED BY <1>5, <2>1, <2>2, <2>3, <2>4 DEF Request
<1>6. ASSUME NEW w \in Instances, NEW e \in Execs, Process(w, e) PROVE status'[f] # "NONE"
  <2>1. cancelling' = cancelling
    BY <1>6 DEF Process, Advance, OnCancelMessage, CheckStatus, MarkRunning, NodesDone, NodesThrow,
       MarkCompleted, MarkFailed, Finish, TryFails, CatchFails, requests
  <2>2. status'[f] = "NONE" => status[f] = "NONE"
    BY <1>2, <1>6, <2>1, ProcessQuiet DEF Quiet
  <2> QED BY <1>1, <2>1, <2>2
<1>7. CASE UNCHANGED vars
  BY <1>1, <1>7 DEF vars, store, requests
<1> QED BY <1>3, <1>4, <1>5, <1>6, <1>7 DEF Next

-----------------------------------------------------------------------------
(* The inductive invariant and what follows from it.                       *)

IInv ==
    /\ TypeOK /\ HandFinite /\ Placement /\ SlotInv /\ StatusInv
    /\ QueuedCancelHonoured /\ NoneForgotten /\ CancelsHaveRow

LEMMA IInvInit == Init => IInv
<1> SUFFICES ASSUME Init PROVE IInv
  OBVIOUS
<1>1. QueuedCancelHonoured /\ NoneForgotten /\ CancelsHaveRow
  BY DEF Init, QueuedCancelHonoured, NoneForgotten, CancelsHaveRow
<1> QED BY <1>1, TypeInit, PlacementInit, SlotInit, StatusInit DEF IInv

LEMMA IInvNext == IInv /\ [Next]_vars => IInv'
<1> SUFFICES ASSUME IInv, [Next]_vars PROVE IInv'
  OBVIOUS
<1> USE DEF IInv
<1>1. TypeOK'
  BY TypeNext
<1>2. Placement'
  BY PlacementNext
<1>3. SlotInv' /\ HandFinite'
  <2>1. SlotInv'
    BY SlotNext
  <2> QED BY <2>1 DEF SlotInv, Slots, HandFinite
<1>4. StatusInv'
  BY StatusNext
<1>5. QueuedCancelHonoured'
  BY EarlyNext
<1>6. NoneForgotten'
  BY ForgottenNext
<1>7. CancelsHaveRow'
  BY CancelsNext
<1> QED BY <1>1, <1>2, <1>3, <1>4, <1>5, <1>6, <1>7

\* The conjunction of everything above is an invariant of the worker.
THEOREM Invariance == Spec => []IInv
BY IInvInit, IInvNext, PTL DEF Spec

\* Every variable stays in its range (the types of the code's fields).
THEOREM TypeCorrect == Spec => []TypeOK
<1>1. IInv => TypeOK
  BY DEF IInv
<1> QED BY <1>1, Invariance, PTL

\* A job popped from a list is delivered to one processExecution, however many
\* instances poll and whatever fails: no execution is processed twice.
THEOREM SingleDelivery == Spec => []OnePlace
<1>1. IInv => OnePlace
  BY DEF IInv, Placement
<1> QED BY <1>1, Invariance, PTL

\* poll() computes its free slots before it awaits Redis; what it pops still
\* fits when it starts the jobs, whatever ended or failed in between.
THEOREM BoundedConcurrency == Spec => []ConcurrencyBound
<1>1. ASSUME IInv, NEW w \in Instances
      PROVE  Cardinality(hand[w] \cup Active(w)) <= ConcurrentWorkers
  <2>1. Slots(w)
    BY <1>1 DEF IInv, SlotInv
  <2>2. hand[w] \cap Active(w) = {}
    BY <1>1 DEF IInv, Placement, OnePlace
  <2>3. /\ Cardinality(hand[w] \cup Active(w)) = Cardinality(hand[w]) + Cardinality(Active(w))
        /\ Cardinality(hand[w]) \in Nat /\ Cardinality(Active(w)) \in Nat
    <3>1. Cardinality(hand[w] \cap Active(w)) = 0
      BY <2>2, FS_EmptySet
    <3>2. Cardinality(hand[w]) \in Nat /\ Cardinality(Active(w)) \in Nat
      BY <2>1, FS_CardinalityType DEF Slots
    <3>3. Cardinality(hand[w] \cup Active(w)) =
            Cardinality(hand[w]) + Cardinality(Active(w)) - Cardinality(hand[w] \cap Active(w))
      BY <2>1, FS_Union DEF Slots
    <3> QED BY <3>1, <3>2, <3>3
  <2>4. CASE pollAt[w] \in {"timer", "off"}
    <3>1. Cardinality(hand[w]) = 0
      BY <2>1, <2>4, FS_EmptySet DEF Slots
    <3> QED BY <2>1, <2>3, <3>1 DEF Slots
  <2>5. CASE pollAt[w] \in {"priority", "regular"}
    <3>1. fetches[w] \in Nat
      BY <1>1 DEF IInv, TypeOK
    <3> QED BY <2>1, <2>3, <2>5, <3>1, ConcurrencyAssumption DEF Slots
  <2>6. pollAt[w] \in PollPoints
    BY <1>1 DEF IInv, TypeOK
  <2> QED BY <2>4, <2>5, <2>6 DEF PollPoints
<1>2. IInv => ConcurrencyBound
  BY <1>1 DEF ConcurrencyBound
<1> QED BY <1>2, Invariance, PTL

\* processingCount is the size of activeExecutions between any two awaits.
THEOREM ExactCount == Spec => []CountIsActive
<1>1. IInv => CountIsActive
  BY DEF IInv, SlotInv, Slots, CountIsActive
<1> QED BY <1>1, Invariance, PTL

\* A cancellation that reaches the row before any worker does is honoured.
THEOREM EarlyCancel == Spec => []QueuedCancelHonoured
<1>1. IInv => QueuedCancelHonoured
  BY DEF IInv
<1> QED BY <1>1, Invariance, PTL

\* Only a fault or the end of a process makes an execution disappear.
THEOREM NothingForgotten == Spec => []NoneForgotten
<1>1. IInv => NoneForgotten
  BY DEF IInv
<1> QED BY <1>1, Invariance, PTL

\* An execution that has ended is never PENDING or RUNNING again.
THEOREM EndIsEnd == Spec => EndedNeverRestarts
<1>1. IInv /\ [Next]_vars =>
        [\A e \in Execs : status[e] \in {"COMPLETED", "FAILED"} =>
            status'[e] \notin {"PENDING", "RUNNING"}]_vars
  BY EndedStep DEF IInv
<1> QED BY <1>1, Invariance, PTL DEF Spec, EndedNeverRestarts

-----------------------------------------------------------------------------
(* Refinement: together the instances give every execution one life.       *)

Job == [e \in Execs |-> JobAt(e)]

\* The stage at which processExecution stands, as the abstract specification
\* names it.
StageAt(p) ==
    IF p = "check" THEN "taken"
    ELSE IF p = "start" THEN "admitted"
    ELSE IF p \in {"run", "complete"} THEN "running"
    ELSE IF p \in {"failing", "aborting"} THEN "failing"
    ELSE IF p = "cleanup" THEN "completed"
    ELSE "failed"

\* An execution is in one place, so each place tells its stage.
PlaceTellsJob ==
    \A e \in Execs :
        /\ status[e] = "NONE" <=> JobAt(e) = "none"
        /\ InQueue(e) => JobAt(e) = "waiting"
        /\ \A w \in Instances :
              /\ e \in unpushed[w] => JobAt(e) = "waiting"
              /\ e \in hand[w] => JobAt(e) = "taken"
              /\ phase[w][e] # "idle" => JobAt(e) = StageAt(phase[w][e])
        /\ ~Kept(e) /\ status[e] # "NONE" => JobAt(e) = "over"

LEMMA PlaceTells == TypeOK /\ Placement => PlaceTellsJob
<1> SUFFICES ASSUME TypeOK, Placement, NEW e \in Execs
             PROVE  /\ status[e] = "NONE" <=> JobAt(e) = "none"
                    /\ InQueue(e) => JobAt(e) = "waiting"
                    /\ \A w \in Instances :
                          /\ e \in unpushed[w] => JobAt(e) = "waiting"
                          /\ e \in hand[w] => JobAt(e) = "taken"
                          /\ phase[w][e] # "idle" => JobAt(e) = StageAt(phase[w][e])
                    /\ ~Kept(e) /\ status[e] # "NONE" => JobAt(e) = "over"
  BY DEF PlaceTellsJob
<1>1. Kept(e) => status[e] # "NONE"
  BY DEF Placement, NoRowNowhere, Kept
<1>2. status[e] = "NONE" <=> JobAt(e) = "none"
  BY DEF JobAt
<1>3. InQueue(e) => JobAt(e) = "waiting"
  BY <1>1 DEF JobAt, Kept
<1>4. ASSUME NEW w \in Instances, e \in unpushed[w] PROVE JobAt(e) = "waiting"
  BY <1>1, <1>4 DEF JobAt, Kept, Held
<1>5. ASSUME NEW w \in Instances, e \in hand[w] PROVE JobAt(e) = "taken"
  <2>1. ~InQueue(e)
    BY <1>5 DEF Placement, OnePlace, InQueue, Held
  <2>2. \A v \in Instances : e \notin unpushed[v]
    BY <1>5 DEF Placement, OnePlace, Held
  <2> QED BY <1>1, <1>5, <2>1, <2>2 DEF JobAt, Kept, Held
<1>6. ASSUME NEW w \in Instances, phase[w][e] # "idle"
      PROVE  JobAt(e) = StageAt(phase[w][e])
  <2>1. /\ ~InQueue(e)
        /\ \A v \in Instances : e \notin unpushed[v] \cup hand[v]
        /\ \A v \in Instances : v # w => phase[v][e] = "idle"
    BY <1>6, OnlyHere
  <2>2. status[e] # "NONE"
    BY <1>1, <1>6 DEF Kept, Held, Active
  <2>3. phase[w][e] \in Phase
    BY DEF TypeOK
  <2>4. {phase[v][e] : v \in Instances} \ {"idle"} = {phase[w][e]}
    BY <1>6, <2>1
  <2>5. \A p \in Phase \ {"idle"} : p \in {phase[v][e] : v \in Instances} <=> p = phase[w][e]
    BY <2>4
  <2> QED BY <1>6, <2>1, <2>2, <2>3, <2>5 DEF JobAt, StageAt, Phase
<1>7. ~Kept(e) /\ status[e] # "NONE" => JobAt(e) = "over"
  <2> SUFFICES ASSUME ~Kept(e), status[e] # "NONE" PROVE JobAt(e) = "over"
    OBVIOUS
  <2>1. \A v \in Instances : phase[v][e] = "idle" /\ e \notin unpushed[v] \cup hand[v]
    BY DEF Kept, Held, Active
  <2>2. \A p \in Phase \ {"idle"} : p \notin {phase[v][e] : v \in Instances}
    BY <2>1
  <2> QED BY <2>1, <2>2 DEF JobAt, Kept, Phase
<1> QED BY <1>2, <1>3, <1>4, <1>5, <1>6, <1>7

\* What the stage is computed from has not changed for e.
SamePlace(e) ==
    /\ status'[e] = "NONE" <=> status[e] = "NONE"
    /\ InQueue(e)' <=> InQueue(e)
    /\ \A w \in Instances :
          /\ e \in unpushed'[w] <=> e \in unpushed[w]
          /\ e \in hand'[w] <=> e \in hand[w]
          /\ phase'[w][e] = phase[w][e]

LEMMA SameJob == ASSUME NEW e \in Execs, SamePlace(e) PROVE JobAt(e)' = JobAt(e)
<1>1. {phase'[w][e] : w \in Instances} = {phase[w][e] : w \in Instances}
  BY DEF SamePlace
<1> QED BY <1>1 DEF SamePlace, JobAt

\* One execution moves from one stage to another.
LEMMA OneMoves ==
  ASSUME NEW e \in Execs, NEW to, JobAt(e)' = to,
         \A f \in Execs : f # e => JobAt(f)' = JobAt(f)
  PROVE  Life!Moves(e, JobAt(e), to)
BY DEF Life!Moves

LEMMA NoneMoves ==
  ASSUME status' = status, lost' = lost, \A f \in Execs : JobAt(f)' = JobAt(f)
  PROVE  UNCHANGED Life!vars
BY DEF Life!vars

LEMMA SomeDropped ==
  ASSUME NEW S \in SUBSET Execs, status' = status, lost' = lost \cup S,
         \A e \in S : JobAt(e) \notin {"none", "over"} /\ JobAt(e)' = "over",
         \A e \in Execs \ S : JobAt(e)' = JobAt(e)
  PROVE  Life!Drop(S)
BY DEF Life!Drop

\* The jobs a poll starts were in its hand or are the one it has just popped.
LEMMA LaunchedJobs ==
  ASSUME TypeOK, PlaceTellsJob, PlaceTellsJob', NEW w \in Instances, NEW jobs \in SUBSET Execs,
         hand[w] \subseteq jobs, Launch(w, jobs), status' = status, unpushed' = unpushed,
         NEW f \in Execs, InQueue(f)' <=> InQueue(f), f \in jobs => f \in hand[w]
  PROVE  JobAt(f)' = JobAt(f)
<1>1. \A v \in Instances : phase'[v][f] = IF v = w /\ f \in jobs THEN "check" ELSE phase[v][f]
  BY LaunchPhase
<1>2. CASE f \in jobs
  <2>1. JobAt(f) = "taken"
    BY <1>2 DEF PlaceTellsJob
  <2>2. JobAt(f)' = "taken"
    BY <1>1, <1>2 DEF PlaceTellsJob, StageAt
  <2> QED BY <2>1, <2>2
<1>3. CASE f \notin jobs
  <2>1. \A v \in Instances : f \in hand'[v] <=> f \in hand[v]
    BY <1>3 DEF Launch, TypeOK
  <2> QED BY <1>1, <1>3, <2>1, SameJob DEF SamePlace
<1> QED BY <1>2, <1>3

LEMMA TakeTakes ==
  ASSUME TypeOK, HandFinite, Placement, PlaceTellsJob, PlaceTellsJob',
         NEW w \in Instances, NEW q \in Queues, Take(w, q), UNCHANGED <<status, requests, history>>
  PROVE  \E e \in Execs : Life!Take(e)
<1>0. queue[q] \in Seq(Execs) /\ queue[q] # <<>>
  BY DEF Take, TypeOK
<1> PICK h \in Execs : h = Head(queue[q])
  BY <1>0
<1> DEFINE jobs == hand[w] \cup {h}
<1>1. h \in Execs /\ jobs \in SUBSET Execs
  BY DEF TypeOK
<1>2. /\ \A f \in Execs : InQueue(f) <=> InQueue(f)' \/ f = h
      /\ Placement' /\ status' = status /\ unpushed' = unpushed /\ lost' = lost
  BY TakeKeepsPlacement DEF requests, history
<1>3. JobAt(h) = "waiting"
  BY <1>1, <1>2 DEF PlaceTellsJob
<1>4. h \notin hand[w] /\ \A v \in Instances : h \notin hand[v]
  BY <1>1, <1>3 DEF PlaceTellsJob
<1>5. JobAt(h)' = "taken"
  <2>1. Launch(w, jobs) \/ hand' = [hand EXCEPT ![w] = jobs]
    BY DEF Take
  <2>2. CASE Launch(w, jobs)
    <3>1. phase'[w][h] = "check"
      BY <1>1, <2>2, LaunchPhase
    <3> QED BY <1>1, <3>1 DEF PlaceTellsJob, StageAt
  <2>3. CASE hand' = [hand EXCEPT ![w] = jobs]
    <3>1. h \in hand'[w]
      BY <2>3 DEF TypeOK
    <3> QED BY <1>1, <3>1 DEF PlaceTellsJob
  <2> QED BY <2>1, <2>2, <2>3
<1>6. ASSUME NEW f \in Execs, f # h PROVE JobAt(f)' = JobAt(f)
  <2>1. InQueue(f)' <=> InQueue(f)
    BY <1>2, <1>6
  <2>2. CASE Launch(w, jobs)
    BY <1>1, <1>2, <1>6, <2>1, <2>2, LaunchedJobs
  <2>3. CASE hand' = [hand EXCEPT ![w] = jobs] /\ phase' = phase
    <3>1. \A v \in Instances : f \in hand'[v] <=> f \in hand[v]
      BY <1>6, <2>3 DEF TypeOK
    <3> QED BY <1>2, <2>1, <2>3, <3>1, SameJob DEF SamePlace
  <2> QED BY <2>2, <2>3 DEF Take
<1>7. Life!Moves(h, JobAt(h), "taken")
  BY <1>1, <1>5, <1>6, OneMoves
<1> QED BY <1>1, <1>2, <1>3, <1>7 DEF Life!Take

LEMMA PollLives ==
  ASSUME TypeOK, HandFinite, Placement, PlaceTellsJob, PlaceTellsJob',
         NEW w \in Instances, Poll(w)
  PROVE  Life!Next \/ UNCHANGED Life!vars
<1>1. CASE PollStart(w) \/ PollReturns(w)
  <2>1. /\ UNCHANGED <<queue, unpushed, hand, phase, status, lost>>
    BY <1>1 DEF PollStart, PollReturns, store, requests, processing, history
  <2>2. \A f \in Execs : JobAt(f)' = JobAt(f)
    BY <2>1, SameJob DEF SamePlace, InQueue
  <2> QED BY <2>1, <2>2, NoneMoves
<1>2. ASSUME NEW q \in Queues, Take(w, q), UNCHANGED <<status, requests, history>>
      PROVE  Life!Next
  BY <1>2, TakeTakes DEF Life!Next
<1>3. CASE PopPriority(w) /\ ~Take(w, "priority")
  <2>1. UNCHANGED <<queue, unpushed, hand, phase, status, lost>>
    BY <1>3 DEF PopPriority, requests, history
  <2>2. \A f \in Execs : JobAt(f)' = JobAt(f)
    BY <2>1, SameJob DEF SamePlace, InQueue
  <2> QED BY <2>1, <2>2, NoneMoves
<1>4. CASE PopRegular(w) /\ ~Take(w, "regular")
  <2>1. /\ Launch(w, hand[w]) /\ hand[w] \in SUBSET Execs
        /\ UNCHANGED <<queue, unpushed, status, lost>>
    BY <1>4 DEF PopRegular, requests, history, TypeOK
  <2>2. \A f \in Execs : JobAt(f)' = JobAt(f)
    BY <2>1, LaunchedJobs DEF InQueue
  <2> QED BY <2>1, <2>2, NoneMoves
<1>5. CASE PollFails(w)
  <2>1. /\ UNCHANGED <<queue, unpushed, phase, status>>
        /\ hand' = [hand EXCEPT ![w] = {}] /\ lost' = lost \cup hand[w]
        /\ hand[w] \in SUBSET Execs
    BY <1>5 DEF PollFails, store, requests, processing, TypeOK
  <2>2. ASSUME NEW e \in hand[w] PROVE JobAt(e) = "taken" /\ JobAt(e)' = "over"
    <3>1. JobAt(e) = "taken" /\ status[e] # "NONE"
      BY <2>1, <2>2 DEF PlaceTellsJob
    <3>2. /\ ~InQueue(e)
          /\ \A v \in Instances : v # w => e \notin Held(v)
          /\ e \notin unpushed[w] /\ e \notin Active(w)
      BY <2>1, <2>2 DEF Placement, OnePlace, Held, InQueue
    <3>3. ~Kept(e)'
      BY <2>1, <3>2 DEF Kept, Held, InQueue, Active, TypeOK
    <3> QED BY <2>1, <2>2, <3>1, <3>3 DEF PlaceTellsJob
  <2>3. ASSUME NEW f \in Execs \ hand[w] PROVE JobAt(f)' = JobAt(f)
    <3>1. \A v \in Instances : f \in hand'[v] <=> f \in hand[v]
      BY <2>1, <2>3 DEF TypeOK
    <3> QED BY <2>1, <3>1, SameJob DEF SamePlace, InQueue
  <2>4. Life!Drop(hand[w])
    BY <2>1, <2>2, <2>3, SomeDropped
  <2> QED BY <2>1, <2>4 DEF Life!Next
<1> QED BY <1>1, <1>2, <1>3, <1>4, <1>5 DEF Poll, PopPriority, PopRegular, Queues

LEMMA LifecycleLives ==
  ASSUME TypeOK, Placement, PlaceTellsJob, PlaceTellsJob', NEW w \in Instances, Lifecycle(w)
  PROVE  Life!Next \/ UNCHANGED Life!vars
<1>1. CASE CloseRedis(w) \/ BeginShutdown(w) \/ EndShutdown(w) \/ Restart(w)
  <2>1. UNCHANGED <<queue, unpushed, hand, phase, status, lost>>
    BY <1>1 DEF CloseRedis, BeginShutdown, EndShutdown, Restart, store, requests, polling, processing, history
  <2>2. \A f \in Execs : JobAt(f)' = JobAt(f)
    BY <2>1, SameJob DEF SamePlace, InQueue
  <2> QED BY <2>1, <2>2, NoneMoves
<1>2. CASE Forget(w)
  <2>1. /\ UNCHANGED <<queue, status>>
        /\ unpushed' = [unpushed EXCEPT ![w] = {}]
        /\ hand' = [hand EXCEPT ![w] = {}]
        /\ phase' = [phase EXCEPT ![w] = [e \in Execs |-> "idle"]]
        /\ lost' = lost \cup Held(w)
        /\ Held(w) \in SUBSET Execs
    BY <1>2 DEF Forget, store, Held, Active, TypeOK
  <2>2. \A v \in Instances : Held(v)' = IF v = w THEN {} ELSE Held(v)
    BY <2>1 DEF Held, Active, TypeOK
  <2>3. ASSUME NEW e \in Held(w) PROVE JobAt(e) \notin {"none", "over"} /\ JobAt(e)' = "over"
    <3>1. status[e] # "NONE"
      BY <2>1, <2>3 DEF Placement, NoRowNowhere
    <3>2. ~InQueue(e) /\ \A v \in Instances : v # w => e \notin Held(v)
      BY <2>1, <2>3 DEF Placement, OnePlace, InQueue
    <3>3. ~Kept(e)'
      BY <2>1, <2>2, <3>2 DEF Kept, InQueue
    <3>4. JobAt(e)' = "over"
      BY <2>1, <2>3, <3>1, <3>3 DEF PlaceTellsJob
    <3>5. JobAt(e) \notin {"none", "over"}
      BY <2>1, <2>3 DEF PlaceTellsJob, Held, Active, StageAt
    <3> QED BY <3>4, <3>5
  <2>4. ASSUME NEW f \in Execs \ Held(w) PROVE JobAt(f)' = JobAt(f)
    <3>1. \A v \in Instances : /\ f \in unpushed'[v] <=> f \in unpushed[v]
                               /\ f \in hand'[v] <=> f \in hand[v]
                               /\ phase'[v][f] = phase[v][f]
      BY <2>1, <2>4 DEF Held, Active, TypeOK
    <3> QED BY <2>1, <3>1, SameJob DEF SamePlace, InQueue
  <2>5. Life!Drop(Held(w))
    BY <2>1, <2>3, <2>4, SomeDropped
  <2> QED BY <2>1, <2>5 DEF Life!Next
<1> QED BY <1>1, <1>2 DEF Lifecycle, Exit, Crash

LEMMA RequestLives ==
  ASSUME TypeOK, Placement, CancelsHaveRow, PlaceTellsJob, PlaceTellsJob',
         NEW w \in Instances, NEW e \in Execs, Request(w, e)
  PROVE  Life!Next \/ UNCHANGED Life!vars
<1>1. CASE CreateExecution(w, e)
  <2>1. /\ UNCHANGED <<queue, hand, phase, lost>> /\ status[e] = "NONE"
        /\ unpushed' = [unpushed EXCEPT ![w] = @ \cup {e}]
        /\ status' = [status EXCEPT ![e] = "PENDING"]
    BY <1>1 DEF CreateExecution, polling, processing, history
  <2>2. JobAt(e) = "none"
    BY <2>1 DEF PlaceTellsJob
  <2>3. JobAt(e)' = "waiting"
    <3>1. e \in unpushed'[w]
      BY <2>1 DEF TypeOK
    <3> QED BY <3>1 DEF PlaceTellsJob
  <2>4. ASSUME NEW f \in Execs, f # e PROVE JobAt(f)' = JobAt(f)
    <3>1. /\ status'[f] = status[f]
          /\ \A v \in Instances : f \in unpushed'[v] <=> f \in unpushed[v]
      BY <2>1, <2>4 DEF TypeOK
    <3> QED BY <2>1, <3>1, SameJob DEF SamePlace, InQueue
  <2>5. Life!Moves(e, JobAt(e), "waiting")
    BY <2>3, <2>4, OneMoves
  <2>6. Life!Create(e)
    BY <2>1, <2>2, <2>5 DEF Life!Create, Life!Writes
  <2> QED BY <2>6 DEF Life!Next
<1>2. CASE PushJob(w, e)
  <2>1. /\ UNCHANGED <<hand, phase, status, lost>> /\ e \in unpushed[w]
        /\ unpushed' = [unpushed EXCEPT ![w] = @ \ {e}]
    BY <1>2 DEF PushJob, polling, processing, history
  <2>2. \A f \in Execs : InQueue(f)' <=> InQueue(f) \/ f = e
    BY <1>2, PushKeepsPlacement
  <2>3. JobAt(e) = "waiting" /\ JobAt(e)' = "waiting"
    BY <2>1, <2>2 DEF PlaceTellsJob
  <2>4. ASSUME NEW f \in Execs, f # e PROVE JobAt(f)' = JobAt(f)
    <3>1. \A v \in Instances : f \in unpushed'[v] <=> f \in unpushed[v]
      BY <2>1, <2>4 DEF TypeOK
    <3> QED BY <2>1, <2>2, <2>4, <3>1, SameJob DEF SamePlace
  <2> QED BY <2>1, <2>3, <2>4, NoneMoves
<1>3. CASE PushFails(w, e)
  <2>1. /\ UNCHANGED <<queue, hand, phase, status>> /\ e \in unpushed[w]
        /\ unpushed' = [unpushed EXCEPT ![w] = @ \ {e}]
        /\ lost' = lost \cup {e}
    BY <1>3 DEF PushFails, store, polling, processing
  <2>2. JobAt(e) = "waiting" /\ status[e] # "NONE"
    BY <2>1 DEF PlaceTellsJob
  <2>3. JobAt(e)' = "over"
    <3>1. /\ ~InQueue(e)
          /\ \A v \in Instances : v # w => e \notin Held(v)
          /\ e \notin hand[w] /\ e \notin Active(w)
      BY <2>1 DEF Placement, OnePlace, Held, InQueue
    <3>2. ~Kept(e)'
      BY <2>1, <3>1 DEF Kept, Held, InQueue, Active, TypeOK
    <3> QED BY <2>1, <2>2, <3>2 DEF PlaceTellsJob
  <2>4. ASSUME NEW f \in Execs \ {e} PROVE JobAt(f)' = JobAt(f)
    <3>1. \A v \in Instances : f \in unpushed'[v] <=> f \in unpushed[v]
      BY <2>1, <2>4 DEF TypeOK
    <3> QED BY <2>1, <3>1, SameJob DEF SamePlace, InQueue
  <2>5. Life!Drop({e})
    BY <2>1, <2>2, <2>3, <2>4, SomeDropped
  <2> QED BY <2>5 DEF Life!Next
<1>4. CASE CancelCheck(w, e) \/ CancelExecution(w, e)
  <2>1. UNCHANGED <<queue, unpushed, hand, phase, status, lost>>
    BY <1>4 DEF CancelCheck, CancelExecution, store, requests, polling, processing, history
  <2>2. \A f \in Execs : JobAt(f)' = JobAt(f)
    BY <2>1, SameJob DEF SamePlace, InQueue
  <2> QED BY <2>1, <2>2, NoneMoves
<1>5. CASE CancelWrite(w, e)
  <2>1. /\ UNCHANGED <<queue, unpushed, hand, phase, lost>> /\ e \in cancelling[w]
        /\ status' = [status EXCEPT ![e] = "CANCELLED"]
    BY <1>5 DEF CancelWrite, polling, processing
  <2>2. status[e] # "NONE"
    BY <2>1 DEF CancelsHaveRow
  <2>3. \A f \in Execs : JobAt(f)' = JobAt(f)
    <3>1. \A f \in Execs : status'[f] = "NONE" <=> status[f] = "NONE"
      BY <2>1, <2>2 DEF TypeOK
    <3> QED BY <2>1, <3>1, SameJob DEF SamePlace, InQueue
  <2>4. Life!Cancel(e)
    BY <2>1, <2>2, <2>3 DEF Life!Cancel, Life!Writes
  <2> QED BY <2>4 DEF Life!Next
<1> QED BY <1>1, <1>2, <1>3, <1>4, <1>5 DEF Request

LEMMA ProcessLives ==
  ASSUME TypeOK, Placement, StatusInv, PlaceTellsJob, PlaceTellsJob', Placement',
         NEW w \in Instances, NEW e \in Execs, Process(w, e)
  PROVE  Life!Next \/ UNCHANGED Life!vars
<1>1. CASE OnCancelMessage(w, e)
  <2>1. UNCHANGED <<queue, unpushed, hand, phase, status, lost>>
    BY <1>1 DEF OnCancelMessage, store, requests, polling, history
  <2>2. \A f \in Execs : JobAt(f)' = JobAt(f)
    BY <2>1, SameJob DEF SamePlace, InQueue
  <2> QED BY <2>1, <2>2, NoneMoves
<1> SUFFICES ASSUME ~OnCancelMessage(w, e) PROVE Life!Next \/ UNCHANGED Life!vars
  BY <1>1
<1>2. /\ phase[w][e] # "idle"
      /\ UNCHANGED <<queue, unpushed, hand>>
      /\ \A f \in Execs \ {e} : status'[f] = status[f]
  BY ProcessMoves
<1>3. PICK p \in Phase : phase' = [phase EXCEPT ![w][e] = p]
  BY ProcessMoves
<1>4. phase'[w][e] = p /\ status[e] # "NONE"
  BY <1>2, <1>3 DEF TypeOK, Placement, NoRowNowhere, Held, Active
<1>5. JobAt(e) = StageAt(phase[w][e])
  BY <1>2 DEF PlaceTellsJob
<1>6. p # "idle" => JobAt(e)' = StageAt(p)
  BY <1>4 DEF PlaceTellsJob
<1>7. p = "idle" /\ status'[e] # "NONE" => JobAt(e)' = "over"
  <2>1. ~InQueue(e)' /\ \A v \in Instances : e \notin unpushed'[v] \cup hand'[v]
    BY <1>2, OnlyHere DEF InQueue
  <2>2. p = "idle" => \A v \in Instances : phase'[v][e] = "idle"
    BY <1>2, <1>3, OnlyHere DEF TypeOK
  <2>3. p = "idle" => ~Kept(e)'
    BY <2>1, <2>2 DEF Kept, Held, Active
  <2> QED BY <2>3 DEF PlaceTellsJob
<1>8. ASSUME NEW f \in Execs, f # e PROVE JobAt(f)' = JobAt(f)
  <2>1. \A v \in Instances : phase'[v][f] = phase[v][f]
    BY <1>3, <1>8 DEF TypeOK
  <2> QED BY <1>2, <1>8, <2>1, SameJob DEF SamePlace, InQueue
<1>9. /\ JobAt(e)' = "over" => Life!Moves(e, JobAt(e), "over")
      /\ \A to : JobAt(e)' = to => Life!Moves(e, JobAt(e), to)
  BY <1>8, OneMoves
<1>10. CASE CheckStatus(w, e)
  <2>1. /\ phase[w][e] = "check" /\ UNCHANGED <<status, lost>>
        /\ \/ status[e] = "CANCELLED" /\ p = "idle"
           \/ status[e] # "CANCELLED" /\ p = "start"
    BY <1>4, <1>10 DEF CheckStatus, Leave, Goto, store, history, TypeOK
  <2>2. JobAt(e) = "taken"
    BY <1>5, <2>1 DEF StageAt
  <2>3. CASE p = "idle"
    <3>1. Life!Moves(e, "taken", "over")
      BY <1>4, <1>7, <1>9, <2>1, <2>2, <2>3
    <3> QED BY <2>1, <2>3, <3>1 DEF Life!Refuse, Life!Next
  <2>4. CASE p = "start"
    <3>1. Life!Moves(e, "taken", "admitted")
      BY <1>6, <1>9, <2>2, <2>4 DEF StageAt
    <3> QED BY <2>1, <2>4, <3>1 DEF Life!Admit, Life!Next
  <2> QED BY <2>1, <2>3, <2>4
<1>11. CASE MarkRunning(w, e)
  <2>1. /\ phase[w][e] = "start" /\ p \in {"run", "failing", "aborting"} /\ lost' = lost
        /\ status' = [status EXCEPT ![e] = "RUNNING"]
    BY <1>4, <1>11 DEF MarkRunning, Catch, Goto, history, TypeOK
  <2>2. \E to \in {"running", "failing"} : Life!Moves(e, "admitted", to)
    BY <1>5, <1>6, <1>9, <2>1 DEF StageAt
  <2> QED BY <2>1, <2>2 DEF Life!Start, Life!Writes, Life!Next
<1>12. CASE NodesDone(w, e)
  <2>1. phase[w][e] = "run" /\ p = "complete" /\ status' = status /\ lost' = lost
    BY <1>4, <1>12 DEF NodesDone, Goto, store, history, TypeOK
  <2>2. JobAt(e)' = JobAt(e)
    BY <1>5, <1>6, <2>1 DEF StageAt
  <2> QED BY <1>8, <2>1, <2>2, NoneMoves
<1>13. CASE MarkCompleted(w, e)
  <2>1. /\ phase[w][e] = "complete" /\ p = "cleanup" /\ lost' = lost
        /\ status' = [status EXCEPT ![e] = "COMPLETED"]
    BY <1>4, <1>13 DEF MarkCompleted, Goto, history, TypeOK
  <2>2. Life!Moves(e, "running", "completed")
    BY <1>5, <1>6, <1>9, <2>1 DEF StageAt
  <2> QED BY <2>1, <2>2 DEF Life!Complete, Life!Writes, Life!Next
<1>14. CASE MarkFailed(w, e)
  <2>1. /\ phase[w][e] \in {"failing", "aborting"} /\ p = "report" /\ lost' = lost
        /\ \E s \in {"FAILED", "CANCELLED"} : status' = [status EXCEPT ![e] = s]
    BY <1>4, <1>14 DEF MarkFailed, Goto, history, TypeOK
  <2>2. Life!Moves(e, "failing", "failed")
    BY <1>5, <1>6, <1>9, <2>1 DEF StageAt
  <2> QED BY <2>1, <2>2 DEF Life!Fail, Life!Writes, Life!Next
<1>15. CASE NodesThrow(w, e) \/ TryFails(w, e)
  <2>1. /\ phase[w][e] \in {"check", "start", "run", "complete", "cleanup"}
        /\ p \in {"failing", "aborting"} /\ UNCHANGED <<status, lost>>
    BY <1>4, <1>15 DEF NodesThrow, TryFails, Catch, Goto, store, history, TypeOK
  <2>2. JobAt(e) \in {"taken", "admitted", "running", "completed"}
    BY <1>5, <2>1 DEF StageAt
  <2>3. Life!Moves(e, JobAt(e), "failing")
    BY <1>6, <1>9, <2>1 DEF StageAt
  <2> QED BY <2>1, <2>2, <2>3 DEF Life!Break, Life!Next
<1>16. CASE Finish(w, e) \/ (CatchFails(w, e) /\ phase[w][e] = "report")
  <2>1. /\ phase[w][e] \in {"cleanup", "report"}
        /\ p = "idle" /\ UNCHANGED <<status, lost>>
    BY <1>4, <1>16 DEF Finish, CatchFails, Leave, Goto, store, history, TypeOK
  <2>2. JobAt(e) \in {"completed", "failed"}
    BY <1>5, <2>1 DEF StageAt
  <2>3. Life!Moves(e, JobAt(e), "over")
    BY <1>4, <1>7, <1>9, <2>1
  <2> QED BY <2>1, <2>2, <2>3 DEF Life!Close, Life!Next
<1>17. CASE CatchFails(w, e) /\ phase[w][e] # "report"
  <2>1. /\ phase[w][e] \in {"failing", "aborting"}
        /\ p = "idle" /\ status' = status /\ lost' = lost \cup {e}
    BY <1>4, <1>17 DEF CatchFails, Leave, Goto, store, TypeOK
  <2>2. JobAt(e) = "failing" /\ JobAt(e)' = "over"
    BY <1>4, <1>5, <1>7, <2>1 DEF StageAt
  <2>3. Life!Drop({e})
    BY <1>8, <2>1, <2>2, SomeDropped
  <2> QED BY <2>3 DEF Life!Next
<1> QED BY <1>10, <1>11, <1>12, <1>13, <1>14, <1>15, <1>16, <1>17 DEF Process, Advance

LEMMA LifeInit == Init => Life!Init
<1> SUFFICES ASSUME Init PROVE Life!Init
  OBVIOUS
<1>1. \A e \in Execs : JobAt(e) = "none"
  BY DEF Init, JobAt
<1> QED BY <1>1 DEF Init, Life!Init

LEMMA LifeNext ==
  ASSUME IInv, PlaceTellsJob, PlaceTellsJob', IInv', [Next]_vars
  PROVE  [Life!Next]_(Life!vars)
<1> USE DEF IInv
<1>1. CASE UNCHANGED vars
  <2>1. UNCHANGED <<queue, unpushed, hand, phase, status, lost>>
    BY <1>1 DEF vars, store, requests, polling, processing, history
  <2>2. \A f \in Execs : JobAt(f)' = JobAt(f)
    BY <2>1, SameJob DEF SamePlace, InQueue
  <2> QED BY <2>1, <2>2, NoneMoves
<1>2. CASE Next
  <2>1. PICK w \in Instances : Poll(w) \/ Lifecycle(w) \/ \E e \in Execs : Request(w, e) \/ Process(w, e)
    BY <1>2 DEF Next
  <2>2. Life!Next \/ UNCHANGED Life!vars
    BY <2>1, PollLives, LifecycleLives, RequestLives, ProcessLives
  <2> QED BY <2>2
<1> QED BY <1>1, <1>2

\* The instances implement ExecutionLife: an execution is taken once, admitted
\* only if nobody had cancelled it, started at most once, and is over with a
\* final row or dropped, however many of them poll, crash, restart or shut down.
THEOREM OneLife == Spec => LifeSpec
<1>1. IInv => PlaceTellsJob
  BY PlaceTells DEF IInv
<1>2. IInv /\ PlaceTellsJob /\ PlaceTellsJob' /\ IInv' /\ [Next]_vars => [Life!Next]_(Life!vars)
  BY LifeNext
<1> QED BY <1>1, <1>2, LifeInit, Invariance, PTL DEF Spec, LifeSpec, Life!Spec

\* The stages in the order of an execution's life.
Position(stage) ==
    CASE stage = "none" -> 0
      [] stage = "waiting" -> 1
      [] stage = "taken" -> 2
      [] stage = "admitted" -> 3
      [] stage = "running" -> 4
      [] stage = "completed" -> 5
      [] stage = "failing" -> 6
      [] stage = "failed" -> 7
      [] stage = "over" -> 8

\* No stage is entered twice: a job that has left the lists is never in one again,
\* and the nodes of an execution are started at most once, by one instance, even
\* after the crash of the one that had it.  Nothing in the code retries a job.
THEOREM StagesInOrder ==
    Spec => [][\A e \in Execs : Position(JobAt(e)) <= Position(JobAt(e)')]_vars
<1>1. ASSUME [Life!Next]_(Life!vars), NEW e \in Execs
      PROVE  Position(JobAt(e)) <= Position(JobAt(e)')
  <2>1. JobAt(e) \in {"none", "waiting", "taken", "admitted", "running", "completed",
                     "failing", "failed", "over"}
    BY DEF JobAt
  <2>2. Position(JobAt(e)) \in 0..8
    BY <2>1 DEF Position
  <2>3. CASE UNCHANGED Life!vars
    <3>1. Job' = Job
      BY <2>3 DEF Life!vars, Job
    <3>2. Job'[e] = Job[e]
      BY <3>1
    <3>3. JobAt(e)' = JobAt(e)
      BY <3>2 DEF Job
    <3> QED BY <2>2, <3>3
  <2>4. ASSUME NEW S \in SUBSET Execs, Life!Drop(S) PROVE Position(JobAt(e)) <= Position(JobAt(e)')
    <3>1. JobAt(e)' = IF e \in S THEN "over" ELSE JobAt(e)
      <4>1. Job' = [f \in Execs |-> IF f \in S THEN "over" ELSE Job[f]]
        BY <2>4 DEF Life!Drop, Job
      <4>2. Job'[e] = IF e \in S THEN "over" ELSE Job[e]
        BY <4>1
      <4> QED BY <4>2 DEF Job
    <3>2. Position("over") = 8
      BY DEF Position
    <3> QED BY <2>2, <3>1, <3>2
  <2>5. ASSUME NEW f \in Execs, NEW from, NEW to, Life!Moves(f, from, to),
               Position(from) <= Position(to)
        PROVE  Position(JobAt(e)) <= Position(JobAt(e)')
    <3>1. Job[f] = from /\ Job' = [Job EXCEPT ![f] = to]
      BY <2>5 DEF Life!Moves, Job
    <3>2. Job'[e] = IF e = f THEN to ELSE Job[e]
      BY <3>1 DEF Job
    <3>3. JobAt(e)' = IF e = f THEN to ELSE JobAt(e)
      BY <3>2 DEF Job
    <3>4. e = f => JobAt(e) = from
      BY <3>1 DEF Job
    <3> QED BY <2>2, <2>5, <3>3, <3>4
  <2>6. ASSUME NEW f \in Execs, Life!Cancel(f) PROVE Position(JobAt(e)) <= Position(JobAt(e)')
    <3>1. Job' = Job
      BY <2>6 DEF Life!Cancel, Job
    <3>2. Job'[e] = Job[e]
      BY <3>1
    <3> QED BY <2>2, <3>2 DEF Job
  <2>7. ASSUME NEW f \in Execs,
               \/ Life!Create(f) \/ Life!Take(f) \/ Life!Admit(f) \/ Life!Refuse(f)
               \/ Life!Start(f) \/ Life!Complete(f) \/ Life!Break(f) \/ Life!Fail(f)
               \/ Life!Close(f)
        PROVE  \E from, to : Life!Moves(f, from, to) /\ Position(from) <= Position(to)
    BY <2>7 DEF Life!Create, Life!Take, Life!Admit, Life!Refuse, Life!Start, Life!Complete,
       Life!Break, Life!Fail, Life!Close, Position
  <2> QED BY <1>1, <2>3, <2>4, <2>5, <2>6, <2>7 DEF Life!Next
<1>2. IInv => PlaceTellsJob
  BY PlaceTells DEF IInv
<1>3. IInv /\ PlaceTellsJob /\ PlaceTellsJob' /\ IInv' /\ [Next]_vars
        => [\A e \in Execs : Position(JobAt(e)) <= Position(JobAt(e)')]_vars
  BY <1>1, LifeNext
<1> QED BY <1>2, <1>3, Invariance, PTL DEF Spec
-----------------------------------------------------------------------------
(* What a shutdown reaches.                                                *)

\* The shutdown of v is over and what still runs has been told to stop.
Reached(v) == mode[v] = "down" /\ Active(v) \subseteq aborted[v]

\* A step that starts nothing and takes no abort back keeps it so.
LEMMA SameStaysReached ==
  ASSUME NEW v \in Instances, Reached(v), mode'[v] = mode[v],
         phase'[v] = phase[v], aborted[v] \subseteq aborted'[v]
  PROVE  Reached(v)'
BY DEF Reached, Active

\* The steps of a processExecution move one execution, or end it together with
\* its controller.
LEMMA ProcessStaysReached ==
  ASSUME TypeOK, NEW v \in Instances, Reached(v), NEW w \in Instances, NEW e \in Execs,
         Process(w, e)
  PROVE  Reached(v)'
<1>0. mode' = mode
  BY DEF Process, Advance, OnCancelMessage, CheckStatus, MarkRunning, NodesDone, NodesThrow,
         MarkCompleted, MarkFailed, Finish, TryFails, CatchFails
<1>1. CASE OnCancelMessage(w, e)
  <2>1. phase' = phase
    BY <1>1 DEF OnCancelMessage
  <2>2. aborted[v] \subseteq aborted'[v]
    BY <1>1 DEF OnCancelMessage, Abort, TypeOK
  <2> QED BY <1>0, <2>1, <2>2, SameStaysReached
<1>2. CASE Leave(w, e)
  <2>1. CASE v # w
    BY <1>0, <1>2, <2>1, SameStaysReached DEF Leave, Goto, TypeOK
  <2>2. CASE v = w
    <3>1. \A f \in Execs : phase'[v][f] = IF f = e THEN "idle" ELSE phase[v][f]
      BY <1>2, <2>2 DEF Leave, Goto, TypeOK
    <3>2. aborted'[v] = aborted[v] \ {e}
      BY <1>2, <2>2 DEF Leave, TypeOK
    <3>3. Active(v)' = Active(v) \ {e}
      BY <3>1 DEF Active
    <3> QED BY <1>0, <3>2, <3>3 DEF Reached
  <2> QED BY <2>1, <2>2
<1>3. CASE ~OnCancelMessage(w, e) /\ ~Leave(w, e)
  <2>1. aborted' = aborted
    BY <1>3 DEF Process, Advance, CheckStatus, MarkRunning, NodesDone, NodesThrow, MarkCompleted,
           MarkFailed, Finish, TryFails, CatchFails, Catch
  <2>2. PICK p \in Phase : phase' = [phase EXCEPT ![w][e] = p]
    BY <1>3, ProcessMoves
  <2>3. phase[w][e] # "idle"
    BY <1>3, ProcessMoves
  <2>4. \A f \in Execs : phase[v][f] = "idle" => phase'[v][f] = "idle"
    BY <2>2, <2>3 DEF TypeOK
  <2>5. Active(v)' \subseteq Active(v)
    BY <2>4 DEF Active
  <2> QED BY <1>0, <2>1, <2>5 DEF Reached
<1> QED BY <1>1, <1>2, <1>3

\* A poll that is still in flight on an instance whose shutdown is over can only be
\* rejected: its Redis client has quit.
LEMMA ReachedStays ==
  ASSUME TypeOK, NEW v \in Instances, Reached(v), Next
  PROVE  mode'[v] # "down" \/ Reached(v)'
<1>1. ASSUME NEW w \in Instances, Poll(w) PROVE Reached(v)'
  <2>1. mode' = mode /\ aborted' = aborted
    BY <1>1 DEF Poll, PollStart, PollReturns, PopPriority, PopRegular, PollFails, processing
  <2>2. phase'[v] = phase[v]
    <3>1. CASE w # v
      BY <1>1, <3>1 DEF Poll, PollStart, PollReturns, PopPriority, PopRegular, PollFails, Take,
         Launch, processing, TypeOK
    <3>2. CASE w = v
      BY <1>1, <3>2 DEF Poll, PollStart, PollReturns, PopPriority, PopRegular, PollFails,
         Connected, Reached, processing
    <3> QED BY <3>1, <3>2
  <2> QED BY <2>1, <2>2, SameStaysReached
<1>2. ASSUME NEW w \in Instances, Lifecycle(w) PROVE mode'[v] # "down" \/ Reached(v)'
  <2>1. CASE v # w
    <3>1. mode'[v] = mode[v] /\ phase'[v] = phase[v] /\ aborted'[v] = aborted[v]
      BY <1>2, <2>1 DEF Lifecycle, CloseRedis, BeginShutdown, EndShutdown, Exit, Crash, Restart,
         Forget, Abort, processing, TypeOK
    <3> QED BY <3>1, SameStaysReached
  <2>2. CASE v = w
    <3>1. Exit(w) \/ Crash(w)
      BY <1>2, <2>2 DEF Lifecycle, CloseRedis, BeginShutdown, EndShutdown, Restart, Reached
    <3>2. mode' = [mode EXCEPT ![w] = "exited"]
      BY <3>1 DEF Exit, Crash, Forget
    <3>3. mode'[v] = "exited"
      BY <2>2, <3>2 DEF TypeOK
    <3> QED BY <3>3
  <2> QED BY <2>1, <2>2
<1>3. ASSUME NEW w \in Instances, NEW e \in Execs, Request(w, e) PROVE Reached(v)'
  <2>1. mode' = mode /\ phase' = phase
    BY <1>3 DEF Request, CreateExecution, PushJob, PushFails, CancelCheck, CancelWrite,
                CancelExecution, processing
  <2>2. aborted' = aborted \/ Abort(w, {e})
    BY <1>3 DEF Request, CreateExecution, PushJob, PushFails, CancelCheck, CancelWrite,
                CancelExecution, processing
  <2>3. aborted[v] \subseteq aborted'[v]
    BY <2>2 DEF Abort, TypeOK
  <2> QED BY <2>1, <2>3, SameStaysReached
<1> QED BY <1>1, <1>2, <1>3, ProcessStaysReached DEF Next

\* The wait loop of a shutdown ends by aborting whatever is active.
LEMMA ShutdownReaches ==
  ASSUME TypeOK, NEW v \in Instances, Next, mode[v] # "down", mode'[v] = "down"
  PROVE  Reached(v)'
<1>0. mode' # mode
  BY DEF TypeOK
<1>1. PICK w \in Instances : Lifecycle(w)
  <2>1. ASSUME NEW w \in Instances, Poll(w) PROVE mode' = mode
    BY <2>1 DEF Poll, PollStart, PollReturns, PopPriority, PopRegular, PollFails
  <2>2. ASSUME NEW w \in Instances, NEW e \in Execs, Request(w, e) PROVE mode' = mode
    BY <2>2 DEF Request, CreateExecution, PushJob, PushFails, CancelCheck, CancelWrite,
                CancelExecution
  <2>3. ASSUME NEW w \in Instances, NEW e \in Execs, Process(w, e) PROVE mode' = mode
    BY <2>3 DEF Process, Advance, OnCancelMessage, CheckStatus, MarkRunning, NodesDone, NodesThrow,
       MarkCompleted, MarkFailed, Finish, TryFails, CatchFails
  <2> QED BY <1>0, <2>1, <2>2, <2>3 DEF Next
<1>2. EndShutdown(v)
  BY <1>1 DEF Lifecycle, CloseRedis, BeginShutdown, EndShutdown, Exit, Crash, Restart, Forget, TypeOK
<1>3. aborted'[v] = aborted[v] \cup Active(v) /\ phase' = phase
  BY <1>2 DEF EndShutdown, Abort, TypeOK
<1> QED BY <1>3 DEF Reached, Active

\* Once a shutdown is over, whatever still runs on the instance has been told to stop:
\* a poll in flight, which the shutdown does not wait for, cannot start anything.
THEOREM ShutdownHolds == Spec => []ShutdownReachesAll
<1>1. Init => ShutdownReachesAll
  BY DEF Init, ShutdownReachesAll
<1>2. TypeOK /\ ShutdownReachesAll /\ [Next]_vars => ShutdownReachesAll'
  <2> SUFFICES ASSUME TypeOK, ShutdownReachesAll, [Next]_vars, NEW v \in Instances,
                      mode'[v] = "down"
               PROVE  (Active(v) \subseteq aborted[v])'
    BY DEF ShutdownReachesAll
  <2>1. CASE UNCHANGED vars
    BY <2>1 DEF vars, processing, ShutdownReachesAll, Active
  <2>2. CASE Next /\ mode[v] = "down"
    BY <2>2, ReachedStays DEF Reached, ShutdownReachesAll
  <2>3. CASE Next /\ mode[v] # "down"
    BY <2>3, ShutdownReaches DEF Reached
  <2> QED BY <2>1, <2>2, <2>3
<1> QED BY <1>1, <1>2, TypeCorrect, PTL DEF Spec
=============================================================================
