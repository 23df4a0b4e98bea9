-------------------------- MODULE SubWorkflowProofs --------------------------
(***************************************************************************)
(* Type correctness and the safety properties of SubWorkflow, for any call *)
(* graph and any number of calls, faults and edits of the library.         *)
(*                                                                         *)
(* ReturnedIsWhole rests on two facts that only move one way: a settled    *)
(* call never leaves its stage, and a frame whose runner has ended makes   *)
(* no further call.  So what RunnerEnds finds settled below a frame is     *)
(* still settled when the frame's result is handed over.                   *)
(***************************************************************************)
EXTENDS SubWorkflow, TLAPS

\* The runner of a call ended well, with nothing open below it.
Whole(c) ==
    /\ runner[c] = "done"
    /\ \A d \in Made(c) : stage[d] \in Settled

\* The row of a call that returned, and whose it is if it is not COMPLETED.
RowOfResult(c) == row[c] = "COMPLETED" \/ (row[c] = "CANCELLED" /\ c \in cancelling)

\* A request to cancel a child, in one of its two steps.
Cancelling == \E c \in Calls : CancelCheck(c) \/ CancelWrite(c)

\* What a stage says of the row and of the frame of a call.
StageFacts ==
    \A c \in Calls :
        /\ stage[c] = "queueing" => ~call[c].awaited
        /\ stage[c] = "completing" => Whole(c)
        /\ row[c] = "COMPLETED" => stage[c] = "returned"
        /\ row[c] = "FAILED" => stage[c] = "threw"
        /\ c \in linked => stage[c] # "free"

IInv == TypeOK /\ StageFacts /\ ReturnedIsWhole /\ AbortReaches

-----------------------------------------------------------------------------
LEMMA FrameTypes == Calls \subseteq Frames /\ 0 \in Frames /\ 0 \notin Calls
BY BoundsAssumption DEF Calls, Frames

LEMMA RegistryTypes ==
  ASSUME RegistryTypeOK, RegistryNext
  PROVE  RegistryTypeOK'
<1> USE DEF RegistryTypeOK, Edits
<1>1. PICK w \in Workflows :
        \/ CreateChecks(w) \/ CreateInserts(w)
        \/ PublishFinds(w) \/ PublishUnmarks(w) \/ PublishInserts(w)
        \/ DeleteCounts(w) \/ DeleteRemoves(w)
        \/ \E p \in Workflows : RecordUsage(p, w) \/ RemoveUsage(p, w)
  BY DEF RegistryNext
<1>2. CASE CreateChecks(w) \/ PublishFinds(w) \/ DeleteCounts(w)
  BY <1>2 DEF CreateChecks, PublishFinds, DeleteCounts, Begins
<1>3. CASE CreateInserts(w) \/ PublishInserts(w)
  BY <1>3 DEF CreateInserts, PublishInserts, Ends
<1>4. CASE PublishUnmarks(w)
  BY <1>4 DEF PublishUnmarks
<1>5. CASE DeleteRemoves(w)
  BY <1>5 DEF DeleteRemoves
<1>6. CASE \E p \in Workflows : RecordUsage(p, w) \/ RemoveUsage(p, w)
  BY <1>6 DEF RecordUsage, RemoveUsage
<1> QED BY <1>1, <1>2, <1>3, <1>4, <1>5, <1>6

LEMMA TypeNext == TypeOK /\ [Next]_vars => TypeOK'
<1> SUFFICES ASSUME TypeOK, [Next]_vars PROVE TypeOK'
  OBVIOUS
<1> USE FrameTypes DEF TypeOK
<1>1. ASSUME NEW c \in Calls, CallStep(c)
      PROVE  TypeOK'
  <2> USE DEF Goto, SetRow, Fault, Stages, registryVars, RegistryTypeOK
  <2>f. ASSUME Fault PROVE faults' \in 0 .. MaxFaults
    BY <2>f, BoundsAssumption DEF Fault
  <2>1. CASE Load(c) \/ Queue(c)
    BY <2>1, <2>f DEF Load, Queue
  <2>2. CASE CreateRow(c)
    BY <2>2, <2>f DEF CreateRow, Link
  <2>3. CASE MarkRunning(c) \/ StartRace(c)
    BY <2>3, <2>f DEF MarkRunning, StartRace
  <2>4. CASE TimerFires(c)
    BY <2>4 DEF TimerFires
  <2>5. CASE MarkCompleted(c) \/ MarkFailed(c)
    BY <2>5, <2>f DEF MarkCompleted, MarkFailed
  <2> QED BY <1>1, <2>1, <2>2, <2>3, <2>4, <2>5 DEF CallStep
<1>2. ASSUME NEW c \in Calls, NEW f \in Frames, NEW w \in Workflows, Begin(c, f, w)
      PROVE  TypeOK'
  <2>1. PICK awaited \in BOOLEAN, pinned \in BOOLEAN :
          call' = [call EXCEPT ![c] = [by |-> f, of |-> w, awaited |-> awaited, pinned |-> pinned]]
    BY <1>2 DEF Begin
  <2>2. call' \in [Calls -> [by : Frames, of : Workflows, awaited : BOOLEAN, pinned : BOOLEAN]]
    BY <2>1
  <2> QED BY <1>2, <2>2 DEF Begin, Goto, Stages, registryVars, RegistryTypeOK
<1>3. ASSUME NEW f \in Frames, RunnerEnds(f)
      PROVE  TypeOK'
  <2>1. PICK end \in {"done", "threw"} :
          /\ runner' = [runner EXCEPT ![f] = end]
          /\ IF f # 0 /\ stage[f] = "racing"
             THEN Goto(f, IF end = "done" THEN "completing" ELSE "failing")
             ELSE UNCHANGED stage
    BY <1>3 DEF RunnerEnds
  <2>2. stage' \in [Calls -> Stages]
    BY <2>1 DEF Goto, Stages
  <2> QED BY <1>3, <2>1, <2>2 DEF RunnerEnds, registryVars, RegistryTypeOK
<1>4. CASE Abort
  BY <1>4 DEF Abort, Reached, Calls, Frames, registryVars, RegistryTypeOK
<1>5. CASE RegistryNext /\ UNCHANGED callVars
  BY <1>5, RegistryTypes DEF callVars
<1>6. CASE UNCHANGED vars
  BY <1>6 DEF vars, callVars, registryVars, RegistryTypeOK
<1>7. ASSUME NEW c \in Calls, CancelCheck(c) \/ CancelWrite(c)
      PROVE  TypeOK'
  BY <1>7 DEF CancelCheck, CancelWrite, SetRow, registryVars, RegistryTypeOK
<1> QED BY <1>1, <1>2, <1>3, <1>4, <1>5, <1>6, <1>7 DEF Next

-----------------------------------------------------------------------------
\* A settled call never leaves its stage.
LEMMA SettledStays ==
  ASSUME TypeOK, [Next]_vars, NEW c \in Calls, stage[c] \in Settled
  PROVE  stage'[c] = stage[c]
<1> USE DEF TypeOK, Settled, Goto
<1>1. ASSUME NEW d \in Calls, CallStep(d) PROVE stage'[c] = stage[c]
  BY <1>1 DEF CallStep, Load, CreateRow, Queue, MarkRunning, StartRace, TimerFires,
              MarkCompleted, MarkFailed
<1>2. ASSUME NEW d \in Calls, NEW f \in Frames, NEW w \in Workflows, Begin(d, f, w)
      PROVE  stage'[c] = stage[c]
  BY <1>2 DEF Begin
<1>3. ASSUME NEW f \in Frames, RunnerEnds(f) PROVE stage'[c] = stage[c]
  BY <1>3 DEF RunnerEnds
<1>4. CASE Abort \/ Cancelling \/ (RegistryNext /\ UNCHANGED callVars) \/ UNCHANGED vars
  BY <1>4 DEF Abort, Cancelling, CancelCheck, CancelWrite, vars, callVars
<1> QED BY <1>1, <1>2, <1>3, <1>4 DEF Next, Cancelling

\* A frame whose runner ended well has made its last call.
LEMMA WholeStays ==
  ASSUME TypeOK, [Next]_vars, NEW c \in Calls, Whole(c), stage[c] # "preparing"
  PROVE  Whole(c)'
<1> USE DEF TypeOK
<1>1. \A d \in Calls : stage[d] \in Settled => stage'[d] \in Settled
  BY SettledStays
<1>2. runner'[c] = "done" /\ Made(c)' \subseteq Made(c)
  <2> USE DEF Made, Whole
  <2>1. ASSUME NEW d \in Calls, CallStep(d) PROVE runner'[c] = "done" /\ Made(c)' \subseteq Made(c)
    <3>1. call' = call /\ stage[d] # "free" /\ \A e \in Calls \ {d} : stage'[e] = stage[e]
      BY <2>1 DEF CallStep, Load, CreateRow, Queue, MarkRunning, StartRace, TimerFires,
                  MarkCompleted, MarkFailed, Goto
    <3>2. runner'[c] = "done"
      BY <2>1, FrameTypes DEF CallStep, Load, CreateRow, Queue, MarkRunning, StartRace, TimerFires,
                  MarkCompleted, MarkFailed, Goto
    <3> QED BY <3>1, <3>2
  <2>2. ASSUME NEW d \in Calls, NEW f \in Frames, NEW w \in Workflows, Begin(d, f, w)
        PROVE  runner'[c] = "done" /\ Made(c)' \subseteq Made(c)
    <3>1. PICK r \in [by : {f}, of : Workflows, awaited : BOOLEAN, pinned : BOOLEAN] :
            call' = [call EXCEPT ![d] = r]
      BY <2>2 DEF Begin
    <3>2. f # c /\ runner' = runner /\ \A e \in Calls \ {d} : stage'[e] = stage[e]
      BY <2>2 DEF Begin, Goto
    <3> QED BY <3>1, <3>2
  <2>3. ASSUME NEW f \in Frames, RunnerEnds(f) PROVE runner'[c] = "done" /\ Made(c)' \subseteq Made(c)
    <3>1. call' = call /\ f # c /\ \A e \in Calls : stage[e] = "free" => stage'[e] = "free"
      BY <2>3 DEF RunnerEnds, Goto
    <3> QED BY <2>3, <3>1, FrameTypes DEF RunnerEnds
  <2>4. CASE Abort \/ Cancelling \/ (RegistryNext /\ UNCHANGED callVars) \/ UNCHANGED vars
    BY <2>4 DEF Abort, Cancelling, CancelCheck, CancelWrite, vars, callVars
  <2> QED BY <2>1, <2>2, <2>3, <2>4 DEF Next, Cancelling
<1>3. \A d \in Made(c)' : d \in Calls
  BY DEF Made
<1> QED BY <1>1, <1>2, <1>3 DEF Whole

LEMMA StageFactsNext == IInv /\ [Next]_vars => StageFacts' /\ ReturnedIsWhole'
<1> SUFFICES ASSUME IInv, [Next]_vars, NEW c \in Calls
             PROVE  /\ stage'[c] = "queueing" => ~call'[c].awaited
                    /\ stage'[c] = "completing" => Whole(c)'
                    /\ row'[c] = "COMPLETED" => stage'[c] = "returned"
                    /\ row'[c] = "FAILED" => stage'[c] = "threw"
                    /\ c \in linked' => stage'[c] # "free"
                    /\ stage'[c] = "returned" /\ call'[c].awaited => RowOfResult(c)' /\ Whole(c)'
  BY DEF StageFacts, ReturnedIsWhole, Whole, RowOfResult
<1> USE DEF IInv, TypeOK
<1>0. /\ stage[c] = "queueing" => ~call[c].awaited
      /\ stage[c] = "completing" => Whole(c)
      /\ row[c] = "COMPLETED" => stage[c] = "returned"
      /\ row[c] = "FAILED" => stage[c] = "threw"
      /\ c \in linked => stage[c] # "free"
      /\ stage[c] = "returned" /\ call[c].awaited => RowOfResult(c) /\ Whole(c)
  BY DEF StageFacts, ReturnedIsWhole, Whole, RowOfResult
<1>w. Whole(c) /\ stage[c] # "preparing" => Whole(c)'
  BY WholeStays
<1>1. ASSUME NEW d \in Calls, CallStep(d)
      PROVE  /\ stage'[c] = "queueing" => ~call'[c].awaited
             /\ stage'[c] = "completing" => stage[c] = "completing"
             /\ row'[c] = "COMPLETED" => stage'[c] = "returned"
             /\ row'[c] = "FAILED" => stage'[c] = "threw"
             /\ c \in linked' => stage'[c] # "free"
             /\ stage'[c] = "returned" /\ call'[c].awaited =>
                  /\ RowOfResult(c)'
                  /\ \/ stage[c] = "returned" /\ call[c].awaited
                     \/ stage[c] = "completing"
  <2> USE DEF Goto, SetRow, RowOfResult
  <2>1. CASE Load(d) \/ Queue(d) \/ TimerFires(d)
    BY <1>0, <2>1 DEF Load, Queue, TimerFires
  <2>2. CASE CreateRow(d)
    BY <1>0, <2>2 DEF CreateRow, Link
  <2>3. CASE MarkRunning(d) \/ StartRace(d)
    BY <1>0, <2>3 DEF MarkRunning, StartRace
  <2>4. CASE MarkCompleted(d) \/ MarkFailed(d)
    BY <1>0, <2>4 DEF MarkCompleted, MarkFailed
  <2> QED BY <1>1, <2>1, <2>2, <2>3, <2>4 DEF CallStep
<1>2. ASSUME NEW d \in Calls, NEW f \in Frames, NEW w \in Workflows, Begin(d, f, w)
      PROVE  /\ row'[c] = row[c] /\ linked' = linked /\ cancelling' = cancelling
             /\ \/ stage'[c] = stage[c] /\ call'[c] = call[c]
                \/ stage'[c] = "loading" /\ stage[c] = "free"
  BY <1>2 DEF Begin, Goto
<1>3. ASSUME NEW f \in Frames, RunnerEnds(f)
      PROVE  /\ row'[c] = row[c] /\ call'[c] = call[c] /\ linked' = linked
             /\ cancelling' = cancelling
             /\ \/ stage'[c] = stage[c]
                \/ stage[c] = "racing" /\ stage'[c] = "failing"
                \/ stage[c] = "racing" /\ stage'[c] = "completing" /\ Whole(c)'
  <2>1. PICK end \in {"done", "threw"} :
          /\ runner' = [runner EXCEPT ![f] = end]
          /\ IF f # 0 /\ stage[f] = "racing"
             THEN Goto(f, IF end = "done" THEN "completing" ELSE "failing")
             ELSE UNCHANGED stage
    BY <1>3 DEF RunnerEnds
  <2>2. row' = row /\ call' = call /\ linked' = linked /\ cancelling' = cancelling
    BY <1>3 DEF RunnerEnds
  <2>3. CASE stage'[c] = stage[c]
    BY <2>2, <2>3
  <2>4. CASE stage'[c] # stage[c]
    <3>1. f = c /\ stage[c] = "racing" /\ stage' = [stage EXCEPT ![c] = IF end = "done" THEN "completing" ELSE "failing"]
      BY <2>1, <2>4 DEF Goto
    <3>2. \A d \in Made(c) : stage[d] \in Settled
      BY <1>3, <3>1 DEF RunnerEnds
    <3>3. Made(c)' \subseteq Made(c) /\ \A d \in Made(c)' : d \in Calls
      BY <2>2, <3>1 DEF Made
    <3>4. \A d \in Made(c)' : stage'[d] \in Settled
      BY <3>2, <3>3, SettledStays
    <3>5. end = "done" => Whole(c)'
      BY <2>1, <3>1, <3>4, FrameTypes DEF Whole
    <3> QED BY <2>2, <3>1, <3>5
  <2> QED BY <2>3, <2>4
<1>4. CASE Abort \/ (RegistryNext /\ UNCHANGED callVars) \/ UNCHANGED vars
  BY <1>0, <1>w, <1>4 DEF Abort, vars, callVars, RowOfResult
<1>9. CASE Cancelling
  <2>1. /\ UNCHANGED <<call, stage, linked>>
        /\ c \in cancelling => c \in cancelling'
        /\ row'[c] = row[c] \/ (row'[c] = "CANCELLED" /\ c \in cancelling')
    BY <1>9 DEF Cancelling, CancelCheck, CancelWrite, SetRow
  <2> QED BY <1>0, <1>w, <2>1 DEF RowOfResult
<1>5. ASSUME NEW d \in Calls, CallStep(d)
      PROVE  /\ stage'[c] = "completing" => Whole(c)'
             /\ stage'[c] = "returned" /\ call'[c].awaited => Whole(c)'
  BY <1>0, <1>w, <1>1, <1>5
<1>6. CASE \E d \in Calls : CallStep(d)
  BY <1>1, <1>5, <1>6
<1>7. CASE \E d \in Calls, f \in Frames, w \in Workflows : Begin(d, f, w)
  BY <1>0, <1>w, <1>2, <1>7 DEF RowOfResult
<1>8. CASE \E f \in Frames : RunnerEnds(f)
  BY <1>0, <1>w, <1>3, <1>8 DEF RowOfResult
<1> QED BY <1>4, <1>6, <1>7, <1>8, <1>9 DEF Next, Cancelling

-----------------------------------------------------------------------------
\* An abort reaches every call whose listener hangs on a frame it reaches.
LEMMA ReachedIsClosed ==
  ASSUME NEW c \in linked, linked \subseteq Calls, call[c].by \in Reached \union {0}
  PROVE  c \in Reached
<1> SUFFICES ASSUME NEW S \in SUBSET Calls,
                    \A d \in linked : call[d].by \in S \union {0} => d \in S
             PROVE  c \in S
  BY DEF Reached
<1> QED BY DEF Reached

LEMMA AbortReachesNext == IInv /\ [Next]_vars => AbortReaches'
<1> SUFFICES ASSUME IInv, [Next]_vars PROVE AbortReaches'
  OBVIOUS
<1> USE DEF IInv, TypeOK, AbortReaches
<1>1. ASSUME NEW c \in Calls, CallStep(c) PROVE AbortReaches'
  <2>1. CASE CreateRow(c)
    BY <2>1 DEF CreateRow, Link
  <2>2. CASE ~CreateRow(c)
    BY <1>1, <2>2 DEF CallStep, Load, Queue, MarkRunning, StartRace, TimerFires,
                      MarkCompleted, MarkFailed
  <2> QED BY <2>1, <2>2
<1>2. ASSUME NEW c \in Calls, NEW f \in Frames, NEW w \in Workflows, Begin(c, f, w)
      PROVE  AbortReaches'
  <2>1. c \notin linked
    BY <1>2 DEF Begin, StageFacts
  <2> QED BY <1>2, <2>1 DEF Begin
<1>3. ASSUME NEW f \in Frames, RunnerEnds(f) PROVE AbortReaches'
  BY <1>3 DEF RunnerEnds
<1>4. CASE Abort
  BY <1>4, ReachedIsClosed DEF Abort
<1>5. CASE Cancelling \/ (RegistryNext /\ UNCHANGED callVars) \/ UNCHANGED vars
  BY <1>5 DEF Cancelling, CancelCheck, CancelWrite, vars, callVars
<1> QED BY <1>1, <1>2, <1>3, <1>4, <1>5 DEF Next, Cancelling

-----------------------------------------------------------------------------
LEMMA InitIInv == Init => IInv
<1> SUFFICES ASSUME Init PROVE IInv
  OBVIOUS
<1> USE FrameTypes DEF Init, RegistryInit
<1>1. TypeOK
  BY TopAssumption, BoundsAssumption DEF TypeOK, RegistryTypeOK, NoCall, Stages
<1>2. StageFacts /\ ReturnedIsWhole /\ AbortReaches
  BY DEF StageFacts, ReturnedIsWhole, AbortReaches
<1> QED BY <1>1, <1>2 DEF IInv

\* The inductive invariant of executeSubWorkflow and of the library it reads.
THEOREM Invariant == Spec => []IInv
<1>1. IInv /\ [Next]_vars => IInv'
  BY TypeNext, StageFactsNext, AbortReachesNext DEF IInv
<1> QED BY InitIInv, <1>1, PTL DEF Spec

\* Calls, rows, frames and the library keep their types.
THEOREM TypeCorrect == Spec => []TypeOK
<1>1. IInv => TypeOK
  BY DEF IInv
<1> QED BY <1>1, Invariant, PTL

\* A result handed to the caller has nothing open below it, and a COMPLETED row or one
\* that a cancel() has written over.
THEOREM ResultsAreWhole == Spec => []ReturnedIsWhole
<1>1. IInv => ReturnedIsWhole
  BY DEF IInv
<1> QED BY <1>1, Invariant, PTL

\* An abort reaches every call linked before it, at any depth.
THEOREM AbortsReach == Spec => []AbortReaches
<1>1. IInv => AbortReaches
  BY DEF IInv
<1> QED BY <1>1, Invariant, PTL

\* No late runner, timer, abort or edit rewrites a final row, and no cancel() but one
\* that had read the row before it was final.
THEOREM FinalRows == Spec => FinalRowStays
<1>1. IInv /\ [Next]_vars =>
        [\A c \in Calls : row[c] \in {"COMPLETED", "FAILED"} =>
            row'[c] = row[c] \/ (row'[c] = "CANCELLED" /\ c \in cancelling)]_vars
  <2> SUFFICES ASSUME IInv, [Next]_vars, NEW c \in Calls, row[c] \in {"COMPLETED", "FAILED"}
               PROVE  row'[c] = row[c] \/ (row'[c] = "CANCELLED" /\ c \in cancelling)
    OBVIOUS
  <2> USE DEF IInv, TypeOK
  <2>1. stage[c] \in Settled
    BY DEF StageFacts, Settled
  <2>2. ASSUME NEW d \in Calls, CallStep(d) PROVE row'[c] = row[c]
    BY <2>1, <2>2 DEF CallStep, Load, CreateRow, Queue, MarkRunning, StartRace, TimerFires,
                      MarkCompleted, MarkFailed, SetRow, Settled
  <2>3. CASE Cancelling
    BY <2>3 DEF Cancelling, CancelCheck, CancelWrite, SetRow
  <2>4. CASE ~Cancelling /\ ~\E d \in Calls : CallStep(d)
    BY <2>4 DEF Next, Cancelling, Begin, RunnerEnds, Abort, vars, callVars
  <2> QED BY <2>2, <2>3, <2>4
<1> QED BY <1>1, Invariant, PTL DEF Spec, FinalRowStays

-----------------------------------------------------------------------------
(* Each frame is one ExecutorFrame promises.                               *)

\* The runner of a call does not exist before the race is started.
Unstarted ==
    \A c \in Calls :
        stage[c] \in {"free", "loading", "creating", "queueing", "starting", "preparing"} =>
            runner[c] = "none"

\* What a step of a call does to the frames.
LEMMA CallFrames ==
  ASSUME TypeOK, Unstarted, NEW c \in Calls, CallStep(c)
  PROVE  /\ call' = call
         /\ \E s \in Stages \ {"free"} : Goto(c, s)
         /\ stage[c] \notin Settled \cup {"free"}
         /\ \/ UNCHANGED runner
            \/ /\ stage[c] = "preparing" /\ Goto(c, "racing")
               /\ runner' = [runner EXCEPT ![c] = "working"]
BY DEF CallStep, Load, CreateRow, Queue, MarkRunning, StartRace, TimerFires,
       MarkCompleted, MarkFailed, Settled, Stages

LEMMA UnstartedNext == TypeOK /\ Unstarted /\ [Next]_vars => Unstarted'
<1> SUFFICES ASSUME TypeOK, Unstarted, [Next]_vars PROVE Unstarted'
  OBVIOUS
<1> USE FrameTypes DEF TypeOK, Unstarted, Goto
<1>1. ASSUME NEW c \in Calls, CallStep(c) PROVE Unstarted'
  <2>1. UNCHANGED runner \/ StartRace(c)
    BY <1>1 DEF CallStep, Load, CreateRow, Queue, MarkRunning, TimerFires, MarkCompleted, MarkFailed
  <2>2. CASE StartRace(c)
    BY <2>2 DEF StartRace
  <2>3. CASE UNCHANGED runner
    BY <1>1, <2>3 DEF CallStep, Load, CreateRow, Queue, MarkRunning, StartRace, TimerFires,
                      MarkCompleted, MarkFailed
  <2> QED BY <2>1, <2>2, <2>3
<1>2. ASSUME NEW c \in Calls, NEW f \in Frames, NEW w \in Workflows, Begin(c, f, w)
      PROVE  Unstarted'
  BY <1>2 DEF Begin
<1>3. ASSUME NEW f \in Frames, RunnerEnds(f) PROVE Unstarted'
  BY <1>3 DEF RunnerEnds
<1>4. CASE Abort \/ Cancelling \/ (RegistryNext /\ UNCHANGED callVars) \/ UNCHANGED vars
  BY <1>4 DEF Abort, Cancelling, CancelCheck, CancelWrite, vars, callVars
<1> QED BY <1>1, <1>2, <1>3, <1>4 DEF Next, Cancelling

\* A step of a call settles it for its caller, or starts its own frame, or nothing.
LEMMA CallInFrame ==
  ASSUME TypeOK, Unstarted, NEW c \in Calls, CallStep(c), NEW f \in Frames
  PROVE  [Frame(f)!Next]_(Frame(f)!vars)
<1>1. PICK s \in Stages \ {"free"} : Goto(c, s)
  BY CallFrames
<1>2. stage[c] \notin Settled \cup {"free"} /\ call' = call
  BY CallFrames
<1>3. \A d \in Calls : stage'[d] = IF d = c THEN s ELSE stage[d]
  BY <1>1 DEF TypeOK, Goto
<1>4. Open(f)' = IF s \in Settled /\ call[c].by = f THEN Open(f) \ {c} ELSE Open(f)
  BY <1>2, <1>3 DEF Open, Made, Settled
<1>5. c \in Open(f) <=> call[c].by = f
  BY <1>2 DEF Open, Made
<1>6. CASE runner'[f] = runner[f]
  <2>1. CASE s \in Settled /\ call[c].by = f
    <3>1. Frame(f)!Settle(c)
      BY <1>4, <1>5, <1>6, <2>1 DEF Frame!Settle
    <3> QED BY <3>1 DEF Frame!Next
  <2>2. CASE ~(s \in Settled /\ call[c].by = f)
    BY <1>4, <1>6, <2>2 DEF Frame!vars
  <2> QED BY <2>1, <2>2
<1>7. CASE runner'[f] # runner[f]
  <2>1. f = c /\ stage[c] = "preparing" /\ Goto(c, "racing") /\ runner'[f] = "working"
    BY <1>7, CallFrames DEF TypeOK
  <2>2. runner[f] = "none" /\ s = "racing"
    BY <1>3, <2>1 DEF Unstarted, Goto, TypeOK
  <2>3. Frame(f)!Start
    BY <1>4, <2>1, <2>2 DEF Frame!Start, Settled
  <2> QED BY <2>3 DEF Frame!Next
<1> QED BY <1>6, <1>7

\* A call that begins is a call its frame opens, and no other frame's affair.
LEMMA BeginInFrame ==
  ASSUME TypeOK, NEW c \in Calls, NEW g \in Frames, NEW w \in Workflows, Begin(c, g, w),
         NEW f \in Frames
  PROVE  [Frame(f)!Next]_(Frame(f)!vars)
<1>1. PICK r \in [by : {g}, of : Workflows, awaited : BOOLEAN, pinned : BOOLEAN] :
        call' = [call EXCEPT ![c] = r]
  BY DEF Begin
<1>2. stage[c] = "free" /\ runner[g] = "working" /\ UNCHANGED runner
  BY DEF Begin
<1>3. \A d \in Calls : /\ stage'[d] = IF d = c THEN "loading" ELSE stage[d]
                       /\ call'[d].by = IF d = c THEN g ELSE call[d].by
  BY <1>1 DEF Begin, Goto, TypeOK
<1>4. Open(f)' = IF f = g THEN Open(f) \cup {c} ELSE Open(f)
  BY <1>2, <1>3 DEF Open, Made, Settled
<1>5. c \notin Open(f)
  BY <1>2 DEF Open, Made
<1>6. CASE f = g
  <2>1. Frame(f)!Ask(c)
    BY <1>2, <1>4, <1>5, <1>6 DEF Frame!Ask
  <2> QED BY <2>1 DEF Frame!Next
<1>7. CASE f # g
  BY <1>2, <1>4, <1>7 DEF Frame!vars
<1> QED BY <1>6, <1>7

\* A frame that ends has nothing open, and none of the others notices more than a stage.
LEMMA EndInFrame ==
  ASSUME TypeOK, NEW g \in Frames, RunnerEnds(g), NEW f \in Frames
  PROVE  [Frame(f)!Next]_(Frame(f)!vars)
<1>1. /\ runner[g] = "working" /\ call' = call
      /\ \E end \in {"done", "threw"} : runner' = [runner EXCEPT ![g] = end]
      /\ Open(g) = {}
  BY DEF RunnerEnds, Open
<1>2. \A d \in Calls : stage'[d] = stage[d]
                       \/ (stage[d] = "racing" /\ stage'[d] \in {"completing", "failing"})
  BY DEF RunnerEnds, Goto, TypeOK
<1>3. Open(f)' = Open(f)
  BY <1>1, <1>2 DEF Open, Made, Settled
<1>4. CASE f = g
  <2>1. runner'[f] \in {"done", "threw"}
    BY <1>1, <1>4 DEF TypeOK
  <2>2. Frame(f)!End
    BY <1>1, <1>3, <1>4, <2>1 DEF Frame!End
  <2> QED BY <2>2 DEF Frame!Next
<1>5. CASE f # g
  <2>1. runner'[f] = runner[f]
    BY <1>1, <1>5 DEF TypeOK
  <2> QED BY <1>3, <2>1 DEF Frame!vars
<1> QED BY <1>4, <1>5

\* Nested calls, their timers, failures and aborts keep in every frame the order that
\* module BranchExecutor keeps in one.
THEOREM FramesAreExecutors == Spec => FramesSpec
<1>1. Init => Unstarted /\ \A f \in Frames : Frame(f)!Init
  <2> SUFFICES ASSUME Init PROVE Unstarted /\ \A f \in Frames : Frame(f)!Init
    OBVIOUS
  <2>1. \A f \in Frames : Open(f) = {}
    BY DEF Init, Open, Made
  <2>2. \A f \in Frames : runner[f] \in {"none", "working"}
    BY DEF Init
  <2>3. Unstarted
    BY FrameTypes DEF Init, Unstarted
  <2> QED BY <2>1, <2>2, <2>3 DEF Frame!Init
<1>2. IInv /\ Unstarted /\ [Next]_vars => Unstarted'
  BY UnstartedNext DEF IInv
<1>3. IInv /\ Unstarted /\ [Next]_vars =>
        [\A f \in Frames : [Frame(f)!Next]_(Frame(f)!vars)]_vars
  <2> SUFFICES ASSUME TypeOK, Unstarted, Next, NEW f \in Frames
               PROVE  [Frame(f)!Next]_(Frame(f)!vars)
    BY DEF IInv
  <2>1. CASE Abort \/ Cancelling \/ (RegistryNext /\ UNCHANGED callVars)
    <3>1. UNCHANGED <<call, stage, runner>>
      BY <2>1 DEF Abort, Cancelling, CancelCheck, CancelWrite, callVars
    <3> QED BY <3>1 DEF Frame!vars, Open, Made
  <2> QED BY <2>1, CallInFrame, BeginInFrame, EndInFrame DEF Next, Cancelling
<1> QED BY <1>1, <1>2, <1>3, Invariant, PTL DEF Spec, FramesSpec

-----------------------------------------------------------------------------
\* An abort of the execution reaches every call chained to it, at any depth.
THEOREM AbortsGoDown == Spec => []AbortGoesDown
<1>1. IInv => AbortGoesDown
  <2> SUFFICES ASSUME IInv, 0 \in aborted, NEW c \in Chained PROVE c \in aborted
    BY DEF AbortGoesDown
  <2> DEFINE S == aborted \cap Calls
  <2>1. \A d \in linked \ late : call[d].by \in S \union {0} => d \in S
    BY DEF IInv, AbortReaches, TypeOK
  <2>2. S \in SUBSET Calls
    OBVIOUS
  <2>3. c \in S
    BY <2>1, <2>2 DEF Chained
  <2> QED BY <2>3
<1> QED BY <1>1, Invariant, PTL

\* Whoever is faster, a call only comes nearer to its end.
THEOREM CallsGoOn == Spec => CallsDescend
<1>1. IInv /\ [Next]_vars =>
        [\A c \in Calls : stage'[c] # stage[c] => StagesLeft(c)' < StagesLeft(c)]_vars
  <2> SUFFICES ASSUME IInv, Next, NEW c \in Calls, stage'[c] # stage[c]
               PROVE  StagesLeft(c)' < StagesLeft(c)
    OBVIOUS
  <2>1. stage \in [Calls -> Stages]
    BY DEF IInv, TypeOK
  <2> USE DEF StagesLeft, Settled, Goto
  <2>2. ASSUME NEW d \in Calls, NEW s \in Stages, Goto(d, s) PROVE d = c /\ stage'[c] = s
    BY <2>1, <2>2
  <2>3. ASSUME NEW d \in Calls, CallStep(d) PROVE StagesLeft(c)' < StagesLeft(c)
    <3>1. PICK s \in Stages :
              /\ Goto(d, s)
              /\ \/ stage[d] = "loading" /\ s \in {"creating", "threw"}
                 \/ stage[d] = "creating" /\ s \in {"starting", "queueing", "threw"}
                 \/ stage[d] = "queueing" /\ s \in {"returned", "threw"}
                 \/ stage[d] = "starting" /\ s \in {"preparing", "failing"}
                 \/ stage[d] = "preparing" /\ s \in {"racing", "failing"}
                 \/ stage[d] = "racing" /\ s = "failing"
                 \/ stage[d] = "completing" /\ s \in {"returned", "failing"}
                 \/ stage[d] = "failing" /\ s = "threw"
      BY <2>3 DEF CallStep, Load, CreateRow, Queue, MarkRunning, StartRace, TimerFires,
                  MarkCompleted, MarkFailed, Stages
    <3>2. d = c /\ stage'[c] = s
      BY <2>2, <3>1
    <3> QED BY <3>1, <3>2
  <2>4. ASSUME NEW d \in Calls, NEW f \in Frames, NEW w \in Workflows, Begin(d, f, w)
        PROVE  StagesLeft(c)' < StagesLeft(c)
    <3>1. stage[d] = "free" /\ Goto(d, "loading")
      BY <2>4 DEF Begin
    <3>2. d = c /\ stage'[c] = "loading"
      BY <2>2, <3>1 DEF Stages
    <3> QED BY <3>1, <3>2
  <2>5. ASSUME NEW f \in Frames, RunnerEnds(f) PROVE StagesLeft(c)' < StagesLeft(c)
    <3>1. f # 0 /\ stage[f] = "racing" /\ \E s \in {"completing", "failing"} : Goto(f, s)
      BY <2>5 DEF RunnerEnds
    <3>2. f \in Calls
      BY <3>1, BoundsAssumption DEF Frames, Calls
    <3>3. f = c /\ stage'[c] \in {"completing", "failing"}
      BY <2>2, <3>1, <3>2 DEF Stages
    <3> QED BY <3>1, <3>3
  <2>6. CASE Abort \/ Cancelling \/ (RegistryNext /\ UNCHANGED callVars)
    BY <2>6 DEF Abort, Cancelling, CancelCheck, CancelWrite, callVars
  <2> QED BY <2>3, <2>4, <2>5, <2>6 DEF Next, Cancelling
<1> QED BY <1>1, Invariant, PTL DEF Spec, CallsDescend

-----------------------------------------------------------------------------
\* The latest version that a publish has taken the mark from does not come back.
THEOREM StaleForGood == Spec => StaleStays
<1>1. TypeOK /\ [Next]_vars =>
        [\A w \in Workflows : registry[w] = "stale" => registry'[w] \in {"stale", "none"}]_registryVars
  <2> SUFFICES ASSUME TypeOK, [Next]_vars, NEW w \in Workflows, registry[w] = "stale"
               PROVE  registry'[w] \in {"stale", "none"}
    OBVIOUS
  <2> USE DEF TypeOK, RegistryTypeOK
  <2>1. CASE RegistryNext
    <3>1. PICK v \in Workflows :
            \/ CreateChecks(v) \/ CreateInserts(v)
            \/ PublishFinds(v) \/ PublishUnmarks(v) \/ PublishInserts(v)
            \/ DeleteCounts(v) \/ DeleteRemoves(v)
            \/ \E p \in Workflows : RecordUsage(p, v) \/ RemoveUsage(p, v)
      BY <2>1 DEF RegistryNext
    <3>2. CASE CreateInserts(v) \/ PublishInserts(v)
      BY <3>2 DEF CreateInserts, PublishInserts
    <3>3. CASE PublishUnmarks(v) \/ DeleteRemoves(v)
      BY <3>3 DEF PublishUnmarks, DeleteRemoves
    <3> QED BY <3>1, <3>2, <3>3 DEF CreateChecks, PublishFinds, DeleteCounts, RecordUsage, RemoveUsage
  <2>2. CASE UNCHANGED registry
    BY <2>2
  <2> QED BY <2>1, <2>2 DEF Next, CallStep, Load, CreateRow, Queue, MarkRunning, StartRace,
     TimerFires, MarkCompleted, MarkFailed, Begin, RunnerEnds, Abort, CancelCheck, CancelWrite,
     vars, registryVars
<1> QED BY <1>1, TypeCorrect, PTL DEF Spec, StaleStays
=============================================================================
