------------------------ MODULE BranchExecutorProofs ------------------------
(***************************************************************************)
(* Theorems about BranchExecutor, for every graph, width, checkpoint       *)
(* interval and number of faults: among them, that it implements Dataflow. *)
(***************************************************************************)
EXTENDS BranchExecutor, FiniteSetTheorems, TLAPS

-----------------------------------------------------------------------------
(* Types.                                                                  *)

LEMMA TypeInit == Init => TypeOK
<1> SUFFICES ASSUME Init PROVE TypeOK
  OBVIOUS
<1>1. [n \in Nodes |-> "none"] \in HandleMap
  BY DEF HandleMap
<1>2. checkpoint \in [nodes : SUBSET Nodes, handle : HandleMap]
  BY <1>1 DEF Init
<1>3. /\ stage \in [Nodes -> Stages] /\ log \in [Nodes -> Logs] /\ handle \in HandleMap
      /\ message \in [Nodes -> Messages \cup {"none"}]
  BY <1>1 DEF Init, Stages, Logs
<1> QED BY <1>2, <1>3, FaultAssumption DEF Init, TypeOK, Points

\* A step of executeNode changes one node's stage, message, row and output.
LEMMA NodeTypes ==
  ASSUME TypeOK, NEW n \in Nodes, ExecuteNode(n)
  PROVE  /\ \E s \in Stages \ {"idle", "logging"} : stage' = [stage EXCEPT ![n] = s]
         /\ message' = message \/ \E m \in Messages : message' = [message EXCEPT ![n] = m]
         /\ log' = log \/ \E l \in Logs : log' = [log EXCEPT ![n] = l]
         /\ handle' = handle \/ \E h \in OutputHandles : handle' = [handle EXCEPT ![n] = h]
         /\ stage[n] \notin {"idle", "ok", "error"}
         /\ UNCHANGED <<edges, loop, aborted>>
         /\ faults' \in Nat
<1> USE DEF OutputHandles, GotoStage, SetLog, SetHandle, Fault, Stages, Logs
<1>0. faults \in Nat /\ "other" \in Messages
  BY DEF TypeOK, Messages
<1>1. CASE LogStarted(n)
  BY <1>0, <1>1 DEF LogStarted
<1>2. CASE LogStartFails(n)
  <2>1. log' = log \/ log' = [log EXCEPT ![n] = "RUNNING"]
    BY <1>2 DEF LogStartFails
  <2>2. /\ stage[n] = "logging" /\ stage' = [stage EXCEPT ![n] = "error"]
        /\ message' = [message EXCEPT ![n] = "other"]
        /\ faults' = faults + 1 /\ UNCHANGED <<edges, loop, handle, aborted>>
    BY <1>2 DEF LogStartFails, Fails
  <2>3. \E s \in Stages \ {"idle", "logging"} : stage' = [stage EXCEPT ![n] = s]
    BY <2>2
  <2>4. log' = log \/ \E l \in Logs : log' = [log EXCEPT ![n] = l]
    BY <2>1
  <2>5. faults' \in Nat
    BY <1>0, <2>2
  <2>6. stage[n] \notin {"idle", "ok", "error"} /\ UNCHANGED <<edges, loop, handle, aborted>>
    BY <2>2
  <2> QED BY <1>0, <2>2, <2>3, <2>4, <2>5, <2>6
<1>3. CASE RunnerReturns(n)
  BY <1>0, <1>3 DEF RunnerReturns
<1>4. CASE RunnerThrows(n)
  <2>1. PICK m \in Messages : Catch(n, m)
    BY <1>4 DEF RunnerThrows
  <2> QED BY <1>0, <1>4, <2>1 DEF RunnerThrows, Catch
<1>5. CASE LogCompleted(n)
  BY <1>0, <1>5 DEF LogCompleted
<1>6. CASE LogCompletedFails(n)
  <2>1. log' = log \/ log' = [log EXCEPT ![n] = "COMPLETED"]
    BY <1>6 DEF LogCompletedFails
  <2>2. /\ stage[n] = "recording" /\ faults' = faults + 1 /\ Catch(n, "other")
        /\ UNCHANGED <<edges, loop, aborted>>
    BY <1>6 DEF LogCompletedFails
  <2>3. /\ \E s \in Stages \ {"idle", "logging"} : stage' = [stage EXCEPT ![n] = s]
        /\ message' = [message EXCEPT ![n] = "other"]
        /\ handle' = handle \/ \E h \in OutputHandles : handle' = [handle EXCEPT ![n] = h]
    BY <2>2 DEF Catch
  <2>4. log' = log \/ \E l \in Logs : log' = [log EXCEPT ![n] = l]
    BY <2>1
  <2>5. faults' \in Nat
    BY <1>0, <2>2
  <2> QED BY <1>0, <2>2, <2>3, <2>4, <2>5
<1>7. CASE SubWorkflowReturns(n)
  BY <1>0, <1>7 DEF SubWorkflowReturns
<1>8. CASE SubWorkflowThrows(n)
  BY <1>0, <1>8 DEF SubWorkflowThrows, Catch
<1>9. CASE LogCaught(n)
  BY <1>0, <1>9 DEF LogCaught
<1>10. CASE LogCaughtFails(n)
  <2>1. log' = log \/ log' = [log EXCEPT ![n] = "FAILED"] \/ log' = [log EXCEPT ![n] = "COMPLETED"]
    BY <1>10 DEF LogCaughtFails
  <2>2. /\ stage[n] \in {"skipping", "failing", "recovering"}
        /\ stage' = [stage EXCEPT ![n] = "error"]
        /\ message' = [message EXCEPT ![n] = "other"]
        /\ faults' = faults + 1 /\ UNCHANGED <<edges, loop, handle, aborted>>
    BY <1>10 DEF LogCaughtFails, Fails
  <2>3. \E s \in Stages \ {"idle", "logging"} : stage' = [stage EXCEPT ![n] = s]
    BY <2>2
  <2>4. log' = log \/ \E l \in Logs : log' = [log EXCEPT ![n] = l]
    BY <2>1
  <2>5. faults' \in Nat
    BY <1>0, <2>2
  <2>6. stage[n] \notin {"idle", "ok", "error"} /\ UNCHANGED <<edges, loop, handle, aborted>>
    BY <2>2
  <2> QED BY <1>0, <2>2, <2>3, <2>4, <2>5, <2>6
<1> QED BY <1>1, <1>2, <1>3, <1>4, <1>5, <1>6, <1>7, <1>8, <1>9, <1>10 DEF ExecuteNode

LEMMA StageOfRound ==
  ASSUME TypeOK, StartRound
  PROVE  \E B \in SUBSET Ready : \E refused \in SUBSET B :
            /\ B # {} /\ batch' = B /\ pending' = pending \ B
            /\ stage' = [n \in Nodes |-> IF n \in refused THEN "error"
                                         ELSE IF n \in B THEN "logging" ELSE stage[n]]
            /\ message' = [n \in Nodes |-> IF n \in refused THEN "other" ELSE message[n]]
BY DEF StartRound

LEMMA BatchFinite == TypeOK => IsFiniteSet(batch) /\ Cardinality(batch) \in Nat
BY NodesAssumption, FS_Subset, FS_CardinalityType DEF TypeOK

LEMMA TypeNext == TypeOK /\ [Next]_vars => TypeOK'
<1> SUFFICES ASSUME TypeOK, [Next]_vars PROVE TypeOK'
  OBVIOUS
<1>1. CASE StartRound
  <2>1. PICK B \in SUBSET Ready : \E refused \in SUBSET B :
            /\ B # {} /\ batch' = B /\ pending' = pending \ B
            /\ stage' = [n \in Nodes |-> IF n \in refused THEN "error"
                                         ELSE IF n \in B THEN "logging" ELSE stage[n]]
            /\ message' = [n \in Nodes |-> IF n \in refused THEN "other" ELSE message[n]]
    BY <1>1, StageOfRound
  <2>2. batch' \subseteq Nodes /\ pending' \subseteq Nodes
    BY <2>1 DEF TypeOK, Ready
  <2>3. stage' \in [Nodes -> Stages] /\ message' \in [Nodes -> Messages \cup {"none"}]
    BY <2>1 DEF TypeOK, Stages, Messages
  <2> QED BY <1>1, <2>2, <2>3 DEF StartRound, TypeOK, Points
<1>2. CASE NoMoreNodes
  BY <1>2 DEF NoMoreNodes, TypeOK, Points
<1>3. CASE NoticeAbort \/ ThrowFromRound
  BY <1>3 DEF NoticeAbort, ThrowFromRound, Throw, TypeOK, Points
<1>4. CASE CollectRound
  <2>1. handle' \in HandleMap
    BY <1>4 DEF CollectRound, KeepOutputs, TypeOK, HandleMap, OutputHandles
  <2>2. executed' \subseteq Nodes
    BY <1>4 DEF CollectRound, TypeOK
  <2> QED BY <1>4, <2>1, <2>2, BatchFinite DEF CollectRound, TypeOK, Points
<1>5. CASE SaveCheckpoint
  BY <1>5 DEF SaveCheckpoint, TypeOK, Points
<1>6. CASE SaveFails
  BY <1>6 DEF SaveFails, Fault, Throw, TypeOK, Points
<1>7. CASE Abort
  BY <1>7 DEF Abort, loop, TypeOK
<1>8. ASSUME NEW n \in Nodes, ExecuteNode(n) PROVE TypeOK'
  BY <1>8, NodeTypes DEF loop, TypeOK, HandleMap
<1>9. CASE UNCHANGED vars
  BY <1>9 DEF vars, loop, TypeOK
<1> QED BY <1>1, <1>2, <1>3, <1>4, <1>5, <1>6, <1>7, <1>8, <1>9 DEF Next, Loop

-----------------------------------------------------------------------------
(* Where each node is.                                                     *)

\* A node is pending, in the current round, executed or passed over; what it has done
\* so far and what it has left in nodeOutputs agree with that.
Whereabouts ==
    /\ Nodes = pending \cup batch \cup executed \cup PassedOver
    /\ pending \cap batch = {} /\ pending \cap executed = {} /\ batch \cap executed = {}
    /\ at \in {"round", "save", "completed"} => batch = {}
    /\ at = "wait" => batch # {}
    /\ Ended => \A n \in batch : Settled(n)
    /\ \A n \in pending : stage[n] = "idle"
    /\ \A n \in batch : stage[n] # "idle"
    /\ \A n \in executed : stage[n] = "ok" /\ handle[n] # "none"

\* Until its runner has returned or thrown a node has no error and no output, one
\* whose failure is ignored has none either, one that throws to stop ends well, and
\* only an outspoken one does either.
Traces ==
    \A n \in Nodes :
        /\ stage[n] \in {"idle", "logging", "running", "recording", "sub"} => message[n] = "none"
        /\ stage[n] \in {"idle", "logging", "running"} => handle[n] = "none"
        /\ message[n] = "ignored" /\ stage[n] \in {"skipping", "failing", "error"}
              => handle[n] = "none"
        /\ message[n] = "stop" => stage[n] = "ok"
        /\ message[n] \notin {"none", "other"} => n \in Outspoken

LEMMA WhereaboutsInit == Init => Whereabouts /\ Traces
BY DEF Init, Whereabouts, Traces, Ended, PassedOver, Ignored

\* A node is passed over when its round is collected, and stays so.
LEMMA PassedOverNext ==
  ASSUME TypeOK, Whereabouts, [Next]_vars
  PROVE  PassedOver' = IF CollectRound THEN PassedOver \cup {n \in batch : Ignored(n)}
                       ELSE PassedOver
<1>1. CASE CollectRound
  <2>1. batch' = {} /\ stage' = stage /\ message' = message /\ batch \subseteq Nodes
    BY <1>1 DEF CollectRound, TypeOK
  <2> QED BY <1>1, <2>1 DEF PassedOver, Ignored
<1>2. CASE StartRound
  <2>1. PICK B \in SUBSET Ready : \E refused \in SUBSET B :
            /\ B # {} /\ batch' = B /\ pending' = pending \ B
            /\ stage' = [n \in Nodes |-> IF n \in refused THEN "error"
                                         ELSE IF n \in B THEN "logging" ELSE stage[n]]
            /\ message' = [n \in Nodes |-> IF n \in refused THEN "other" ELSE message[n]]
    BY <1>2, StageOfRound
  <2>2. batch = {} /\ ~CollectRound
    BY <1>2 DEF StartRound, CollectRound, Whereabouts
  <2>3. \A n \in B : stage[n] = "idle"
    BY DEF Ready, Whereabouts
  <2>4. \A n \in Nodes \ B : stage'[n] = stage[n] /\ message'[n] = message[n]
    BY <2>1
  <2> QED BY <2>1, <2>2, <2>3, <2>4 DEF PassedOver, Ignored
<1>3. CASE UNCHANGED <<batch, stage, message>> /\ ~CollectRound
  BY <1>3 DEF PassedOver, Ignored
<1>4. ASSUME NEW m \in Nodes, ExecuteNode(m), ~CollectRound PROVE PassedOver' = PassedOver
  <2>1. /\ \E s \in Stages \ {"idle", "logging"} : stage' = [stage EXCEPT ![m] = s]
        /\ message' = message \/ \E k \in Messages : message' = [message EXCEPT ![m] = k]
        /\ stage[m] \notin {"idle", "ok", "error"} /\ batch' = batch
    BY <1>4, NodeTypes DEF loop
  <2>2. m \in batch
    BY <2>1 DEF Whereabouts, PassedOver, Ignored
  <2>3. \A n \in Nodes \ batch : stage'[n] = stage[n] /\ message'[n] = message[n]
    BY <2>1, <2>2 DEF TypeOK
  <2> QED BY <2>1, <2>3 DEF PassedOver, Ignored
<1>5. ASSUME NEW m \in Nodes, ExecuteNode(m) PROVE ~CollectRound
  BY <1>5, NodeTypes DEF CollectRound, loop, TypeOK
<1> QED BY <1>1, <1>2, <1>3, <1>4, <1>5 DEF Next, Loop, NoMoreNodes, NoticeAbort, ThrowFromRound,
       SaveCheckpoint, SaveFails, Abort, vars, loop

LEMMA WhereaboutsNode ==
  ASSUME TypeOK, Whereabouts, NEW m \in Nodes, ExecuteNode(m)
  PROVE  Whereabouts'
<1>1. /\ \E s \in Stages \ {"idle", "logging"} : stage' = [stage EXCEPT ![m] = s]
      /\ handle' = handle \/ \E h \in OutputHandles : handle' = [handle EXCEPT ![m] = h]
      /\ stage[m] \notin {"idle", "ok", "error"}
      /\ UNCHANGED <<edges, loop, aborted>>
  BY NodeTypes
<1>2. m \in batch /\ m \notin pending /\ m \notin executed
  BY <1>1 DEF Whereabouts, PassedOver, Ignored
<1>3. ~Ended
  BY <1>1, <1>2 DEF Whereabouts, Settled
<1>4. \A n \in Nodes \ {m} : stage'[n] = stage[n] /\ handle'[n] = handle[n]
  BY <1>1 DEF TypeOK, HandleMap
<1>5. stage'[m] # "idle"
  BY <1>1 DEF TypeOK
<1>6. PassedOver' = PassedOver
  <2>1. ~CollectRound
    BY <1>1 DEF CollectRound, loop, TypeOK
  <2>2. Next
    BY DEF Next
  <2> QED BY <2>1, <2>2, PassedOverNext
<1> QED BY <1>1, <1>2, <1>3, <1>4, <1>5, <1>6 DEF Whereabouts, loop, Ended, Settled, TypeOK

LEMMA WhereaboutsNext == TypeOK /\ Whereabouts /\ [Next]_vars => Whereabouts'
<1> SUFFICES ASSUME TypeOK, Whereabouts, [Next]_vars PROVE Whereabouts'
  OBVIOUS
<1>0. PassedOver' = IF CollectRound THEN PassedOver \cup {n \in batch : Ignored(n)} ELSE PassedOver
  BY PassedOverNext
<1>1. CASE StartRound
  <2>1. PICK B \in SUBSET Ready : \E refused \in SUBSET B :
            /\ B # {} /\ batch' = B /\ pending' = pending \ B
            /\ stage' = [n \in Nodes |-> IF n \in refused THEN "error"
                                         ELSE IF n \in B THEN "logging" ELSE stage[n]]
    BY <1>1, StageOfRound
  <2>2. PICK refused \in SUBSET B :
            stage' = [n \in Nodes |-> IF n \in refused THEN "error"
                                      ELSE IF n \in B THEN "logging" ELSE stage[n]]
    BY <2>1
  <2>3. /\ batch = {} /\ batch' = B /\ B # {} /\ pending' = pending \ B /\ B \subseteq pending
        /\ at' = "wait" /\ executed' = executed /\ handle' = handle
    BY <1>1, <2>1 DEF StartRound, Whereabouts, Ready
  <2>4. \A n \in Nodes : /\ n \in B => stage'[n] \in {"error", "logging"}
                         /\ n \notin B => stage'[n] = stage[n]
    BY <2>2
  <2>5. PassedOver' = PassedOver
    BY <1>0, <1>1 DEF StartRound, CollectRound
  <2>6. /\ Nodes = pending' \cup batch' \cup executed' \cup PassedOver'
        /\ pending' \cap batch' = {} /\ pending' \cap executed' = {} /\ batch' \cap executed' = {}
    BY <2>3, <2>5 DEF Whereabouts
  <2> HIDE DEF PassedOver
  <2> QED BY <2>3, <2>4, <2>6 DEF Whereabouts, Ended, TypeOK
<1>2. CASE NoMoreNodes \/ NoticeAbort \/ ThrowFromRound \/ SaveFails
  <2>1. PassedOver' = PassedOver
    BY <1>0, <1>2 DEF NoMoreNodes, NoticeAbort, ThrowFromRound, SaveFails, CollectRound, Throw
  <2> QED BY <1>2, <2>1 DEF NoMoreNodes, NoticeAbort, ThrowFromRound, SaveFails, Throw, Whereabouts,
              Ended, Settled
<1>3. CASE CollectRound
  <2>1. \A n \in executed' : stage'[n] = "ok" /\ handle'[n] # "none"
    BY <1>3 DEF CollectRound, KeepOutputs, Whereabouts, TypeOK
  <2>2. /\ Nodes = pending' \cup batch' \cup executed' \cup PassedOver'
        /\ pending' \cap batch' = {} /\ pending' \cap executed' = {} /\ batch' \cap executed' = {}
    <3>1. \A n \in batch : n \in executed' \/ n \in PassedOver'
      BY <1>0, <1>3 DEF CollectRound
    <3>2. executed \subseteq executed' /\ PassedOver \subseteq PassedOver' /\ pending' = pending
          /\ batch' = {} /\ executed' \subseteq executed \cup batch
      BY <1>0, <1>3 DEF CollectRound
    <3>3. PassedOver' \subseteq Nodes
      BY DEF PassedOver
    <3> QED BY <3>1, <3>2, <3>3 DEF Whereabouts, TypeOK
  <2> QED BY <1>3, <2>1, <2>2 DEF CollectRound, Whereabouts, Ended
<1>4. CASE SaveCheckpoint
  <2>1. PassedOver' = PassedOver
    BY <1>0, <1>4 DEF SaveCheckpoint, CollectRound
  <2> QED BY <1>4, <2>1 DEF SaveCheckpoint, Whereabouts, Ended
<1>5. CASE Abort
  <2>1. PassedOver' = PassedOver
    BY <1>0, <1>5 DEF Abort, CollectRound
  <2> QED BY <1>5, <2>1 DEF Abort, loop, Whereabouts, Ended, Settled
<1>6. ASSUME NEW n \in Nodes, ExecuteNode(n) PROVE Whereabouts'
  BY <1>6, WhereaboutsNode
<1>7. CASE UNCHANGED vars
  BY <1>7 DEF vars, loop, Whereabouts, Ended, Settled, PassedOver, Ignored
<1> QED BY <1>1, <1>2, <1>3, <1>4, <1>5, <1>6, <1>7 DEF Next, Loop

LEMMA TracesNext == TypeOK /\ Whereabouts /\ Traces /\ [Next]_vars => Traces'
<1> SUFFICES ASSUME TypeOK, Whereabouts, Traces, [Next]_vars PROVE Traces'
  OBVIOUS
<1>1. CASE StartRound
  <2>1. PICK B \in SUBSET Ready : \E refused \in SUBSET B :
            /\ stage' = [n \in Nodes |-> IF n \in refused THEN "error"
                                         ELSE IF n \in B THEN "logging" ELSE stage[n]]
            /\ message' = [n \in Nodes |-> IF n \in refused THEN "other" ELSE message[n]]
    BY <1>1, StageOfRound
  <2>2. \A n \in B : stage[n] = "idle"
    BY DEF Ready, Whereabouts
  <2>3. handle' = handle
    BY <1>1 DEF StartRound
  <2> QED BY <2>1, <2>2, <2>3 DEF Traces, TypeOK
<1>2. CASE CollectRound
  <2>1. \A n \in Nodes : handle'[n] # handle[n] => n \in batch /\ stage[n] = "ok"
    BY <1>2 DEF CollectRound, KeepOutputs, TypeOK, HandleMap
  <2>2. stage' = stage /\ message' = message
    BY <1>2 DEF CollectRound
  <2> QED BY <2>1, <2>2 DEF Traces
<1>3. CASE UNCHANGED <<stage, message, handle>>
  BY <1>3 DEF Traces
<1>4. ASSUME NEW m \in Nodes, ExecuteNode(m) PROVE Traces'
  <2>1. /\ \E s \in Stages : stage' = [stage EXCEPT ![m] = s]
        /\ message' = message \/ \E k \in Messages : message' = [message EXCEPT ![m] = k]
        /\ handle' = handle \/ \E h \in OutputHandles : handle' = [handle EXCEPT ![m] = h]
    BY <1>4, NodeTypes
  <2>2. \A n \in Nodes \ {m} :
          stage'[n] = stage[n] /\ message'[n] = message[n] /\ handle'[n] = handle[n]
    BY <2>1 DEF TypeOK, HandleMap
  <2>3. /\ stage'[m] \in {"idle", "logging", "running", "recording", "sub"} => message'[m] = "none"
        /\ stage'[m] \in {"idle", "logging", "running"} => handle'[m] = "none"
        /\ message'[m] = "ignored" /\ stage'[m] \in {"skipping", "failing", "error"}
              => handle'[m] = "none"
        /\ message'[m] = "stop" => stage'[m] = "ok"
        /\ message'[m] \notin {"none", "other"} => m \in Outspoken
    <3> USE DEF Traces, GotoStage, SetLog, SetHandle, Catch, Fails, TypeOK, HandleMap
    <3>1. CASE LogStarted(m) \/ LogStartFails(m)
      BY <3>1 DEF LogStarted, LogStartFails
    <3>2. CASE RunnerReturns(m) \/ RunnerThrows(m)
      BY <3>2 DEF RunnerReturns, RunnerThrows
    <3>3. CASE LogCompleted(m) \/ LogCompletedFails(m)
      BY <3>3 DEF LogCompleted, LogCompletedFails
    <3>4. CASE SubWorkflowReturns(m) \/ SubWorkflowThrows(m)
      BY <3>4 DEF SubWorkflowReturns, SubWorkflowThrows
    <3>5. CASE LogCaught(m) \/ LogCaughtFails(m)
      BY <3>5 DEF LogCaught, LogCaughtFails
    <3> QED BY <1>4, <3>1, <3>2, <3>3, <3>4, <3>5 DEF ExecuteNode
  <2> QED BY <2>2, <2>3 DEF Traces
<1> QED BY <1>1, <1>2, <1>3, <1>4 DEF Next, Loop, NoMoreNodes, NoticeAbort, ThrowFromRound,
       SaveCheckpoint, SaveFails, Abort, vars, loop

\* When the call returns or throws, every node it has started has settled.
LEMMA WhereaboutsNoOrphans == Whereabouts => NoOrphans
BY DEF Whereabouts, NoOrphans, Settled, PassedOver, Ignored

-----------------------------------------------------------------------------
(* Order.                                                                  *)

\* A live edge stays live while nodes are added and known handles stay.
LEMMA LiveMonotone ==
  ASSUME NEW E, NEW S, NEW T, NEW g, NEW h, NEW n,
         S \subseteq T, \A m \in S : h[m] = g[m], ShouldExecute(E, S, g, n)
  PROVE  ShouldExecute(E, T, h, n)
BY DEF ShouldExecute, Live

LEMMA DepsAreNodes == TypeOK => \A n \in Nodes : Deps(edges, n) \subseteq Nodes
BY GraphsAssumption DEF TypeOK, Deps, Incoming, Edge

\* Executed nodes stay executed, with the output they have, and those passed over
\* are not taken up again.
LEMMA ExecutedGrows ==
  ASSUME TypeOK, Whereabouts, [Next]_vars
  PROVE  /\ edges' = edges
         /\ executed \subseteq executed'
         /\ PassedOver \subseteq PassedOver'
         /\ \A n \in executed : handle'[n] = handle[n]
<1>0. PassedOver \subseteq PassedOver'
  BY PassedOverNext
<1>1. CASE Loop
  <2>1. CASE CollectRound
    BY <1>0, <2>1 DEF CollectRound, KeepOutputs, Whereabouts, TypeOK
  <2> QED BY <1>0, <1>1, <2>1 DEF Loop, StartRound, NoMoreNodes, NoticeAbort, ThrowFromRound,
              SaveCheckpoint, SaveFails
<1>2. CASE Abort
  BY <1>0, <1>2 DEF Abort, loop
<1>3. ASSUME NEW m \in Nodes, ExecuteNode(m)
      PROVE  /\ edges' = edges
             /\ executed \subseteq executed'
             /\ PassedOver \subseteq PassedOver'
             /\ \A n \in executed : handle'[n] = handle[n]
  <2>1. /\ handle' = handle \/ \E h \in OutputHandles : handle' = [handle EXCEPT ![m] = h]
        /\ stage[m] \notin {"idle", "ok", "error"}
        /\ UNCHANGED <<edges, loop, aborted>>
    BY <1>3, NodeTypes
  <2>2. m \notin executed
    BY <2>1 DEF Whereabouts
  <2> QED BY <1>0, <2>1, <2>2 DEF TypeOK, HandleMap, loop
<1>4. CASE UNCHANGED vars
  BY <1>0, <1>4 DEF vars, loop
<1> QED BY <1>1, <1>2, <1>3, <1>4 DEF Next

LEMMA DepsFirstNext ==
  TypeOK /\ Whereabouts /\ DepsFirst /\ [Next]_vars => DepsFirst'
<1> SUFFICES ASSUME TypeOK, Whereabouts, DepsFirst, [Next]_vars,
                    NEW n \in Nodes, stage'[n] # "idle"
             PROVE  /\ Deps(edges', n) \subseteq executed' \cup PassedOver'
                    /\ ShouldExecute(edges', executed', handle', n)
  BY DEF DepsFirst
<1>1. CASE stage[n] # "idle"
  <2>1. Deps(edges, n) \subseteq executed \cup PassedOver /\ ShouldExecute(edges, executed, handle, n)
    BY <1>1 DEF DepsFirst
  <2>2. /\ edges' = edges /\ executed \subseteq executed' /\ PassedOver \subseteq PassedOver'
        /\ \A m \in executed : handle'[m] = handle[m]
    BY ExecutedGrows
  <2> QED BY <2>1, <2>2, LiveMonotone
<1>2. CASE stage[n] = "idle"
  <2>1. StartRound
    <3>1. ASSUME NEW m \in Nodes, ExecuteNode(m) PROVE FALSE
      <4>1. /\ \E s \in Stages \ {"idle", "logging"} : stage' = [stage EXCEPT ![m] = s]
            /\ stage[m] # "idle"
        BY <3>1, NodeTypes
      <4> QED BY <1>2, <4>1 DEF TypeOK
    <3> QED BY <1>2, <3>1 DEF Next, Loop, NoMoreNodes, NoticeAbort, CollectRound,
                ThrowFromRound, SaveCheckpoint, SaveFails, Abort, vars
  <2>2. PICK B \in SUBSET Ready : \E refused \in SUBSET B :
            stage' = [k \in Nodes |-> IF k \in refused THEN "error"
                                      ELSE IF k \in B THEN "logging" ELSE stage[k]]
    BY <2>1, StageOfRound
  <2>3. n \in Ready
    BY <1>2, <2>2
  <2>4. batch = {} /\ edges' = edges /\ executed' = executed /\ handle' = handle
    BY <2>1 DEF StartRound, Whereabouts
  <2>5. Deps(edges, n) \subseteq executed \cup PassedOver
    BY <2>3, <2>4, DepsAreNodes DEF Ready, Whereabouts
  <2>6. PassedOver \subseteq PassedOver'
    BY PassedOverNext
  <2> QED BY <2>3, <2>4, <2>5, <2>6 DEF Ready
<1> QED BY <1>1, <1>2

\* What a checkpoint holds is what the execution holds when no round is on.
LEMMA CheckpointNext ==
  TypeOK /\ Whereabouts /\ Traces /\ DepsFirst /\ CheckpointResumable /\ [Next]_vars
     => CheckpointResumable'
<1> SUFFICES ASSUME TypeOK, Whereabouts, Traces, DepsFirst, CheckpointResumable, [Next]_vars
             PROVE  CheckpointResumable'
  OBVIOUS
<1>0. PassedOver \subseteq PassedOver'
  BY PassedOverNext
<1>1. CASE SaveCheckpoint
  <2>1. \A n \in Nodes : handle[n] # "none" <=> n \in executed
    <3>1. Nodes = pending \cup executed \cup PassedOver
      BY <1>1 DEF SaveCheckpoint, Whereabouts
    <3>2. \A n \in pending \cup PassedOver : handle[n] = "none" /\ n \notin executed
      BY <3>1 DEF Traces, Whereabouts, PassedOver, Ignored
    <3> QED BY <3>1, <3>2 DEF Whereabouts
  <2>2. \A n \in executed : n \in Nodes /\ stage[n] # "idle"
    BY DEF Whereabouts
  <2> HIDE DEF PassedOver
  <2>3. ASSUME NEW n \in executed
        PROVE  /\ Deps(edges, n) \subseteq executed \cup PassedOver'
               /\ ShouldExecute(edges, executed, handle, n)
    BY <1>0, <2>2 DEF DepsFirst
  <2>4. checkpoint'.nodes = executed /\ checkpoint'.handle = handle /\ edges' = edges
    BY <1>1 DEF SaveCheckpoint
  <2> QED BY <2>1, <2>3, <2>4 DEF CheckpointResumable
<1>2. CASE ~SaveCheckpoint
  <2>1. UNCHANGED <<edges, checkpoint>>
    <3>1. ASSUME NEW m \in Nodes, ExecuteNode(m) PROVE UNCHANGED <<edges, checkpoint>>
      BY <3>1, NodeTypes DEF loop
    <3> QED BY <1>2, <3>1 DEF Next, Loop, StartRound, NoMoreNodes, NoticeAbort, CollectRound,
                ThrowFromRound, SaveFails, Abort, vars, loop
  <2> HIDE DEF PassedOver
  <2> QED BY <1>0, <2>1 DEF CheckpointResumable
<1> QED BY <1>1, <1>2

-----------------------------------------------------------------------------
(* The log rows.                                                           *)

\* What the row of a node says at each stage, as long as no call has failed.
LogOfStage ==
    faults = 0 => \A n \in Nodes :
        /\ stage[n] \in {"idle", "logging"} => log[n] = "NONE"
        /\ stage[n] \in {"running", "recording"} => log[n] = "RUNNING"
        /\ stage[n] = "sub" => log[n] = "COMPLETED"
        /\ stage[n] = "ok" => log[n] = IF message[n] = "stop" THEN "RUNNING" ELSE "COMPLETED"
        /\ stage[n] = "error" => log[n] \in {"NONE", "FAILED", "SKIPPED"}

LEMMA LogOfStageNext ==
  TypeOK /\ Whereabouts /\ Traces /\ LogOfStage /\ [Next]_vars => LogOfStage'
<1> SUFFICES ASSUME TypeOK, Whereabouts, Traces, LogOfStage, [Next]_vars, faults' = 0,
                    NEW n \in Nodes
             PROVE  /\ stage'[n] \in {"idle", "logging"} => log'[n] = "NONE"
                    /\ stage'[n] \in {"running", "recording"} => log'[n] = "RUNNING"
                    /\ stage'[n] = "sub" => log'[n] = "COMPLETED"
                    /\ stage'[n] = "ok" =>
                          log'[n] = IF message'[n] = "stop" THEN "RUNNING" ELSE "COMPLETED"
                    /\ stage'[n] = "error" => log'[n] \in {"NONE", "FAILED", "SKIPPED"}
  BY DEF LogOfStage
<1>0. faults \in Nat
  BY DEF TypeOK
<1>1. CASE stage' = stage /\ message' = message /\ log' = log /\ faults' = faults
  BY <1>1 DEF LogOfStage
<1>2. ASSUME Fault PROVE FALSE
  BY <1>0, <1>2 DEF Fault
<1>3. CASE StartRound
  <2>1. PICK B \in SUBSET Ready : \E refused \in SUBSET B :
            /\ B # {} /\ batch' = B /\ pending' = pending \ B
            /\ stage' = [k \in Nodes |-> IF k \in refused THEN "error"
                                         ELSE IF k \in B THEN "logging" ELSE stage[k]]
            /\ message' = [k \in Nodes |-> IF k \in refused THEN "other" ELSE message[k]]
    BY <1>3, StageOfRound
  <2>2. PICK refused \in SUBSET B :
            /\ stage' = [k \in Nodes |-> IF k \in refused THEN "error"
                                         ELSE IF k \in B THEN "logging" ELSE stage[k]]
            /\ message' = [k \in Nodes |-> IF k \in refused THEN "other" ELSE message[k]]
    BY <2>1
  <2>3. /\ n \in B => stage'[n] \in {"error", "logging"} /\ log[n] = "NONE"
        /\ n \notin B => stage'[n] = stage[n] /\ message'[n] = message[n]
    <3>1. faults = 0
      BY <1>3 DEF StartRound
    <3>2. n \in B => stage[n] = "idle"
      BY DEF Ready, Whereabouts
    <3> QED BY <2>2, <3>1, <3>2 DEF LogOfStage
  <2> QED BY <1>3, <2>3 DEF StartRound, LogOfStage
<1>4. ASSUME NEW m \in Nodes, ExecuteNode(m)
      PROVE  /\ stage'[n] \in {"idle", "logging"} => log'[n] = "NONE"
             /\ stage'[n] \in {"running", "recording"} => log'[n] = "RUNNING"
             /\ stage'[n] = "sub" => log'[n] = "COMPLETED"
             /\ stage'[n] = "ok" =>
                   log'[n] = IF message'[n] = "stop" THEN "RUNNING" ELSE "COMPLETED"
             /\ stage'[n] = "error" => log'[n] \in {"NONE", "FAILED", "SKIPPED"}
  <2>1. /\ \E s \in Stages \ {"idle", "logging"} : stage' = [stage EXCEPT ![m] = s]
        /\ message' = message \/ \E k \in Messages : message' = [message EXCEPT ![m] = k]
        /\ log' = log \/ \E l \in Logs : log' = [log EXCEPT ![m] = l]
    BY <1>4, NodeTypes
  <2>2. CASE n # m
    <3>1. faults = 0
      BY <1>2, <1>4 DEF ExecuteNode, LogStarted, LogStartFails, RunnerReturns, RunnerThrows,
         LogCompleted, LogCompletedFails, SubWorkflowReturns, SubWorkflowThrows, LogCaught,
         LogCaughtFails
    <3> QED BY <2>1, <2>2, <3>1 DEF TypeOK, LogOfStage
  <2>3. CASE n = m
    <3> USE <1>2, <2>3 DEF Catch, GotoStage, SetLog, TypeOK, LogOfStage, Traces
    <3>1. CASE LogStarted(m) \/ LogStartFails(m)
      BY <3>1 DEF LogStarted, LogStartFails
    <3>2. CASE RunnerReturns(m) \/ RunnerThrows(m)
      BY <3>2 DEF RunnerReturns, RunnerThrows
    <3>3. CASE LogCompleted(m) \/ LogCompletedFails(m)
      BY <3>3 DEF LogCompleted, LogCompletedFails
    <3>4. CASE SubWorkflowReturns(m) \/ SubWorkflowThrows(m)
      BY <3>4 DEF SubWorkflowReturns, SubWorkflowThrows
    <3>5. CASE LogCaught(m) \/ LogCaughtFails(m)
      BY <3>5 DEF LogCaught, LogCaughtFails
    <3> QED BY <1>4, <3>1, <3>2, <3>3, <3>4, <3>5 DEF ExecuteNode
  <2> QED BY <2>2, <2>3
<1>5. CASE Abort
  BY <1>1, <1>5 DEF Abort
<1>6. CASE Loop /\ ~StartRound
  BY <1>1, <1>2, <1>6 DEF Loop, NoMoreNodes, NoticeAbort, CollectRound,
              ThrowFromRound, SaveCheckpoint, SaveFails
<1>7. CASE UNCHANGED vars
  BY <1>1, <1>7 DEF vars
<1> QED BY <1>3, <1>4, <1>5, <1>6, <1>7 DEF Next

LEMMA LogsAgreeOf == TypeOK /\ Whereabouts /\ Traces /\ LogOfStage => LogsAgree
<1> SUFFICES ASSUME TypeOK, Whereabouts, Traces, LogOfStage, Ended, faults = 0, NEW n \in Nodes
             PROVE  /\ log[n] = "RUNNING" <=> message[n] = "stop"
                    /\ log[n] = "COMPLETED" <=> stage[n] = "ok" /\ message[n] # "stop"
                    /\ at = "completed" =>
                          /\ stage[n] = "ok" <=> n \in executed
                          /\ stage[n] = "error" <=> n \in PassedOver
  BY DEF LogsAgree
<1>1. stage[n] \in {"idle", "ok", "error"}
  BY WhereaboutsNoOrphans DEF NoOrphans, Settled
<1>2. at = "completed" => /\ stage[n] = "ok" <=> n \in executed
                          /\ stage[n] = "error" <=> n \in PassedOver
  BY DEF Whereabouts, PassedOver, Ignored
<1>3. message[n] = "stop" => stage[n] = "ok"
  BY DEF Traces
<1> QED BY <1>1, <1>2, <1>3 DEF LogOfStage

-----------------------------------------------------------------------------
(* The inductive invariant and what follows from it.                       *)

IInv ==
    /\ TypeOK /\ Whereabouts /\ Traces
    /\ DepsFirst /\ CheckpointResumable /\ LogOfStage

LEMMA IInvInit == Init => IInv
<1> SUFFICES ASSUME Init PROVE IInv
  OBVIOUS
<1>1. DepsFirst /\ CheckpointResumable /\ LogOfStage
  BY DEF Init, DepsFirst, CheckpointResumable, LogOfStage
<1> QED BY <1>1, TypeInit, WhereaboutsInit DEF IInv

LEMMA IInvNext == IInv /\ [Next]_vars => IInv'
BY TypeNext, WhereaboutsNext, TracesNext, DepsFirstNext, CheckpointNext, LogOfStageNext DEF IInv

\* The conjunction of everything above is an invariant of the executor.
THEOREM Invariance == Spec => []IInv
BY IInvInit, IInvNext, PTL DEF Spec

\* Every variable stays in its range (the types of the code's variables).
THEOREM TypeCorrect == Spec => []TypeOK
<1>1. IInv => TypeOK
  BY DEF IInv
<1> QED BY <1>1, Invariance, PTL

\* No node is started before everything it depends on has been executed or passed
\* over, nor without a live edge, in any graph and at any width.
THEOREM OrderRespected == Spec => []DepsFirst
<1>1. IInv => DepsFirst
  BY DEF IInv
<1> QED BY <1>1, Invariance, PTL

\* Promise.all over executeNodeSafe leaves nothing running behind.
THEOREM NothingRunsOn == Spec => []NoOrphans
<1>1. IInv => NoOrphans
  BY WhereaboutsNoOrphans DEF IInv
<1> QED BY <1>1, Invariance, PTL

\* A checkpoint, whenever it was saved, is closed under the dependencies that were
\* not passed over, and holds exactly the outputs of its nodes.
THEOREM CheckpointsAreResumable == Spec => []CheckpointResumable
<1>1. IInv => CheckpointResumable
  BY DEF IInv
<1> QED BY <1>1, Invariance, PTL

\* The log rows of an execution that met no fault tell what happened.
THEOREM LogsTell == Spec => []LogsAgree
<1>1. IInv => LogsAgree
  BY LogsAgreeOf DEF IInv
<1> QED BY <1>1, Invariance, PTL

\* The output of an executed node is never replaced.
THEOREM OutputsStay == Spec => OutputsAreFinal
<1>1. IInv /\ [Next]_vars =>
        [\A n \in executed : n \in executed' /\ handle'[n] = handle[n]]_vars
  BY ExecutedGrows DEF IInv
<1> QED BY <1>1, Invariance, PTL DEF Spec, OutputsAreFinal

-----------------------------------------------------------------------------
(* Refinement: an execution is a dataflow execution.                       *)

Out == [n \in Nodes |-> IF n \in executed THEN handle[n] ELSE "none"]
Outcome == IF Ended THEN at ELSE "running"

\* The abstract specification reads the mapped outputs; for executed nodes they
\* are the concrete ones.
LEMMA CanFireMapped ==
  ASSUME TypeOK, NEW n \in Nodes
  PROVE  Flow!CanFire(n) <=> /\ n \notin executed \cup PassedOver
                             /\ Deps(edges, n) \subseteq executed \cup PassedOver
                             /\ ShouldExecute(edges, executed, handle, n)
<1>1. \A m \in executed : Out[m] = handle[m]
  BY DEF Out, TypeOK
<1>2. ShouldExecute(edges, executed, Out, n) <=> ShouldExecute(edges, executed, handle, n)
  BY <1>1, LiveMonotone
<1>3. /\ Flow!Deps(edges, n) = Deps(edges, n)
      /\ Flow!ShouldExecute(edges, executed, Out, n) <=> ShouldExecute(edges, executed, Out, n)
  BY DEF Flow!Deps, Deps, Flow!Incoming, Incoming, Flow!ShouldExecute, ShouldExecute,
         Flow!Live, Live
<1> QED BY <1>2, <1>3 DEF Flow!CanFire, Flow!Reached, Out

LEMMA FlowInit == Init => Flow!Init
BY DEF Init, Flow!Init, Ended, PassedOver, Ignored

\* A round that is collected fires its nodes together; those whose failure is ignored
\* are lost.
LEMMA CollectFires ==
  ASSUME TypeOK, Whereabouts, DepsFirst, Traces, CollectRound PROVE Flow!Fire
<1> DEFINE L == {n \in batch : Ignored(n)}
           h == [n \in batch \ L |-> handle'[n]]
<1>1. batch \in SUBSET Nodes /\ batch # {}
  BY DEF CollectRound, Whereabouts
<1>2. batch \ L = {n \in batch : stage[n] = "ok"} /\ L \in SUBSET (batch \cap Outspoken)
  BY <1>1 DEF CollectRound, Ignored, Traces
<1>3. h \in [batch \ L -> Flow!OutputHandles]
  BY <1>1, <1>2 DEF CollectRound, KeepOutputs, Flow!OutputHandles, OutputHandles, TypeOK, HandleMap
<1>4. \A n \in batch : Flow!CanFire(n)
  <2>1. \A n \in batch : n \notin PassedOver /\ n \notin executed /\ stage[n] # "idle" /\ n \in Nodes
    BY <1>1 DEF PassedOver, Whereabouts
  <2> QED BY <2>1, CanFireMapped DEF DepsFirst
<1>5. executed' = executed \cup (batch \ L) /\ PassedOver' = PassedOver \cup L
  <2>1. Next
    BY DEF Next, Loop
  <2> QED BY <1>2, <2>1, PassedOverNext DEF CollectRound
<1>6. Out' = [n \in Nodes |-> IF n \in batch \ L THEN h[n] ELSE Out[n]]
  <2>1. \A n \in Nodes \ (batch \ L) : handle'[n] = handle[n]
    BY <1>2 DEF CollectRound, KeepOutputs
  <2> HIDE DEF L
  <2> QED BY <1>5, <2>1 DEF Out
<1>7. Outcome = "running" /\ Outcome' = "running" /\ edges' = edges
  BY DEF CollectRound, Outcome, Ended
<1> HIDE DEF L, h
<1> QED BY <1>1, <1>2, <1>3, <1>4, <1>5, <1>6, <1>7 DEF Flow!Fire, Out, Outcome

LEMMA EndCompletes ==
  ASSUME TypeOK, Whereabouts, DepsFirst, NoMoreNodes PROVE Flow!Complete
<1>1. \A n \in Nodes : ~Flow!CanFire(n)
  <2>1. /\ Nodes = pending \cup executed \cup PassedOver
        /\ pending \cap executed = {} /\ pending \cap PassedOver = {}
    BY DEF NoMoreNodes, Whereabouts, PassedOver, Ignored
  <2>2. \A n \in pending : Deps(edges, n) \cap pending # {} \/ ~ShouldExecute(edges, executed, handle, n)
    BY DEF NoMoreNodes, Ready
  <2> QED BY <2>1, <2>2, CanFireMapped
<1>2. /\ Outcome = "running" /\ Outcome' = "completed"
      /\ executed' = executed /\ edges' = edges /\ handle' = handle /\ PassedOver' = PassedOver
  BY DEF NoMoreNodes, Outcome, Ended, PassedOver, Ignored
<1> QED BY <1>1, <1>2 DEF Flow!Complete, Outcome

LEMMA ThrowGivesUp ==
  ASSUME NoticeAbort \/ ThrowFromRound \/ SaveFails PROVE Flow!GiveUp
<1>1. /\ Outcome = "running" /\ Outcome' \in {"failed", "cancelled"}
      /\ executed' = executed /\ edges' = edges /\ handle' = handle /\ PassedOver' = PassedOver
  BY DEF NoticeAbort, ThrowFromRound, SaveFails, Throw, Outcome, Ended, PassedOver, Ignored
<1> QED BY <1>1 DEF Flow!GiveUp, Outcome

LEMMA FlowNext ==
  ASSUME TypeOK, Whereabouts, DepsFirst, Traces, [Next]_vars PROVE [Flow!Next]_(Flow!vars)
<1>1. CASE StartRound \/ SaveCheckpoint \/ Abort \/ UNCHANGED vars
  <2>1. /\ executed' = executed /\ edges' = edges /\ handle' = handle
        /\ Outcome' = Outcome
    BY <1>1 DEF StartRound, SaveCheckpoint, Abort, vars, loop, Outcome, Ended
  <2>2. ~CollectRound
    BY <1>1 DEF StartRound, SaveCheckpoint, Abort, vars, loop, CollectRound, Whereabouts
  <2>3. PassedOver' = PassedOver
    BY <2>2, PassedOverNext
  <2> QED BY <2>1, <2>3 DEF Flow!vars, Outcome
<1>2. ASSUME NEW m \in Nodes, ExecuteNode(m) PROVE UNCHANGED Flow!vars
  <2>1. UNCHANGED <<edges, loop, aborted>>
    BY <1>2, NodeTypes
  <2>2. executed' = executed /\ edges' = edges /\ Outcome' = Outcome
    BY <2>1 DEF loop, Outcome, Ended
  <2>3. Out' = Out
    BY <2>2, ExecutedGrows DEF Out
  <2>4. ~CollectRound
    BY <2>1, <1>2 DEF loop, CollectRound, Whereabouts
  <2>5. PassedOver' = PassedOver
    BY <2>4, PassedOverNext
  <2> QED BY <2>2, <2>3, <2>5 DEF Flow!vars, Out, Outcome
<1> QED BY <1>1, <1>2, CollectFires, EndCompletes, ThrowGivesUp DEF Next, Loop, Flow!Next

\* The executor implements Dataflow: whatever runs in parallel, fails, is aborted
\* or saved, what has been executed is what a dataflow execution has fired.
THEOREM Refinement == Spec => FlowSpec
<1>1. IInv /\ [Next]_vars => [Flow!Next]_(Flow!vars)
  BY FlowNext DEF IInv
<1> QED BY <1>1, FlowInit, Invariance, PTL DEF Spec, FlowSpec, Flow!Spec

FlowFacts == INSTANCE DataflowProofs WITH
                 Silent <- Outspoken,
                 done <- executed,
                 lost <- PassedOver,
                 out <- [n \in Nodes |-> IF n \in executed THEN handle[n] ELSE "none"],
                 outcome <- IF Ended THEN at ELSE "running"

\* Which nodes a completed execution has reached depends on the handles its nodes chose
\* and the failures that were ignored, not on the rounds: they are the least closed set.
THEOREM Determinate == Spec => []RunIsDetermined
<1>1. FlowFacts!Spec => []FlowFacts!LeastFixpoint
  BY FlowFacts!Determinate, NodesAssumption, HandlesAssumption, GraphsAssumption
     DEF FlowFacts!IsFiniteSet, IsFiniteSet, FlowFacts!Edge, Edge, FlowFacts!OutputHandles, OutputHandles
<1>2. FlowFacts!LeastFixpoint <=> Flow!LeastFixpoint
  BY DEF FlowFacts!LeastFixpoint, Flow!LeastFixpoint, FlowFacts!Closed, Flow!Closed,
     FlowFacts!FollowsFrom, Flow!FollowsFrom, FlowFacts!Reached, Flow!Reached,
     FlowFacts!Deps, Flow!Deps, FlowFacts!ShouldExecute, Flow!ShouldExecute, FlowFacts!Live,
     Flow!Live, FlowFacts!Incoming, Flow!Incoming
<1>3. Flow!Init => FlowFacts!Init
  BY DEF Flow!Init, FlowFacts!Init
<1>4. [Flow!Next]_(Flow!vars) => [FlowFacts!Next]_(FlowFacts!vars)
  BY DEF Flow!Next, FlowFacts!Next, Flow!vars, FlowFacts!vars, Flow!Fire, FlowFacts!Fire,
     Flow!Complete, FlowFacts!Complete, Flow!GiveUp, FlowFacts!GiveUp, Flow!CanFire, FlowFacts!CanFire,
     FlowFacts!Reached, Flow!Reached,
     FlowFacts!Deps, Flow!Deps, FlowFacts!ShouldExecute, Flow!ShouldExecute, FlowFacts!Live,
     Flow!Live, FlowFacts!Incoming, Flow!Incoming, FlowFacts!OutputHandles, Flow!OutputHandles
<1> QED BY <1>1, <1>2, <1>3, <1>4, Refinement, PTL
   DEF FlowSpec, Flow!Spec, FlowFacts!Spec, RunIsDetermined

\* In every graph, the only nodes data does not reach are merges behind a source that
\* never ran: chains, trees and the branches of a condition are always run to their ends.
THEOREM OnlyMergesAreStarved == Spec => []OnlyMergesStarve
<1>1. IInv /\ RunIsDetermined => OnlyMergesStarve
  <2> SUFFICES ASSUME TypeOK, Whereabouts, RunIsDetermined, at = "completed",
                      NEW x \in edges, Live(x, executed, handle),
                      \A y \in Incoming(edges, x.target) : y.source \in executed \cup PassedOver
               PROVE  x.target \in executed \cup PassedOver
    BY DEF OnlyMergesStarve, IInv
  <2>1. Flow!Closed(executed \cup PassedOver)
    BY DEF RunIsDetermined, Flow!LeastFixpoint, Flow!Reached, Ended
  <2>2. x \in Edge /\ x.target \in Nodes /\ x \in Incoming(edges, x.target)
    BY GraphsAssumption DEF TypeOK, Edge, Incoming
  <2>3. Deps(edges, x.target) \subseteq executed \cup PassedOver
    BY DEF Deps
  <2>4. ShouldExecute(edges, executed, [n \in Nodes |-> IF n \in executed THEN handle[n] ELSE "none"],
                      x.target)
    <3>1. x.source \in executed /\ x.source \in Nodes /\ x.handle \in {handle[x.source], "output"}
      BY <2>2 DEF Live, TypeOK
    <3> QED BY <2>2, <3>1 DEF ShouldExecute, Live
  <2>5. (executed \cup PassedOver) \ PassedOver = executed
    BY DEF Whereabouts, PassedOver, Ignored
  <2> QED BY <2>1, <2>2, <2>3, <2>4, <2>5
     DEF Flow!Closed, Flow!FollowsFrom, Flow!Deps, Flow!ShouldExecute, Flow!Incoming, Flow!Live,
         Deps, ShouldExecute, Incoming, Live
<1> QED BY <1>1, Invariance, Determinate, PTL

-----------------------------------------------------------------------------
(* The node of an execution is a call as NodeCall promises it.             *)

Phases == [n \in Nodes |-> PhaseOf(n)]
AbortedCalls == IF aborted THEN Nodes ELSE {}

\* The abort reaches all calls of the execution at once; nothing else touches it.
LEMMA LoopCalls ==
  ASSUME TypeOK, Whereabouts, NoMoreNodes \/ NoticeAbort \/ CollectRound \/ ThrowFromRound
                                 \/ SaveCheckpoint \/ SaveFails \/ UNCHANGED vars
  PROVE  UNCHANGED <<Phases, AbortedCalls>>
<1>1. UNCHANGED <<stage, aborted>>
  BY DEF NoMoreNodes, NoticeAbort, CollectRound, ThrowFromRound, SaveCheckpoint, SaveFails, vars
<1> QED BY <1>1 DEF Phases, PhaseOf, AbortedCalls

\* A round starts calls of nodes that have not been called.
LEMMA RoundStarts ==
  ASSUME TypeOK, Whereabouts, StartRound
  PROVE  Call!Next
<1>1. PICK B \in SUBSET Ready : \E refused \in SUBSET B :
            /\ B # {} /\ batch' = B /\ pending' = pending \ B
            /\ stage' = [n \in Nodes |-> IF n \in refused THEN "error"
                                         ELSE IF n \in B THEN "logging" ELSE stage[n]]
  BY StageOfRound
<1>2. PICK refused \in SUBSET B :
            stage' = [n \in Nodes |-> IF n \in refused THEN "error"
                                      ELSE IF n \in B THEN "logging" ELSE stage[n]]
  BY <1>1
<1>3. B \in SUBSET Nodes /\ \A n \in B : stage[n] = "idle"
  BY DEF Ready, Whereabouts, TypeOK
<1>4. Phases' = [n \in Nodes |-> IF n \in refused THEN "ended"
                                 ELSE IF n \in B THEN "logging" ELSE Phases[n]]
  BY <1>2 DEF Phases, PhaseOf
<1>5. UNCHANGED AbortedCalls
  BY DEF StartRound, AbortedCalls
<1>6. \A n \in B : Phases[n] = "idle"
  BY <1>3 DEF Phases, PhaseOf
<1>7. Call!Start(B, refused)
  BY <1>4, <1>5, <1>6 DEF Call!Start, Phases, AbortedCalls
<1> QED BY <1>3, <1>7 DEF Call!Next

\* A step of executeNode is a step of its call, or one of its catch block.
LEMMA NodeCalls ==
  ASSUME TypeOK, NEW n \in Nodes, ExecuteNode(n)
  PROVE  [Call!Next]_(Call!vars)
<1>0. UNCHANGED AbortedCalls
  BY NodeTypes DEF AbortedCalls
<1>1. ASSUME NEW s, GotoStage(n, s)
      PROVE  Phases' = [Phases EXCEPT ![n] =
                 IF s \in {"skipping", "recovering", "failing", "ok", "error"} THEN "ended" ELSE s]
  <2>1. \A m \in Nodes : stage'[m] = IF m = n THEN s ELSE stage[m]
    BY <1>1 DEF GotoStage, TypeOK
  <2> QED BY <2>1 DEF Phases, PhaseOf
<1>2. Phases[n] = PhaseOf(n)
  BY DEF Phases
<1>3. CASE LogStarted(n)
  <2>1. PhaseOf(n) = "logging" /\ GotoStage(n, "running")
    BY <1>3 DEF LogStarted, PhaseOf
  <2>2. Call!Run(n)
    BY <1>0, <1>1, <1>2, <2>1 DEF Call!Run, Call!Moves, Phases, AbortedCalls
  <2> QED BY <2>2 DEF Call!Next
<1>4. CASE RunnerReturns(n)
  <2>1. PhaseOf(n) = "running" /\ GotoStage(n, "recording") /\ n \notin AbortedCalls
    BY <1>4 DEF RunnerReturns, PhaseOf, AbortedCalls
  <2>2. Call!Return(n)
    BY <1>0, <1>1, <1>2, <2>1 DEF Call!Return, Call!Moves, Phases, AbortedCalls
  <2> QED BY <2>2 DEF Call!Next
<1>5. CASE LogCompleted(n) /\ n \in SubWorkflows
  <2>1. PhaseOf(n) = "recording" /\ GotoStage(n, "sub")
    BY <1>5 DEF LogCompleted, PhaseOf
  <2>2. Call!Ask(n)
    BY <1>0, <1>1, <1>2, <2>1 DEF Call!Ask, Call!Moves, Phases, AbortedCalls
  <2> QED BY <2>2 DEF Call!Next
<1>6. CASE \/ LogStartFails(n) \/ RunnerThrows(n) \/ LogCompletedFails(n)
           \/ LogCompleted(n) /\ n \notin SubWorkflows
           \/ SubWorkflowReturns(n) \/ SubWorkflowThrows(n)
  <2>1. PhaseOf(n) \in {"logging", "running", "recording", "sub"}
    BY <1>6 DEF LogStartFails, RunnerThrows, LogCompletedFails, LogCompleted,
                SubWorkflowReturns, SubWorkflowThrows, PhaseOf
  <2>2. PICK s \in {"skipping", "recovering", "failing", "ok", "error"} : GotoStage(n, s)
    BY <1>6 DEF LogStartFails, RunnerThrows, LogCompletedFails, LogCompleted,
                SubWorkflowReturns, SubWorkflowThrows, Catch, Fails
  <2>3. Call!Moves(n, PhaseOf(n), "ended")
    BY <1>1, <1>2, <2>2 DEF Call!Moves, Phases
  <2>4. PhaseOf(n) \in Call!Phase \ {"idle", "ended"}
    BY <2>1 DEF Call!Phase
  <2>5. Call!End(n)
    BY <1>0, <2>3, <2>4 DEF Call!End, AbortedCalls
  <2> QED BY <2>5 DEF Call!Next
<1>7. CASE LogCaught(n) \/ LogCaughtFails(n)
  <2>1. PhaseOf(n) = "ended"
    BY <1>7 DEF LogCaught, LogCaughtFails, PhaseOf
  <2>2. PICK s \in {"ok", "error"} : GotoStage(n, s)
    BY <1>7 DEF LogCaught, LogCaughtFails, Fails
  <2>3. Phases' = [Phases EXCEPT ![n] = "ended"]
    BY <1>1, <2>2
  <2>4. Phases' = Phases
    BY <1>2, <2>1, <2>3 DEF Phases
  <2> QED BY <1>0, <2>4 DEF Call!vars, Phases, AbortedCalls
<1> QED BY <1>3, <1>4, <1>5, <1>6, <1>7 DEF ExecuteNode

\* What the executor asks of a node is a call module NodeCall promises, and its rounds,
\* its failures and its abort do not interfere with it.
THEOREM NodesAreCalls == Spec => CallSpec
<1>1. Init => Call!Init
  BY DEF Init, Call!Init, PhaseOf
<1>2. IInv /\ [Next]_vars => [Call!Next]_(Call!vars)
  <2> SUFFICES ASSUME TypeOK, Whereabouts, [Next]_vars PROVE [Call!Next]_(Call!vars)
    BY DEF IInv
  <2>1. CASE Abort
    <3>1. Phases' = Phases /\ AbortedCalls' = AbortedCalls \cup Nodes
      BY <2>1 DEF Abort, Phases, PhaseOf, AbortedCalls
    <3>2. Call!Abort(Nodes)
      BY <3>1 DEF Call!Abort, Phases, AbortedCalls
    <3> QED BY <3>2 DEF Call!Next
  <2>2. CASE UNCHANGED <<Phases, AbortedCalls>>
    BY <2>2 DEF Call!vars, Phases, AbortedCalls
  <2> QED BY <2>1, <2>2, LoopCalls, RoundStarts, NodeCalls DEF Next, Loop
<1> QED BY <1>1, <1>2, Invariance, PTL DEF Spec, CallSpec, Call!Spec

-----------------------------------------------------------------------------
(* The execution is a frame as ExecutorFrame promises it.                  *)

Runner == IF ~Ended THEN "working" ELSE IF at = "completed" THEN "done" ELSE "threw"
OpenSubs == {n \in Nodes : stage[n] = "sub"}

\* Only a node that may call a sub-workflow awaits one.
SubsAsk == OpenSubs \subseteq SubWorkflows

\* The loop opens and closes no call, and ends with none open.
LEMMA LoopFrames ==
  ASSUME TypeOK, Whereabouts, Whereabouts', Loop \/ Abort \/ UNCHANGED vars
  PROVE  OpenSubs' = OpenSubs /\ [Frame!Next]_(Frame!vars)
<1>1. OpenSubs' = OpenSubs
  <2>1. CASE StartRound
    <3>1. PICK B \in SUBSET Ready : \E refused \in SUBSET B :
              stage' = [n \in Nodes |-> IF n \in refused THEN "error"
                                        ELSE IF n \in B THEN "logging" ELSE stage[n]]
      BY <2>1, StageOfRound
    <3>2. \A n \in B : stage[n] = "idle"
      BY DEF Ready, Whereabouts
    <3>3. \A n \in Nodes : stage'[n] = stage[n] \/ (stage[n] = "idle" /\ stage'[n] \in {"error", "logging"})
      BY <3>1, <3>2
    <3> QED BY <3>3 DEF OpenSubs
  <2>2. CASE stage' = stage
    BY <2>2 DEF OpenSubs
  <2> QED BY <2>1, <2>2 DEF Loop, Abort, NoMoreNodes, NoticeAbort, CollectRound, ThrowFromRound,
     SaveCheckpoint, SaveFails, vars
<1>2. CASE ~Ended /\ Ended'
  <2>1. OpenSubs = {}
    <3>1. \A n \in batch' : stage'[n] \in {"ok", "error"}
      BY <1>2 DEF Whereabouts, Settled
    <3>2. \A n \in Nodes : \/ n \in pending' \/ n \in batch' \/ n \in executed'
                           \/ stage'[n] = "error"
      BY DEF Whereabouts, PassedOver, Ignored
    <3>3. \A n \in Nodes : stage'[n] # "sub"
      BY <3>1, <3>2 DEF Whereabouts
    <3> QED BY <1>1, <3>3 DEF OpenSubs
  <2>2. Runner = "working" /\ Runner' \in {"done", "threw"}
    BY <1>2 DEF Runner
  <2>3. Frame!End
    BY <1>1, <2>1, <2>2 DEF Frame!End, Runner, OpenSubs
  <2> QED BY <1>1, <2>3 DEF Frame!Next
<1>3. CASE ~(~Ended /\ Ended')
  <2>1. Runner' = Runner
    BY <1>3 DEF Runner, Ended, Loop, StartRound, NoMoreNodes, NoticeAbort, CollectRound, ThrowFromRound,
       SaveCheckpoint, SaveFails, Abort, vars, loop
  <2> QED BY <1>1, <2>1 DEF Frame!vars, Runner, OpenSubs
<1> QED BY <1>2, <1>3

\* A node opens a call while the execution runs, or closes its own.
LEMMA NodeFrames ==
  ASSUME TypeOK, Whereabouts, SubsAsk, NEW n \in Nodes, ExecuteNode(n)
  PROVE  SubsAsk' /\ [Frame!Next]_(Frame!vars)
<1>1. PICK s \in Stages : stage' = [stage EXCEPT ![n] = s]
  BY NodeTypes
<1>2. ~Ended /\ Runner' = Runner /\ Runner = "working"
  <2>1. stage[n] \notin {"idle", "ok", "error"} /\ UNCHANGED loop
    BY NodeTypes
  <2>2. n \in batch
    BY <2>1 DEF Whereabouts, PassedOver, Ignored
  <2> QED BY <2>1, <2>2 DEF Whereabouts, Settled, Ended, loop, Runner
<1>3. OpenSubs' = IF s = "sub" THEN OpenSubs \cup {n} ELSE OpenSubs \ {n}
  <2>1. \A m \in Nodes : stage'[m] = IF m = n THEN s ELSE stage[m]
    BY <1>1 DEF TypeOK
  <2> QED BY <2>1 DEF OpenSubs
<1>4. CASE s = "sub"
  <2>1. stage'[n] = "sub"
    BY <1>1, <1>4 DEF TypeOK
  <2>2. LogCompleted(n) /\ n \in SubWorkflows /\ stage[n] = "recording"
    BY <2>1 DEF ExecuteNode, LogStarted, LogStartFails, RunnerReturns, RunnerThrows, LogCompleted,
       LogCompletedFails, SubWorkflowReturns, SubWorkflowThrows, LogCaught, LogCaughtFails,
       Catch, Fails, GotoStage, TypeOK
  <2>3. Frame!Ask(n)
    BY <1>2, <1>3, <1>4, <2>2 DEF Frame!Ask, Runner, OpenSubs
  <2> QED BY <1>3, <1>4, <2>2, <2>3 DEF SubsAsk, Frame!Next
<1>5. CASE s # "sub" /\ n \in OpenSubs
  <2>1. Frame!Settle(n)
    BY <1>2, <1>3, <1>5 DEF Frame!Settle, Runner, OpenSubs
  <2> QED BY <1>3, <1>5, <2>1 DEF SubsAsk, Frame!Next
<1>6. CASE s # "sub" /\ n \notin OpenSubs
  <2>1. OpenSubs' = OpenSubs
    BY <1>3, <1>6
  <2> QED BY <1>2, <2>1 DEF SubsAsk, Frame!vars, Runner, OpenSubs
<1> QED BY <1>4, <1>5, <1>6

\* The executor keeps, for every graph, the promise that nested calls rest on: it ends
\* only when no sub-workflow is awaited, whatever round, failure or abort ends it.
THEOREM ExecutionsAreFrames == Spec => FrameSpec
<1>1. Init => SubsAsk /\ Frame!Init
  BY DEF Init, SubsAsk, OpenSubs, Frame!Init, Ended
<1>2. IInv /\ IInv' /\ SubsAsk /\ [Next]_vars => SubsAsk' /\ [Frame!Next]_(Frame!vars)
  <2> SUFFICES ASSUME TypeOK, Whereabouts, Whereabouts', SubsAsk, [Next]_vars
               PROVE  SubsAsk' /\ [Frame!Next]_(Frame!vars)
    BY DEF IInv
  <2>1. CASE Loop \/ Abort \/ UNCHANGED vars
    BY <2>1, LoopFrames DEF SubsAsk
  <2>2. ASSUME NEW n \in Nodes, ExecuteNode(n) PROVE SubsAsk' /\ [Frame!Next]_(Frame!vars)
    BY <2>2, NodeFrames
  <2> QED BY <2>1, <2>2 DEF Next
<1> QED BY <1>1, <1>2, Invariance, PTL DEF Spec, FrameSpec, Frame!Spec

-----------------------------------------------------------------------------
(* Descent: every step brings the execution nearer to its end.             *)

Owed == {x \in Nodes \X (1..8) : x[2] <= AwaitsOf(x[1])}
LoopSteps == IF Ended THEN 0 ELSE IF at = "round" THEN 1 ELSE 2
AbortSteps == IF aborted THEN 0 ELSE 1

LEMMA EightAwaits == IsFiniteSet(1..8) /\ Cardinality(1..8) = 8
<1>1. \A a, b \in Int : IsFiniteSet(a..b) /\ Cardinality(a..b) = IF a > b THEN 0 ELSE b - a + 1
  BY FS_Interval
<1>2. PICK a \in Int, b \in Int : a = 1 /\ b = 8
  OBVIOUS
<1>3. IsFiniteSet(a..b) /\ Cardinality(a..b) = IF a > b THEN 0 ELSE b - a + 1
  BY <1>1, Zenon
<1>4. (IF a > b THEN 0 ELSE b - a + 1) = 8
  BY <1>2
<1> QED BY <1>2, <1>3, <1>4

LEMMA OwedFinite == IsFiniteSet(Owed) /\ Cardinality(Owed) \in Nat
<1>0. IsFiniteSet(1..8)
  BY EightAwaits
<1>1. IsFiniteSet(Nodes \X (1..8))
  BY <1>0, NodesAssumption, FS_Product
<1>2. Owed \in SUBSET (Nodes \X (1..8))
  BY DEF Owed
<1> QED BY <1>1, <1>2, FS_Subset, FS_CardinalityType

\* Losing elements of a finite set.
LEMMA Loses ==
  ASSUME NEW S, IsFiniteSet(S), NEW x \in S, NEW T \in SUBSET (S \ {x})
  PROVE  IsFiniteSet(T) /\ Cardinality(T) + 1 <= Cardinality(S)
<1>1. /\ IsFiniteSet(S \ {x}) /\ Cardinality(S \ {x}) = Cardinality(S) - 1
      /\ Cardinality(S) \in Nat
  BY FS_RemoveElement, FS_CardinalityType
<1>2. IsFiniteSet(T) /\ Cardinality(T) <= Cardinality(S \ {x}) /\ Cardinality(T) \in Nat
  BY <1>1, FS_Subset, FS_CardinalityType
<1> QED BY <1>1, <1>2

LEMMA AwaitsType == ASSUME NEW n PROVE AwaitsOf(n) \in 0..8
BY DEF AwaitsOf

\* A node that comes back from an await has one fewer to come back from, and the
\* others are where they were.
LEMMA NodeDescends ==
  ASSUME TypeOK, Whereabouts, NEW n \in Nodes, ExecuteNode(n)
  PROVE  StepsLeft' < StepsLeft
<1>1. /\ \E s \in Stages \ {"idle", "logging"} : stage' = [stage EXCEPT ![n] = s]
      /\ stage[n] \notin {"idle", "ok", "error"}
      /\ UNCHANGED <<loop, aborted>>
  BY NodeTypes
<1>2. n \notin executed \cup PassedOver /\ executed' = executed /\ PassedOver' = PassedOver
  <2>1. n \notin executed \cup PassedOver /\ executed' = executed /\ n \in batch
    BY <1>1 DEF Whereabouts, loop, PassedOver, Ignored
  <2>2. ~CollectRound
    BY <1>1, <2>1 DEF loop, CollectRound
  <2>3. Next
    BY DEF Next
  <2> QED BY <2>1, <2>2, <2>3, PassedOverNext
<1>3. \A m \in Nodes \ {n} : AwaitsOf(m)' = AwaitsOf(m)
  <2> HIDE DEF PassedOver
  <2> QED BY <1>1, <1>2 DEF AwaitsOf, TypeOK
<1>4. AwaitsOf(n)' < AwaitsOf(n)
  <2> USE <1>2 DEF AwaitsOf, GotoStage, Catch, Fails, TypeOK
  <2>1. CASE LogStarted(n) \/ LogStartFails(n)
    BY <2>1 DEF LogStarted, LogStartFails
  <2>2. CASE RunnerReturns(n) \/ RunnerThrows(n)
    BY <2>2 DEF RunnerReturns, RunnerThrows
  <2>3. CASE LogCompleted(n) \/ LogCompletedFails(n)
    BY <2>3 DEF LogCompleted, LogCompletedFails
  <2>4. CASE SubWorkflowReturns(n) \/ SubWorkflowThrows(n)
    BY <2>4 DEF SubWorkflowReturns, SubWorkflowThrows
  <2>5. CASE LogCaught(n) \/ LogCaughtFails(n)
    BY <2>5 DEF LogCaught, LogCaughtFails
  <2> QED BY <2>1, <2>2, <2>3, <2>4, <2>5 DEF ExecuteNode
<1>5. AwaitsOf(n) \in 1..8 /\ AwaitsOf(n)' \in 0..8
  <2>1. AwaitsOf(n) \in 0..8 /\ AwaitsOf(n)' \in 0..8
    BY DEF AwaitsOf
  <2> QED BY <1>4, <2>1
<1>6. <<n, AwaitsOf(n)>> \in Owed
  BY <1>5 DEF Owed
<1>7. Owed' \in SUBSET (Owed \ {<<n, AwaitsOf(n)>>})
  <2> SUFFICES ASSUME NEW x \in Owed' PROVE x \in Owed /\ x # <<n, AwaitsOf(n)>>
    OBVIOUS
  <2>1. PICK m \in Nodes, k \in 1..8 : x = <<m, k>> /\ k <= AwaitsOf(m)'
    BY DEF Owed
  <2>2. CASE m = n
    <3>1. k < AwaitsOf(n)
      BY <1>4, <1>5, <2>1, <2>2
    <3> QED BY <1>5, <2>1, <2>2, <3>1 DEF Owed
  <2>3. CASE m # n
    BY <1>3, <2>1, <2>3 DEF Owed
  <2> QED BY <2>2, <2>3
<1>8. Cardinality(Owed') + 1 <= Cardinality(Owed) /\ Cardinality(Owed') \in Nat
  BY <1>6, <1>7, OwedFinite, Loses, FS_CardinalityType
<1>9. LoopSteps' = LoopSteps /\ AbortSteps' = AbortSteps
  BY <1>1 DEF LoopSteps, AbortSteps, loop, Ended
<1>10. /\ StepsLeft = Cardinality(Owed) + LoopSteps + AbortSteps
       /\ StepsLeft' = Cardinality(Owed') + LoopSteps' + AbortSteps'
  BY DEF StepsLeft, Owed, LoopSteps, AbortSteps
<1>11. LoopSteps \in 0..2 /\ AbortSteps \in 0..1
  BY DEF LoopSteps, AbortSteps
<1> QED BY <1>8, <1>9, <1>10, <1>11, OwedFinite

\* A step of the loop or an abort takes no node back, and what the loop gains by
\* starting a round is less than what the nodes it starts lose.
LEMMA LoopDescends ==
  ASSUME TypeOK, Whereabouts, Loop \/ Abort
  PROVE  StepsLeft' < StepsLeft
<1>1. /\ StepsLeft = Cardinality(Owed) + LoopSteps + AbortSteps
      /\ StepsLeft' = Cardinality(Owed') + LoopSteps' + AbortSteps'
  BY DEF StepsLeft, Owed, LoopSteps, AbortSteps
<1>2. /\ LoopSteps \in 0..2 /\ AbortSteps \in 0..1
      /\ LoopSteps' \in 0..2 /\ AbortSteps' \in 0..1
  BY DEF LoopSteps, AbortSteps
<1>3. Cardinality(Owed) \in Nat
  BY OwedFinite
<1>4. CASE StartRound
  <2>1. PICK B \in SUBSET Ready : \E refused \in SUBSET B :
            /\ B # {} /\ batch' = B /\ pending' = pending \ B
            /\ stage' = [n \in Nodes |-> IF n \in refused THEN "error"
                                         ELSE IF n \in B THEN "logging" ELSE stage[n]]
    BY <1>4, StageOfRound
  <2>2. PICK b \in B : TRUE
    BY <2>1
  <2>3. /\ at = "round" /\ at' = "wait" /\ ~aborted /\ ~aborted' /\ executed' = executed
    BY <1>4 DEF StartRound
  <2>4. b \in Nodes /\ b \in pending /\ B \subseteq pending /\ pending \subseteq Nodes
    BY <2>1 DEF Ready, TypeOK
  <2>5. \A n \in Nodes : /\ n \in B => stage[n] = "idle" /\ stage'[n] \in {"error", "logging"}
                         /\ n \notin B => stage'[n] = stage[n]
    BY <2>1, <2>4 DEF Whereabouts
  <2>6. b \notin executed \cup PassedOver /\ PassedOver' = PassedOver
    <3>1. ~CollectRound /\ Next
      BY <2>3, <1>4 DEF CollectRound, Next, Loop
    <3> QED BY <2>4, <3>1, PassedOverNext DEF Whereabouts, PassedOver, Ignored
  <2>7. AwaitsOf(b) = 8 /\ AwaitsOf(b)' <= 6
    BY <2>2, <2>3, <2>4, <2>5, <2>6 DEF AwaitsOf
  <2>8. \A n \in Nodes : AwaitsOf(n)' <= AwaitsOf(n)
    BY <2>3, <2>5, <2>6 DEF AwaitsOf
  <2>9. <<b, 8>> \in Owed /\ <<b, 7>> \in Owed \ {<<b, 8>>}
    BY <2>4, <2>7 DEF Owed
  <2>10. Owed' \in SUBSET ((Owed \ {<<b, 8>>}) \ {<<b, 7>>})
    <3> SUFFICES ASSUME NEW x \in Owed' PROVE x \in Owed /\ x # <<b, 8>> /\ x # <<b, 7>>
      OBVIOUS
    <3>1. PICK m \in Nodes, k \in 1..8 : x = <<m, k>> /\ k <= AwaitsOf(m)'
      BY DEF Owed
    <3>2. AwaitsOf(m) \in 0..8 /\ AwaitsOf(m)' \in 0..8
      BY DEF AwaitsOf
    <3>3. k <= AwaitsOf(m)
      BY <2>8, <3>1, <3>2
    <3>4. m = b => k <= 6
      BY <2>7, <3>1, <3>2
    <3> QED BY <3>1, <3>3, <3>4 DEF Owed
  <2>11. /\ Cardinality(Owed \ {<<b, 8>>}) + 1 <= Cardinality(Owed)
         /\ IsFiniteSet(Owed \ {<<b, 8>>})
    BY <2>9, OwedFinite, Loses
  <2>12. Cardinality(Owed') + 1 <= Cardinality(Owed \ {<<b, 8>>}) /\ IsFiniteSet(Owed')
    <3> DEFINE S == Owed \ {<<b, 8>>}
    <3>1. IsFiniteSet(S) /\ <<b, 7>> \in S /\ Owed' \in SUBSET (S \ {<<b, 7>>})
      BY <2>9, <2>10, <2>11
    <3> HIDE DEF S
    <3>2. IsFiniteSet(Owed') /\ Cardinality(Owed') + 1 <= Cardinality(S)
      BY <3>1, Loses
    <3> QED BY <3>2 DEF S
  <2>13. Cardinality(Owed \ {<<b, 8>>}) \in Nat /\ Cardinality(Owed') \in Nat
    BY <2>11, <2>12, FS_CardinalityType
  <2>14. LoopSteps = 1 /\ LoopSteps' = 2 /\ AbortSteps' = AbortSteps
    BY <2>3 DEF LoopSteps, AbortSteps, Ended
  <2> QED BY <1>1, <1>2, <1>3, <2>11, <2>12, <2>13, <2>14
<1>5. CASE CollectRound
  <2>1. PICK b \in batch : TRUE
    BY <1>5 DEF CollectRound, Whereabouts
  <2>2. /\ at = "wait" /\ at' \in {"save", "round"} /\ aborted' = aborted /\ stage' = stage
        /\ executed' \cup PassedOver' = executed \cup PassedOver \cup batch
        /\ \A n \in batch : stage[n] \in {"ok", "error"}
    <3>1. PassedOver' = PassedOver \cup {n \in batch : Ignored(n)}
      <4>1. Next
        BY <1>5 DEF Next, Loop
      <4> QED BY <1>5, <4>1, PassedOverNext
    <3>2. executed' = executed \cup {n \in batch : stage[n] = "ok"}
      BY <1>5 DEF CollectRound
    <3>3. \A n \in batch : stage[n] = "ok" \/ Ignored(n)
      BY <1>5 DEF CollectRound
    <3> HIDE DEF PassedOver
    <3> QED BY <1>5, <3>1, <3>2, <3>3 DEF CollectRound, Ignored
  <2>3. b \in Nodes /\ b \notin executed \cup PassedOver
    BY <2>1 DEF Whereabouts, TypeOK, PassedOver
  <2>4. AwaitsOf(b) = 1 /\ AwaitsOf(b)' = 0
    BY <2>1, <2>2, <2>3 DEF AwaitsOf
  <2>5. \A n \in Nodes : AwaitsOf(n)' <= AwaitsOf(n)
    BY <2>2 DEF AwaitsOf
  <2>6. <<b, 1>> \in Owed
    BY <2>3, <2>4 DEF Owed
  <2>7. Owed' \in SUBSET (Owed \ {<<b, 1>>})
    <3> SUFFICES ASSUME NEW x \in Owed' PROVE x \in Owed /\ x # <<b, 1>>
      OBVIOUS
    <3>1. PICK m \in Nodes, k \in 1..8 : x = <<m, k>> /\ k <= AwaitsOf(m)'
      BY DEF Owed
    <3>2. AwaitsOf(m) \in 0..8 /\ AwaitsOf(m)' \in 0..8
      BY DEF AwaitsOf
    <3>3. k <= AwaitsOf(m)
      BY <2>5, <3>1, <3>2
    <3>4. m # b
      BY <2>4, <3>1
    <3> QED BY <3>1, <3>3, <3>4 DEF Owed
  <2>8. Cardinality(Owed') + 1 <= Cardinality(Owed) /\ Cardinality(Owed') \in Nat
    BY <2>6, <2>7, OwedFinite, Loses, FS_CardinalityType
  <2>9. LoopSteps = 2 /\ AbortSteps' = AbortSteps
    BY <2>2 DEF LoopSteps, AbortSteps, Ended
  <2> QED BY <1>1, <1>2, <1>3, <2>8, <2>9
<1>6. CASE NoMoreNodes \/ NoticeAbort \/ ThrowFromRound \/ SaveCheckpoint \/ SaveFails \/ Abort
  <2>1. stage' = stage /\ executed' = executed /\ PassedOver' = PassedOver
    BY <1>6 DEF NoMoreNodes, NoticeAbort, ThrowFromRound, SaveCheckpoint, SaveFails, Abort, loop,
                PassedOver, Ignored
  <2>2. \A n : AwaitsOf(n)' = AwaitsOf(n)
    BY <2>1 DEF AwaitsOf
  <2>3. Owed' = Owed
    BY <2>2 DEF Owed
  <2>4. CASE Abort
    <3>1. LoopSteps' = LoopSteps /\ AbortSteps = 1 /\ AbortSteps' = 0
      BY <2>4 DEF Abort, LoopSteps, AbortSteps, loop, Ended
    <3> QED BY <1>1, <1>2, <1>3, <2>3, <3>1
  <2>5. CASE SaveCheckpoint
    <3>1. LoopSteps = 2 /\ LoopSteps' = 1 /\ AbortSteps' = AbortSteps
      BY <2>5 DEF SaveCheckpoint, LoopSteps, AbortSteps, Ended
    <3> QED BY <1>1, <1>2, <1>3, <2>3, <3>1
  <2>6. CASE NoMoreNodes \/ NoticeAbort \/ ThrowFromRound \/ SaveFails
    <3>1. LoopSteps \in 1..2 /\ LoopSteps' = 0 /\ AbortSteps' = AbortSteps
      BY <2>6 DEF NoMoreNodes, NoticeAbort, ThrowFromRound, SaveFails, Throw, LoopSteps,
         AbortSteps, Ended
    <3> QED BY <1>1, <1>2, <1>3, <2>3, <3>1
  <2> QED BY <1>6, <2>4, <2>5, <2>6
<1> QED BY <1>4, <1>5, <1>6 DEF Loop

\* No execution goes on for ever, whatever its graph, cycles included: every step
\* takes it nearer to its end.
THEOREM Descent == Spec => Descends
<1>1. IInv /\ [Next]_vars => [StepsLeft' < StepsLeft]_vars
  BY NodeDescends, LoopDescends DEF IInv, Next
<1> QED BY <1>1, Invariance, PTL DEF Spec, Descends

\* The measure is a natural number, and it starts at 8 for each node and 2 more: that
\* many steps at most, then the execution has ended or stands still.
THEOREM ShortRuns ==
    /\ Init => StepsLeft = 8 * Cardinality(Nodes) + 2
    /\ StepsLeft \in Nat
<1>1. StepsLeft \in Nat
  BY OwedFinite DEF StepsLeft, Owed
<1>2. ASSUME Init PROVE StepsLeft = 8 * Cardinality(Nodes) + 2
  <2>1. \A n \in Nodes : AwaitsOf(n) = 8
    BY <1>2 DEF Init, AwaitsOf
  <2>2. Owed = Nodes \X (1..8)
    BY <2>1 DEF Owed
  <2>3. Cardinality(Owed) = Cardinality(Nodes) * 8
    <3>1. IsFiniteSet(1..8) /\ Cardinality(1..8) = 8
      BY EightAwaits
    <3>2. Cardinality(Nodes \X (1..8)) = Cardinality(Nodes) * Cardinality(1..8)
      BY <3>1, NodesAssumption, FS_Product
    <3> QED BY <2>2, <3>1, <3>2
  <2>4. Cardinality(Nodes) \in Nat
    BY NodesAssumption, FS_CardinalityType
  <2>5. ~Ended /\ at = "round" /\ ~aborted
    BY <1>2 DEF Init, Ended
  <2>6. StepsLeft = Cardinality(Owed) + 1 + 1
    BY <2>5 DEF StepsLeft, Owed
  <2> HIDE DEF Owed
  <2> QED BY <2>3, <2>4, <2>6
<1> QED BY <1>1, <1>2
=============================================================================
