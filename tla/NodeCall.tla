------------------------------ MODULE NodeCall ------------------------------
(***************************************************************************)
(* A call of executeNode as its execution and its neighbours may rely on   *)
(* it, with nothing of how: no breaker, bucket, attempts or timer, and no  *)
(* rounds.  It is where module BranchExecutor, which decides when nodes    *)
(* are started and what becomes of them, meets module NodeRetry, which     *)
(* says what stands between a node and its runner: both implement it.      *)
(***************************************************************************)
CONSTANT Calls      \* calls of executeNode

VARIABLES
    phase,      \* how far each call is
    aborted     \* calls whose execution's signal is aborted

vars == <<phase, aborted>>

Phase == {"idle",
          "logging",    \* its log row is being created
          "running",    \* it waits for a token, a runner or the next attempt
          "recording",  \* a runner has returned, the row is being completed
          "sub",        \* the sub-workflow the result asks for runs
          "ended"}      \* well or not; its catch block may still be at work

Init == phase = [c \in Calls |-> "idle"] /\ aborted = {}

Moves(c, from, to) == phase[c] = from /\ phase' = [phase EXCEPT ![c] = to]

\* Calls are started together; those that find the breaker open end at once.
Start(S, refused) ==
    /\ \A c \in S : phase[c] = "idle"
    /\ phase' = [c \in Calls |-> IF c \in refused THEN "ended"
                                 ELSE IF c \in S THEN "logging" ELSE phase[c]]
    /\ UNCHANGED aborted

Run(c) == Moves(c, "logging", "running") /\ UNCHANGED aborted

\* No result is taken from a runner once the signal is aborted.
Return(c) ==
    /\ c \notin aborted
    /\ Moves(c, "running", "recording")
    /\ UNCHANGED aborted

Ask(c) == Moves(c, "recording", "sub") /\ UNCHANGED aborted

End(c) ==
    /\ \E from \in Phase \ {"idle", "ended"} : Moves(c, from, "ended")
    /\ UNCHANGED aborted

Abort(S) == aborted' = aborted \cup S /\ UNCHANGED phase

Next ==
    \/ \E S \in SUBSET Calls : \E refused \in SUBSET S : Start(S, refused)
    \/ \E c \in Calls : Run(c) \/ Return(c) \/ Ask(c) \/ End(c)
    \/ \E S \in SUBSET Calls : Abort(S)

Spec == Init /\ [][Next]_vars
=============================================================================
