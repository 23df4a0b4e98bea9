--------------------------- MODULE VersioningProofs ---------------------------
(***************************************************************************)
(* Type correctness and the safety properties of Versioning, for any       *)
(* graphs, branches, pull requests and requests in flight.                 *)
(*                                                                         *)
(* Every read of the module begins a request (Opening says with what);     *)
(* every write moves one request on.  ReqOK says what a request at a       *)
(* statement may rely on, of rows that other requests have written since   *)
(* it read them; Pending and OneWriter are the argument that the unique    *)
(* index orders the saves.                                                 *)
(***************************************************************************)
EXTENDS Versioning, SequenceTheorems, TLAPS

\* The operations that come to a statement.
OpOK(q) ==
    /\ q.at = "done" => q.op = "none"
    /\ q.at = "snapshot" => q.op = "save"
    /\ q.at = "workflow" => q.op \in {"save", "edit", "merge", "rollback", "suggest"}
    /\ q.at = "approval" => q.op = "merge"
    /\ q.at = "branch" => q.op \in {"edit", "merge", "rollback"}
    /\ q.at \in {"read", "insert", "head"} =>
          q.op \in {"found", "edit", "commit", "merge", "rollback"}
    /\ q.at = "add" => q.op \in {"list", "fork", "found"}
    /\ q.at = "open" => q.op = "propose"
    /\ q.at = "review" => q.op = "review"
    /\ q.at = "retire" => q.op \in {"merge", "delete"}
    /\ q.at = "close" => q.op \in {"merge", "close"}

Retired(b) == branches[b].status \in {"MERGED", "DELETED"}
Committed(p, c) == \E i \in DOMAIN commits : commits[i].branch = c /\ p \in commits[i].merges

\* What a merge has read or written so far.
MergeOK(q) ==
    /\ q.source = prs[q.pr].source /\ q.branch = prs[q.pr].target
    /\ ~prs[q.pr].conflict
    /\ q.at # "approval" /\ prs[q.pr].required => prs[q.pr].approved
    /\ q.at \in {"head", "workflow", "retire", "close"} => Committed(q.pr, q.branch)
    /\ q.at = "close" => Retired(q.source)

ReqOK(q) ==
    /\ OpOK(q)
    /\ q.op = "save" => q.version <= workflow.version
    /\ q.op = "propose" => prs[q.pr].status = "none"
    /\ q.op \in {"merge", "close"} => prs[q.pr].status # "none"
    /\ q.op = "merge" => MergeOK(q)

ReqsOK == \A r \in Requests : ReqOK(requests[r])

\* A pull request yet to be inserted is that of one request.
OneProposal ==
    \A r, x \in Requests :
        /\ requests[r].op = "propose" /\ requests[x].op = "propose"
        /\ requests[r].pr = requests[x].pr
        => r = x

RowsBelow == \A row \in versions : row[1] <= workflow.version

\* A save that no other service has disturbed is alone at its second write ...
Clean(r) == requests[r].op = "save" /\ r \notin disturbed
OneWriter ==
    \A r, x \in Requests :
        Clean(r) /\ Clean(x) /\ At(r, "workflow") /\ At(x, "workflow") => r = x

\* ... and before its first one, what it read is still there, or its version
\* row is taken.
Pending ==
    \A r \in Requests : Clean(r) /\ At(r, "snapshot") =>
        \/ requests[r].version = workflow.version /\ requests[r].old = workflow.graph
        \/ /\ requests[r].version < workflow.version
           /\ \E g \in Graphs : <<requests[r].version, g>> \in versions

IInv ==
    /\ TypeOK /\ ReqsOK /\ OneProposal
    /\ RowsBelow /\ Pending /\ OneWriter
    /\ SavesSerialise /\ SaveNotBlocked /\ MergedIsWhole

\* A request as a read may begin it.
Opening(q) ==
    /\ q \in Request /\ q.at # "done"
    /\ OpOK(q)
    /\ q.op = "save" =>
          q.at = "snapshot" /\ q.version = workflow.version /\ q.old = workflow.graph
    /\ q.op = "propose" =>
          /\ prs[q.pr].status = "none"
          /\ \A x \in Requests : ~(requests[x].op = "propose" /\ requests[x].pr = q.pr)
    /\ q.op \in {"merge", "close"} => prs[q.pr].status # "none"
    /\ q.op = "merge" =>
          /\ q.source = prs[q.pr].source /\ q.branch = prs[q.pr].target
          /\ ~prs[q.pr].conflict
          /\ q.at = IF prs[q.pr].required THEN "approval" ELSE "branch"

-----------------------------------------------------------------------------
(* Operators.                                                              *)

LEMMA EmptyType == Empty \in Graphs
BY DEF Empty, Graphs

LEMMA MergedType ==
  ASSUME NEW g \in Graphs, NEW h \in Graphs, NEW s
  PROVE  Merged(g, h, s) \in Graphs
BY DEF Merged, Graphs

LEMMA IdleType == Idle \in Request
<1>1. (CHOOSE p \in PullRequests : TRUE) \in PullRequests
  BY VersioningAssumption
<1>2. Main \in Branches
  BY VersioningAssumption
<1> QED BY <1>1, <1>2, EmptyType DEF Idle, Request, Operations, Statements

LEMMA IdleFields == Idle.op = "none" /\ Idle.at = "done"
BY DEF Idle

LEMMA AfterType == ASSUME NEW q PROVE After(q) \in Statements
BY DEF After, Statements

\* Where a statement leads keeps to the operations that come there.
LEMMA AfterOps ==
  ASSUME NEW q \in Request, OpOK(q), After(q) # "done"
  PROVE  OpOK([q EXCEPT !.at = After(q)])
<1> DEFINE t == [q EXCEPT !.at = After(q)]
<1>1. t.at = After(q) /\ t.op = q.op
  BY DEF Request
<1>2. q.at \in Statements
  BY DEF Request
<1> HIDE DEF t
<1>3. OpOK(t)
  BY <1>1, <1>2 DEF After, OpOK, Statements
<1> QED BY <1>3 DEF t

LEMMA ContinueType ==
  ASSUME NEW q \in Request
  PROVE  /\ [q EXCEPT !.at = After(q)] \in Request
         /\ [q EXCEPT !.at = After(q)].at = After(q)
         /\ \A c \in Nat : [q EXCEPT !.commit = c] \in Request
BY AfterType DEF Request

-----------------------------------------------------------------------------
(* Reads.                                                                  *)

\* One request begins, as a read lets it.
OneOpens(r) == \E q : Opening(q) /\ Begins(r, q) /\ sent' \in Nat

LEMMA ReadsOpen ==
  ASSUME TypeOK, NEW r \in Requests, Reads(r)
  PROVE  OneOpens(r)
<1> USE VersioningAssumption, EmptyType DEF TypeOK, Opening, OpOK, Starts, Sends, Request, Operations, Statements,
       BranchRow, PullRequest
<1>a. (CHOOSE p \in PullRequests : TRUE) \in PullRequests
  OBVIOUS
<1> USE <1>a
<1>1. ASSUME NEW g \in Graphs, Save(r, g) PROVE OneOpens(r)
  <2> DEFINE q == [Idle EXCEPT !.op = "save", !.at = "snapshot", !.graph = g,
                              !.old = workflow.graph, !.version = workflow.version]
  <2>1. Opening(q)
    BY <1>1 DEF Save, Idle
  <2>2. Begins(r, q) /\ sent' \in Nat
    BY <1>1 DEF Save
  <2> QED BY <2>1, <2>2 DEF OneOpens
<1>2. ASSUME NEW row \in versions, Restore(r, row) PROVE OneOpens(r)
  <2> DEFINE q == [Idle EXCEPT !.op = "save", !.at = "snapshot", !.graph = row[2],
                              !.old = workflow.graph, !.version = workflow.version]
  <2>1. Opening(q)
    BY <1>2 DEF Restore, Idle
  <2>2. Begins(r, q) /\ sent' \in Nat
    BY <1>2 DEF Restore
  <2> QED BY <2>1, <2>2 DEF OneOpens
<1>3. ASSUME ListBranches(r) PROVE OneOpens(r)
  <2> DEFINE q == [Idle EXCEPT !.op = "list", !.at = "add", !.graph = workflow.graph]
  <2>1. Opening(q)
    BY <1>3 DEF ListBranches, Idle
  <2>2. Begins(r, q) /\ sent' \in Nat
    BY <1>3 DEF ListBranches
  <2> QED BY <2>1, <2>2 DEF OneOpens
<1>4. ASSUME NEW b \in Branches, NEW c \in Branches, CreateBranch(r, b, c) PROVE OneOpens(r)
  <2> DEFINE q == [Idle EXCEPT !.op = "fork", !.at = "add", !.branch = b,
                              !.graph = branches[c].graph, !.commit = branches[c].head]
  <2>1. Opening(q)
    BY <1>4 DEF CreateBranch, Idle
  <2>2. Begins(r, q) /\ sent' \in Nat
    BY <1>4 DEF CreateBranch
  <2> QED BY <2>1, <2>2 DEF OneOpens
<1>5. ASSUME NEW b \in Branches, NEW g \in Graphs, CreateCommit(r, b, g) PROVE OneOpens(r)
  <2> DEFINE q == [Idle EXCEPT !.op = "commit", !.at = "read", !.branch = b, !.graph = g]
  <2>1. Opening(q)
    BY <1>5 DEF CreateCommit, Idle
  <2>2. Begins(r, q) /\ sent' \in Nat
    BY <1>5 DEF CreateCommit
  <2> QED BY <2>1, <2>2 DEF OneOpens
<1>6. ASSUME NEW b \in Branches, NEW g \in Graphs, NEW m \in BOOLEAN,
             UpdateBranchGraph(r, b, g, m)
      PROVE OneOpens(r)
  <2> DEFINE q == [Idle EXCEPT !.op = "edit", !.at = "branch", !.branch = b, !.graph = g,
                              !.flag = m]
  <2>1. Opening(q)
    BY <1>6 DEF UpdateBranchGraph, Idle
  <2>2. Begins(r, q) /\ sent' \in Nat
    BY <1>6 DEF UpdateBranchGraph
  <2> QED BY <2>1, <2>2 DEF OneOpens
<1>7. ASSUME NEW b \in Branches, DeleteBranch(r, b) PROVE OneOpens(r)
  <2> DEFINE q == [Idle EXCEPT !.op = "delete", !.at = "retire", !.source = b]
  <2>1. Opening(q)
    BY <1>7 DEF DeleteBranch, Idle
  <2>2. Begins(r, q) /\ sent' \in Nat
    BY <1>7 DEF DeleteBranch
  <2> QED BY <2>1, <2>2 DEF OneOpens
<1>8. ASSUME NEW p \in PullRequests, NEW b \in Branches, NEW c \in Branches, NEW m \in BOOLEAN,
             CreatePullRequest(r, p, b, c, m)
      PROVE OneOpens(r)
  <2> DEFINE q == [Idle EXCEPT !.op = "propose", !.at = "open", !.pr = p, !.source = b,
                              !.branch = c, !.flag = m,
                              !.conflict = Conflicts(branches[b].graph, branches[c].graph)]
  <2>0. Conflicts(branches[b].graph, branches[c].graph) \in BOOLEAN
    BY DEF Conflicts
  <2>1. Opening(q)
    BY <1>8, <2>0 DEF CreatePullRequest, Idle
  <2>2. Begins(r, q) /\ sent' \in Nat
    BY <1>8 DEF CreatePullRequest
  <2> QED BY <2>1, <2>2 DEF OneOpens
<1>9. ASSUME NEW p \in PullRequests, AddReview(r, p) PROVE OneOpens(r)
  <2> DEFINE q == [Idle EXCEPT !.op = "review", !.at = "review", !.pr = p]
  <2>1. Opening(q)
    BY <1>9 DEF AddReview, Idle
  <2>2. Begins(r, q) /\ sent' \in Nat
    BY <1>9 DEF AddReview
  <2> QED BY <2>1, <2>2 DEF OneOpens
<1>10. ASSUME NEW p \in PullRequests, ClosePullRequest(r, p) PROVE OneOpens(r)
  <2> DEFINE q == [Idle EXCEPT !.op = "close", !.at = "close", !.pr = p]
  <2>1. Opening(q)
    BY <1>10 DEF ClosePullRequest, Idle
  <2>2. Begins(r, q) /\ sent' \in Nat
    BY <1>10 DEF ClosePullRequest
  <2> QED BY <2>1, <2>2 DEF OneOpens
<1>11. ASSUME NEW p \in PullRequests, NEW s, MergePullRequest(r, p, s) PROVE OneOpens(r)
  <2> DEFINE q == [Idle EXCEPT !.op = "merge", !.pr = p, !.source = prs[p].source, !.branch = prs[p].target,
                       !.at = IF prs[p].required THEN "approval" ELSE "branch",
                       !.graph = Merged(branches[prs[p].source].graph,
                                        branches[prs[p].target].graph, s)]
  <2>0. Merged(branches[prs[p].source].graph, branches[prs[p].target].graph, s) \in Graphs
    BY MergedType
  <2>1. Opening(q)
    BY <1>11, <2>0 DEF MergePullRequest, Idle
  <2>2. Begins(r, q) /\ sent' \in Nat
    BY <1>11 DEF MergePullRequest
  <2> QED BY <2>1, <2>2 DEF OneOpens
<1>12. ASSUME NEW b \in Branches, NEW i \in DOMAIN commits, Rollback(r, b, i) PROVE OneOpens(r)
  <2> DEFINE q == [Idle EXCEPT !.op = "rollback", !.at = "branch", !.branch = b,
                              !.graph = commits[i].graph]
  <2>0. commits[i].graph \in Graphs
    <3>1. commits \in Seq(Commit) /\ i \in 1 .. Len(commits)
      BY LenProperties
    <3>2. commits[i] \in Commit
      BY <3>1, ElementOfSeq
    <3> QED BY <3>2 DEF Commit
  <2>1. Opening(q)
    BY <1>12, <2>0 DEF Rollback, Idle
  <2>2. Begins(r, q) /\ sent' \in Nat
    BY <1>12 DEF Rollback
  <2> QED BY <2>1, <2>2 DEF OneOpens
<1>13. ASSUME NEW g \in Graphs, MergeSuggestion(r, g) PROVE OneOpens(r)
  <2> DEFINE q == [Idle EXCEPT !.op = "suggest", !.at = "workflow", !.graph = g]
  <2>1. Opening(q)
    BY <1>13 DEF MergeSuggestion, Idle
  <2>2. Begins(r, q) /\ sent' \in Nat
    BY <1>13 DEF MergeSuggestion
  <2> QED BY <2>1, <2>2 DEF OneOpens
<1> QED
  BY <1>1, <1>2, <1>3, <1>4, <1>5, <1>6, <1>7, <1>8, <1>9, <1>10, <1>11, <1>12, <1>13 DEF Reads

LEMMA TypeInit == Init => TypeOK
<1> SUFFICES ASSUME Init PROVE TypeOK
  OBVIOUS
<1> USE VersioningAssumption, EmptyType, IdleType
<1>1. workflow \in [graph : Graphs, version : Nat \ {0}] /\ workflow.graph \in Graphs
  BY DEF Init
<1>2. Created \in Request
  BY <1>1 DEF Created, Idle, Request, Operations, Statements
<1>3. requests \in [Requests -> Request]
  BY <1>2 DEF Init
<1>4. commits \in Seq(Commit)
  <2> DEFINE m == [branch |-> Main, graph |-> workflow.graph, parent |-> 0, merges |-> {}]
  <2>1. m \in Commit
    BY <1>1 DEF Commit
  <2>2. commits = <<>> \/ commits = <<m>>
    BY DEF Init
  <2> HIDE DEF m
  <2>3. <<>> \in Seq(Commit) /\ Append(<<>>, m) \in Seq(Commit) /\ Append(<<>>, m) = <<m>>
    BY <2>1, AppendProperties, EmptySeq
  <2> QED BY <2>2, <2>3
<1>5. /\ [status |-> "ACTIVE", graph |-> workflow.graph, head |-> 1] \in BranchRow
      /\ NoBranch \in BranchRow
  BY <1>1 DEF NoBranch, BranchRow
<1>6. NoPullRequest \in PullRequest
  BY DEF NoPullRequest, PullRequest
<1> QED BY <1>1, <1>3, <1>4, <1>5, <1>6 DEF Init, TypeOK

\* However a request moves on, it stays a request.
LEMMA Moves ==
  ASSUME requests \in [Requests -> Request], NEW r \in Requests, NEW t \in Request,
         Ends(r) \/ Continue(r, t) \/ GoesOn(r, t)
  PROVE  requests' \in [Requests -> Request]
BY IdleType, ContinueType DEF Ends, Continue, GoesOn

LEMMA TypeNext == TypeOK /\ [Next]_vars => TypeOK'
<1> SUFFICES ASSUME TypeOK, [Next]_vars PROVE TypeOK'
  OBVIOUS
<1>1. ASSUME NEW r \in Requests, Reads(r) PROVE TypeOK'
  <2>1. PICK q : Opening(q) /\ Begins(r, q) /\ sent' \in Nat
    BY <1>1, ReadsOpen DEF OneOpens
  <2> QED BY <2>1 DEF Opening, Begins, Rows, TypeOK
<1>2. ASSUME NEW r \in Requests, Writes(r) PROVE TypeOK'
  <2> DEFINE q == requests[r]
  <2>0. /\ q \in Request
        /\ q.graph \in Graphs /\ q.old \in Graphs /\ q.version \in Nat /\ q.commit \in Nat
        /\ q.branch \in Branches /\ q.source \in Branches /\ q.pr \in PullRequests
        /\ q.flag \in BOOLEAN /\ q.conflict \in BOOLEAN
    BY DEF TypeOK, Request
  <2> DEFINE t == [q EXCEPT !.commit = branches[q.branch].head]
             u == [q EXCEPT !.commit = Len(commits) + 1]
  <2>a. t \in Request /\ u \in Request
    <3>1. branches[q.branch].head \in Nat /\ Len(commits) + 1 \in Nat
      BY <2>0, LenProperties DEF TypeOK, BranchRow
    <3> QED BY <2>0, <3>1, ContinueType
  <2>b. requests' \in [Requests -> Request]
    BY <1>2, <2>0, <2>a, Moves
       DEF TypeOK, Writes, Snapshot, WriteWorkflow, FindApproval, WriteBranch, ReadHead,
           InsertCommit, WriteHead, AddBranch, RetireBranch, OpenPullRequest, InsertReview,
           WritePullRequest
  <2> HIDE DEF q
  <2> USE <2>0, <2>b DEF TypeOK, Rows, History
  <2>1. CASE Snapshot(r)
    <3>0. /\ <<q.version, q.old>> \in Nat \X Graphs
          /\ versions' = versions \/ versions' = versions \union {<<q.version, q.old>>}
      BY <2>1 DEF Snapshot, q
    <3>1. versions' \subseteq Nat \X Graphs
      BY <3>0
    <3> QED BY <2>1, <3>1 DEF Snapshot
  <2>2. CASE WriteWorkflow(r)
    <3>1. disturbed' \subseteq Requests
      BY <2>2 DEF WriteWorkflow, Disturbed
    <3> QED BY <2>2, <3>1 DEF WriteWorkflow, q
  <2>3. CASE FindApproval(r) \/ ReadHead(r)
    BY <2>3 DEF FindApproval, ReadHead
  <2>4. CASE WriteBranch(r) \/ WriteHead(r) \/ AddBranch(r) \/ RetireBranch(r)
    <3> USE DEF BranchRow, q
    <3>1. CASE WriteBranch(r)
      <4>1. branches' = [branches EXCEPT ![q.branch] = [@ EXCEPT !.graph = q.graph]]
        BY <3>1 DEF WriteBranch
      <4>2. [branches[q.branch] EXCEPT !.graph = q.graph] \in BranchRow
        OBVIOUS
      <4> HIDE DEF BranchRow, q
      <4>3. branches' \in [Branches -> BranchRow]
        BY <4>1, <4>2
      <4> QED BY <3>1, <4>3 DEF WriteBranch
    <3>2. CASE WriteHead(r)
      <4>1. branches' = [branches EXCEPT ![q.branch] = [@ EXCEPT !.head = q.commit]]
        BY <3>2 DEF WriteHead
      <4>2. [branches[q.branch] EXCEPT !.head = q.commit] \in BranchRow
        OBVIOUS
      <4> HIDE DEF BranchRow, q
      <4>3. branches' \in [Branches -> BranchRow]
        BY <4>1, <4>2
      <4> QED BY <3>2, <4>3 DEF WriteHead
    <3>3. CASE AddBranch(r)
      <4>1. [status |-> "ACTIVE", graph |-> q.graph, head |-> q.commit] \in BranchRow
        OBVIOUS
      <4>2. branches' \in [Branches -> BranchRow]
        BY <3>3, <4>1 DEF AddBranch
      <4> QED BY <3>3, <4>2 DEF AddBranch
    <3>4. CASE RetireBranch(r)
      <4>1. branches' \in [Branches -> BranchRow]
        BY <3>4 DEF RetireBranch
      <4> QED BY <3>4, <4>1 DEF RetireBranch
    <3> QED BY <2>4, <3>1, <3>2, <3>3, <3>4
  <2>6. CASE InsertCommit(r)
    <3> DEFINE m == [branch |-> q.branch, graph |-> q.graph, parent |-> q.commit,
                     merges |-> IF q.op = "merge" THEN {q.pr} ELSE {}]
    <3>3. m \in Commit
      BY DEF Commit
    <3>4. commits' = Append(commits, m)
      BY <2>6 DEF InsertCommit, q
    <3> HIDE DEF m
    <3>5. commits' \in Seq(Commit)
      BY <3>3, <3>4, AppendProperties
    <3> QED BY <2>6, <3>5 DEF InsertCommit
  <2>10. CASE OpenPullRequest(r) \/ InsertReview(r) \/ WritePullRequest(r)
    <3> USE DEF PullRequest, q
    <3>1. CASE OpenPullRequest(r)
      <4>1. prs' \in [PullRequests -> PullRequest]
        BY <3>1 DEF OpenPullRequest
      <4> QED BY <3>1, <4>1 DEF OpenPullRequest
    <3>2. CASE InsertReview(r)
      <4>1. prs' \in [PullRequests -> PullRequest]
        BY <3>2 DEF InsertReview
      <4> QED BY <3>2, <4>1 DEF InsertReview
    <3>3. CASE WritePullRequest(r)
      <4>1. prs' \in [PullRequests -> PullRequest]
        BY <3>3 DEF WritePullRequest
      <4> QED BY <3>3, <4>1 DEF WritePullRequest
    <3> QED BY <2>10, <3>1, <3>2, <3>3
  <2> QED BY <1>2, <2>1, <2>2, <2>3, <2>4, <2>6, <2>10 DEF Writes
<1>3. ASSUME NEW r \in Requests, Fails(r) PROVE TypeOK'
  <2>1. requests[r].version \in Nat
    BY DEF TypeOK, Request
  <2>2. requests' \in [Requests -> Request]
    BY <1>3, IdleType, Moves DEF TypeOK, Fails
  <2>3. interrupted' \subseteq Nat /\ disturbed' \subseteq Requests /\ faults' \in Nat
    <3>1. interrupted' = interrupted \/ interrupted' = interrupted \union {requests[r].version}
      BY <1>3 DEF Fails
    <3>2. disturbed' = disturbed \ {r} /\ faults' = faults + 1
      BY <1>3 DEF Fails
    <3>3. interrupted \subseteq Nat /\ disturbed \subseteq Requests /\ faults \in Nat
      BY DEF TypeOK
    <3>4. interrupted' \subseteq Nat
      BY <2>1, <3>1, <3>3
    <3> QED BY <3>2, <3>3, <3>4
  <2> QED BY <1>3, <2>2, <2>3 DEF Fails, Rows, TypeOK
<1>4. CASE UNCHANGED vars
  BY <1>4 DEF vars, TypeOK
<1> QED BY <1>1, <1>2, <1>3, <1>4 DEF Next

\* TypeCorrect: every row and every request of the model keeps its type.
THEOREM TypeCorrect == Spec => []TypeOK
BY TypeInit, TypeNext, PTL DEF Spec

-----------------------------------------------------------------------------
(* What any step leaves.                                                   *)

\* A request moves on with the same operation on the same rows, or ends.
MovesOn(r) ==
    /\ \A x \in Requests \ {r} : requests'[x] = requests[x]
    /\ \/ requests'[r] = Idle
       \/ LET q == requests[r]  t == requests'[r] IN
          /\ t.at = After(q) /\ After(q) # "done"
          /\ t.op = q.op /\ t.pr = q.pr /\ t.source = q.source /\ t.branch = q.branch
          /\ t.version = q.version /\ t.old = q.old

LEMMA AfterNotDone ==
  ASSUME NEW q, q.at \in {"snapshot", "approval", "read", "insert"}
  PROVE  After(q) # "done"
BY DEF After

LEMMA WritesMove ==
  ASSUME TypeOK, NEW r \in Requests, Writes(r)
  PROVE  MovesOn(r)
<1> DEFINE q == requests[r]
           t == [q EXCEPT !.commit = branches[q.branch].head]
           u == [q EXCEPT !.commit = Len(commits) + 1]
<1>0. q \in Request /\ requests \in [Requests -> Request]
  BY DEF TypeOK
<1>1. /\ t \in Request /\ u \in Request
      /\ After(t) = After(q) /\ After(u) = After(q)
  <2>1. branches[q.branch].head \in Nat /\ Len(commits) + 1 \in Nat
    BY <1>0, LenProperties DEF TypeOK, BranchRow, Request
  <2>2. t \in Request /\ u \in Request
    BY <1>0, <2>1, ContinueType
  <2>3. /\ t.at = q.at /\ t.op = q.op /\ t.branch = q.branch /\ t.flag = q.flag
        /\ u.at = q.at /\ u.op = q.op /\ u.branch = q.branch /\ u.flag = q.flag
    BY <1>0 DEF Request
  <2> HIDE DEF t, u
  <2> QED BY <2>2, <2>3 DEF After
<1>2. \/ Ends(r)
      \/ After(q) # "done" /\ (Continue(r, q) \/ Continue(r, t) \/ Continue(r, u))
  BY AfterNotDone DEF Writes, Snapshot, WriteWorkflow, FindApproval, WriteBranch, ReadHead,
     InsertCommit, WriteHead, AddBranch, RetireBranch, OpenPullRequest, InsertReview,
     WritePullRequest, GoesOn, At
<1>3. CASE Ends(r)
  BY <1>0, <1>3 DEF Ends, MovesOn
<1>4. ASSUME NEW v \in {q, t, u}, Continue(r, v), After(q) # "done"
      PROVE  MovesOn(r)
  <2>1. /\ v \in Request /\ After(v) = After(q)
        /\ v.op = q.op /\ v.pr = q.pr /\ v.source = q.source /\ v.branch = q.branch
        /\ v.version = q.version /\ v.old = q.old
    BY <1>0, <1>1, <1>4 DEF Request
  <2>2. requests' = [requests EXCEPT ![r] = [v EXCEPT !.at = After(v)]]
    BY <1>4 DEF Continue
  <2> HIDE DEF t, u
  <2>3. requests'[r] = [v EXCEPT !.at = After(v)]
    BY <1>0, <2>2
  <2>4. /\ requests'[r].at = After(v) /\ requests'[r].op = v.op /\ requests'[r].pr = v.pr
        /\ requests'[r].source = v.source /\ requests'[r].branch = v.branch
        /\ requests'[r].version = v.version /\ requests'[r].old = v.old
    BY <2>1, <2>3 DEF Request
  <2> QED BY <1>0, <1>4, <2>1, <2>2, <2>4 DEF MovesOn
<1> QED BY <1>2, <1>3, <1>4

LEMMA FailsMove ==
  ASSUME TypeOK, NEW r \in Requests, Fails(r)
  PROVE  MovesOn(r) /\ requests'[r] = Idle
BY DEF Fails, Ends, MovesOn, TypeOK

\* Rows only grow: no step takes back what a request relies on.
Grows ==
    /\ workflow.version <= workflow'.version
    /\ \A p \in PullRequests : prs[p].status # "none" =>
          /\ prs'[p].status # "none"
          /\ prs'[p].source = prs[p].source /\ prs'[p].target = prs[p].target
          /\ prs'[p].required = prs[p].required /\ prs'[p].conflict = prs[p].conflict
          /\ prs[p].approved => prs'[p].approved
    /\ \A p \in PullRequests, c \in Branches : Committed(p, c) => Committed(p, c)'
    /\ \A b \in Branches : Retired(b) => Retired(b)'

LEMMA GrowsIfUnchanged ==
  ASSUME TypeOK, UNCHANGED <<branches, commits, prs>>, workflow.version <= workflow'.version
  PROVE  Grows
BY DEF Grows, Committed, Retired

LEMMA WritesGrow ==
  ASSUME TypeOK, ReqsOK, NEW r \in Requests, Writes(r)
  PROVE  Grows
<1> DEFINE q == requests[r]
<1>0. /\ q \in Request /\ q.branch \in Branches /\ q.source \in Branches
      /\ q.pr \in PullRequests /\ workflow.version \in Nat
  BY DEF TypeOK, Request
<1>1. CASE Snapshot(r) \/ FindApproval(r) \/ ReadHead(r)
  BY <1>0, <1>1, GrowsIfUnchanged DEF Snapshot, FindApproval, ReadHead, Rows
<1>2. CASE WriteWorkflow(r)
  <2>1. workflow'.version \in {workflow.version, workflow.version + 1}
    BY <1>2 DEF WriteWorkflow
  <2> QED BY <1>0, <1>2, <2>1, GrowsIfUnchanged DEF WriteWorkflow
<1>3. CASE WriteBranch(r) \/ WriteHead(r) \/ AddBranch(r) \/ RetireBranch(r)
  <2>1. UNCHANGED <<workflow, commits, prs>>
    BY <1>3 DEF WriteBranch, WriteHead, AddBranch, RetireBranch
  <2>2. \A b \in Branches : Retired(b) => Retired(b)'
    <3> SUFFICES ASSUME NEW b \in Branches, Retired(b) PROVE Retired(b)'
      OBVIOUS
    <3>1. CASE WriteBranch(r) \/ WriteHead(r)
      <4>1. branches'[b].status = branches[b].status
        BY <3>1, <1>0 DEF WriteBranch, WriteHead, TypeOK, BranchRow
      <4> QED BY <4>1 DEF Retired
    <3>2. CASE AddBranch(r)
      BY <3>2, <1>0 DEF AddBranch, Retired, TypeOK, BranchRow
    <3>3. CASE RetireBranch(r)
      BY <3>3, <1>0 DEF RetireBranch, Retired, TypeOK, BranchRow
    <3> QED BY <1>3, <3>1, <3>2, <3>3
  <2> QED BY <1>0, <2>1, <2>2 DEF Grows, Committed
<1>4. CASE InsertCommit(r)
  <2>1. PICK m : commits' = Append(commits, m)
    BY <1>4 DEF InsertCommit
  <2>2. UNCHANGED <<workflow, branches, prs>>
    BY <1>4 DEF InsertCommit
  <2>3. \A i \in DOMAIN commits : i \in DOMAIN commits' /\ commits'[i] = commits[i]
    <3>1. commits \in Seq(Commit) /\ m \in Commit \union {m} /\ commits \in Seq(Commit \union {m})
      BY DEF TypeOK
    <3> QED BY <2>1, <3>1, AppendProperties, LenProperties
  <2>4. ASSUME NEW p \in PullRequests, NEW c \in Branches, Committed(p, c) PROVE Committed(p, c)'
    BY <2>3, <2>4 DEF Committed
  <2> QED BY <1>0, <2>2, <2>4 DEF Grows, Retired
<1>5. CASE OpenPullRequest(r)
  <2>1. q.op = "propose" /\ prs[q.pr].status = "none"
    BY <1>5 DEF OpenPullRequest, At, ReqsOK, ReqOK, OpOK
  <2>2. \A p \in PullRequests : prs[p].status # "none" => prs'[p] = prs[p]
    BY <1>5, <2>1 DEF OpenPullRequest, TypeOK
  <2> QED BY <1>0, <1>5, <2>2 DEF OpenPullRequest, Grows, Committed, Retired
<1>6. CASE InsertReview(r) \/ WritePullRequest(r)
  <2>1. \A p \in PullRequests : prs[p].status # "none" =>
          /\ prs'[p].status # "none"
          /\ prs'[p].source = prs[p].source /\ prs'[p].target = prs[p].target
          /\ prs'[p].required = prs[p].required /\ prs'[p].conflict = prs[p].conflict
          /\ prs[p].approved => prs'[p].approved
    <3>1. CASE InsertReview(r)
      BY <3>1 DEF InsertReview, TypeOK, PullRequest
    <3>2. CASE WritePullRequest(r)
      BY <3>2 DEF WritePullRequest, TypeOK, PullRequest
    <3> QED BY <1>6, <3>1, <3>2
  <2>2. UNCHANGED <<workflow, branches, commits>>
    BY <1>6 DEF InsertReview, WritePullRequest
  <2> QED BY <1>0, <2>1, <2>2 DEF Grows, Committed, Retired
<1> QED BY <1>1, <1>2, <1>3, <1>4, <1>5, <1>6 DEF Writes

-----------------------------------------------------------------------------
(* The invariant: initially, and when a request begins.                    *)

LEMMA InitInv == Init => IInv
<1> SUFFICES ASSUME Init PROVE IInv
  OBVIOUS
<1>1. TypeOK
  BY TypeInit
<1>2. \A r \in Requests : requests[r] = Idle \/ requests[r] = Created
  BY DEF Init
<1>3. /\ Created.op = "found" /\ Created.at = "add"
  BY DEF Created, Idle
<1>4. \A r \in Requests : requests[r].op \in {"none", "found"} /\ requests[r].at \in {"done", "add"}
                          /\ OpOK(requests[r])
  BY <1>2, <1>3, IdleFields DEF OpOK
<1>5. ReqsOK /\ OneProposal
  BY <1>4 DEF ReqsOK, ReqOK, OneProposal
<1>6. Pending /\ OneWriter /\ SavesSerialise
  BY <1>4 DEF Pending, OneWriter, SavesSerialise, Clean, At
<1>7. RowsBelow /\ SaveNotBlocked
  BY DEF Init, RowsBelow, SaveNotBlocked
<1>8. \A p \in PullRequests : prs[p].status = "none"
  BY DEF Init, NoPullRequest
<1> QED BY <1>1, <1>5, <1>6, <1>7, <1>8 DEF IInv, MergedIsWhole

LEMMA BeginInv ==
  ASSUME IInv, NEW r \in Requests, NEW q, Opening(q), Begins(r, q)
  PROVE  /\ ReqsOK' /\ OneProposal' /\ RowsBelow' /\ Pending' /\ OneWriter'
         /\ SavesSerialise' /\ SaveNotBlocked' /\ MergedIsWhole'
<1> USE DEF IInv
<1>1. /\ requests' = [requests EXCEPT ![r] = q] /\ requests \in [Requests -> Request]
      /\ requests[r].at = "done"
      /\ UNCHANGED <<workflow, versions, branches, commits, prs, disturbed, interrupted>>
  BY DEF Begins, Rows, TypeOK
<1>2. requests'[r] = q /\ \A x \in Requests \ {r} : requests'[x] = requests[x]
  BY <1>1
<1>3. requests[r].op = "none"
  BY <1>1 DEF ReqsOK, ReqOK, OpOK
<1>4. workflow.version \in Nat
  BY DEF TypeOK
<1>5. ReqOK(q)
  BY <1>4 DEF Opening, ReqOK, MergeOK, OpOK
<1>6. \A x \in Requests : ReqOK(requests[x])'
  <2>1. ASSUME NEW x \in Requests PROVE ReqOK(requests[x])'
    <3>1. ReqOK(requests'[x])
      BY <1>2, <1>5 DEF ReqsOK
    <3> QED BY <1>1, <3>1 DEF ReqOK, OpOK, MergeOK, Committed, Retired
  <2> QED BY <2>1
<1>7. OneProposal'
  BY <1>1, <1>2 DEF OneProposal, Opening
<1>8. Pending'
  BY <1>1, <1>2 DEF Pending, Clean, At, Opening
<1>9. OneWriter' /\ SavesSerialise'
  <2>1. q.op = "save" => q.at = "snapshot"
    BY DEF Opening
  <2> QED BY <1>1, <1>2, <2>1 DEF OneWriter, SavesSerialise, Clean, At
<1>10. SaveNotBlocked'
  BY <1>1, <1>2, <1>3 DEF SaveNotBlocked, At
<1>11. RowsBelow' /\ MergedIsWhole'
  BY <1>1 DEF RowsBelow, MergedIsWhole
<1> QED BY <1>6, <1>7, <1>8, <1>9, <1>10, <1>11 DEF ReqsOK

-----------------------------------------------------------------------------
(* When a request moves on: what requests rely on.                         *)

\* What the writer itself may rely on next.
LEMMA NextReqOK ==
  ASSUME IInv, TypeOK', NEW r \in Requests, Writes(r), requests'[r] # Idle
  PROVE  ReqOK(requests[r])'
<1> DEFINE q == requests[r]
           t == requests'[r]
<1>0. /\ q \in Request /\ q.branch \in Branches /\ q.source \in Branches
      /\ q.pr \in PullRequests /\ workflow.version \in Nat /\ workflow'.version \in Nat
      /\ q.version \in Nat /\ t \in Request /\ ReqOK(q) /\ q.at \in Statements
  BY DEF IInv, TypeOK, Request, ReqsOK
<1>1. MovesOn(r) /\ Grows
  BY WritesMove, WritesGrow DEF IInv
<1>2. /\ t.at = After(q) /\ After(q) # "done"
      /\ t.op = q.op /\ t.pr = q.pr /\ t.source = q.source /\ t.branch = q.branch
      /\ t.version = q.version
  BY <1>1 DEF MovesOn
<1>3. OpOK(t)
  BY <1>0, <1>2 DEF After, OpOK, ReqOK, Statements
<1>4. q.op = "save" => q.version <= workflow'.version
  BY <1>0, <1>1 DEF ReqOK, Grows
<1>5. q.op # "propose"
  BY <1>0, <1>2 DEF After, OpOK, ReqOK, Statements
<1>6. q.op \in {"merge", "close"} => prs'[q.pr].status # "none"
  BY <1>0, <1>1 DEF ReqOK, Grows
<1>7. ASSUME q.op = "merge" PROVE MergeOK(requests[r])'
  <2>0. PICK p \in PullRequests, c \in Branches, b \in Branches :
          p = q.pr /\ c = q.branch /\ b = q.source
    BY <1>0
  <2>1. MergeOK(q) /\ prs[q.pr].status # "none"
    BY <1>0, <1>7 DEF ReqOK
  <2>2. /\ q.source = prs'[q.pr].source /\ q.branch = prs'[q.pr].target
        /\ ~prs'[q.pr].conflict /\ prs'[q.pr].required = prs[q.pr].required
    BY <1>0, <1>1, <2>1 DEF MergeOK, Grows
  <2>3. prs'[q.pr].required => prs'[q.pr].approved
    <3>1. CASE q.at = "approval"
      <4>1. FindApproval(r)
        BY <3>1 DEF Writes, Snapshot, WriteWorkflow, WriteBranch, ReadHead, InsertCommit,
             WriteHead, AddBranch, RetireBranch, OpenPullRequest, InsertReview,
             WritePullRequest, At
      <4>2. prs[q.pr].approved
        <5>1. Ends(r) => requests'[r] = Idle
          BY DEF Ends, IInv, TypeOK
        <5> QED BY <4>1, <5>1 DEF FindApproval
      <4> QED BY <1>0, <1>1, <2>1, <4>2 DEF Grows
    <3>2. CASE q.at # "approval"
      BY <1>0, <1>1, <2>1, <2>2, <3>2 DEF MergeOK, Grows
    <3> QED BY <3>1, <3>2
  <2>4. t.at \in {"head", "workflow", "retire", "close"} => Committed(p, c)'
    <3>1. CASE q.at = "insert"
      <4>1. InsertCommit(r)
        BY <3>1 DEF Writes, Snapshot, WriteWorkflow, FindApproval, WriteBranch, ReadHead,
             WriteHead, AddBranch, RetireBranch, OpenPullRequest, InsertReview,
             WritePullRequest, At
      <4> DEFINE m == [branch |-> q.branch, graph |-> q.graph, parent |-> q.commit,
                       merges |-> {q.pr}]
      <4>2. commits' = Append(commits, m)
        BY <1>7, <4>1 DEF InsertCommit
      <4>3. m.branch = q.branch /\ q.pr \in m.merges
        OBVIOUS
      <4>4. commits \in Seq(Commit \union {m}) /\ m \in Commit \union {m}
        BY DEF IInv, TypeOK
      <4> HIDE DEF m
      <4>5. Len(commits) + 1 \in DOMAIN commits' /\ commits'[Len(commits) + 1] = m
        BY <4>2, <4>4, AppendProperties, LenProperties
      <4>6. m.branch = c /\ p \in m.merges
        BY <2>0, <4>3
      <4> QED BY <4>5, <4>6 DEF Committed
    <3>2. CASE q.at # "insert"
      <4>1. t.at \in {"head", "workflow", "retire", "close"} =>
              q.at \in {"head", "workflow", "retire"}
        BY <1>0, <1>2, <1>7, <3>2 DEF After, Statements, ReqOK, OpOK
      <4> QED BY <1>0, <1>1, <2>0, <2>1, <4>1 DEF MergeOK, Grows
    <3> QED BY <3>1, <3>2
  <2>5. t.at = "close" => Retired(b)'
    <3> SUFFICES ASSUME t.at = "close" PROVE Retired(b)'
      OBVIOUS
    <3>1. q.at = "retire"
      BY <1>0, <1>2 DEF After, Statements
    <3>2. RetireBranch(r)
      BY <3>1 DEF Writes, Snapshot, WriteWorkflow, FindApproval, WriteBranch, ReadHead,
           InsertCommit, WriteHead, AddBranch, OpenPullRequest, InsertReview,
           WritePullRequest, At
    <3>3. branches'[b].status = "MERGED"
      BY <1>0, <1>7, <2>0, <3>2 DEF RetireBranch, IInv, TypeOK, BranchRow
    <3> QED BY <3>3 DEF Retired
  <2>6. t.pr = p /\ t.branch = c /\ t.source = b
    BY <1>2, <2>0
  <2> QED BY <2>0, <2>2, <2>3, <2>4, <2>5, <2>6 DEF MergeOK, Committed, Retired
<1> QED BY <1>2, <1>3, <1>4, <1>5, <1>6, <1>7 DEF ReqOK

LEMMA IdleOK == ASSUME NEW r \in Requests, requests'[r] = Idle PROVE ReqOK(requests[r])'
BY IdleFields DEF ReqOK, OpOK

\* A proposal's row stays uninserted until that request inserts it.
LEMMA ProposalWaits ==
  ASSUME IInv, NEW r \in Requests, Writes(r), NEW x \in Requests \ {r},
         requests[x].op = "propose"
  PROVE  prs'[requests[x].pr].status = "none"
<1> DEFINE q == requests[r]  y == requests[x]
<1>0. y.pr \in PullRequests /\ q.pr \in PullRequests /\ ReqOK(q) /\ ReqOK(y)
  BY DEF IInv, TypeOK, Request, ReqsOK
<1>1. prs[y.pr].status = "none"
  BY <1>0 DEF ReqOK
<1>2. CASE UNCHANGED prs
  BY <1>1, <1>2
<1>3. CASE OpenPullRequest(r)
  <2>1. q.op = "propose"
    BY <1>0, <1>3 DEF OpenPullRequest, At, ReqOK, OpOK
  <2>2. q.pr # y.pr
    BY <2>1 DEF IInv, OneProposal
  <2> QED BY <1>0, <1>1, <1>3, <2>2 DEF OpenPullRequest, IInv, TypeOK
<1>4. CASE InsertReview(r)
  BY <1>0, <1>1, <1>4 DEF InsertReview, IInv, TypeOK, PullRequest
<1>5. CASE WritePullRequest(r)
  <2>1. prs[q.pr].status # "none"
    BY <1>0, <1>5 DEF WritePullRequest, At, ReqOK, OpOK
  <2> QED BY <1>0, <1>1, <1>5, <2>1 DEF WritePullRequest, IInv, TypeOK
<1> QED BY <1>2, <1>3, <1>4, <1>5 DEF Writes, Snapshot, WriteWorkflow, FindApproval,
          WriteBranch, ReadHead, InsertCommit, WriteHead, AddBranch, RetireBranch, Rows

\* What other requests rely on is still so.
LEMMA OthersOK ==
  ASSUME IInv, Grows, NEW x \in Requests, requests'[x] = requests[x],
         workflow'.version \in Nat,
         requests[x].op = "propose" => prs'[requests[x].pr].status = "none"
  PROVE  ReqOK(requests[x])'
<1> DEFINE q == requests[x]
<1>0. /\ q.branch \in Branches /\ q.source \in Branches /\ q.pr \in PullRequests
      /\ q.version \in Nat /\ workflow.version \in Nat /\ ReqOK(q)
  BY DEF IInv, TypeOK, Request, ReqsOK
<1>1. PICK p \in PullRequests, c \in Branches, b \in Branches :
        p = q.pr /\ c = q.branch /\ b = q.source
  BY <1>0
<1>2. /\ Committed(p, c) => Committed(p, c)'
      /\ Retired(b) => Retired(b)'
  BY DEF Grows
<1>3. ASSUME q.op = "merge" PROVE MergeOK(requests[x])'
  <2>1. MergeOK(q) /\ prs[p].status # "none"
    BY <1>0, <1>1, <1>3 DEF ReqOK
  <2>2. /\ q.at \in {"head", "workflow", "retire", "close"} => Committed(p, c)'
        /\ q.at = "close" => Retired(b)'
    BY <1>1, <1>2, <2>1 DEF MergeOK
  <2>3. /\ q.source = prs'[p].source /\ q.branch = prs'[p].target /\ ~prs'[p].conflict
        /\ q.at # "approval" /\ prs'[p].required => prs'[p].approved
    BY <1>1, <2>1 DEF MergeOK, Grows
  <2> QED BY <1>1, <2>2, <2>3 DEF MergeOK, Committed, Retired
<1>4. q.op = "save" => q.version <= workflow'.version
  BY <1>0 DEF ReqOK, Grows
<1>5. q.op \in {"merge", "close"} => prs'[q.pr].status # "none"
  BY <1>0 DEF ReqOK, Grows
<1> QED BY <1>0, <1>3, <1>4, <1>5 DEF ReqOK, OpOK

LEMMA MoveReqs ==
  ASSUME IInv, TypeOK', NEW r \in Requests, Writes(r) \/ Fails(r)
  PROVE  ReqsOK' /\ OneProposal'
<1>0. workflow'.version \in Nat
  BY DEF TypeOK
<1>1. MovesOn(r)
  BY WritesMove, FailsMove DEF IInv
<1>2. OneProposal'
  BY <1>1, IdleFields DEF IInv, OneProposal, MovesOn
<1>3. CASE Writes(r)
  <2>1. Grows
    BY <1>3, WritesGrow DEF IInv
  <2>2. ReqOK(requests[r])'
    BY <1>3, IdleOK, NextReqOK
  <2>3. ASSUME NEW x \in Requests \ {r} PROVE ReqOK(requests[x])'
    BY <1>0, <1>1, <1>3, <2>1, ProposalWaits, OthersOK DEF MovesOn
  <2> QED BY <1>2, <2>2, <2>3 DEF ReqsOK
<1>4. CASE Fails(r)
  <2>1. requests'[r] = Idle /\ UNCHANGED Rows
    BY <1>4, FailsMove DEF IInv, Fails
  <2>2. Grows
    BY <2>1, GrowsIfUnchanged DEF IInv, Rows, TypeOK
  <2>3. ASSUME NEW x \in Requests \ {r} PROVE ReqOK(requests[x])'
    <3>1. requests[x].op = "propose" => prs'[requests[x].pr].status = "none"
      BY <2>1 DEF IInv, ReqsOK, ReqOK, Rows
    <3> QED BY <1>0, <1>1, <2>2, <3>1, OthersOK DEF MovesOn
  <2> QED BY <1>2, <2>1, <2>3, IdleOK DEF ReqsOK
<1> QED BY <1>3, <1>4

-----------------------------------------------------------------------------
(* When a request moves on: the saves.                                     *)

\* A step that is no save's and leaves the workflow and its versions alone.
LEMMA SavesLeft ==
  ASSUME IInv, NEW r \in Requests, MovesOn(r),
         UNCHANGED <<workflow, versions, disturbed, interrupted>>,
         requests[r].op # "save"
  PROVE  RowsBelow' /\ Pending' /\ OneWriter' /\ SavesSerialise' /\ SaveNotBlocked'
<1>1. \A x \in Requests : requests'[x].op = "save" => x # r /\ requests'[x] = requests[x]
  BY IdleFields DEF MovesOn
<1>2. \A x \in Requests : requests[x].op = "save" => requests'[x] = requests[x]
  BY DEF MovesOn
<1>3. RowsBelow' /\ Pending'
  BY <1>1 DEF IInv, RowsBelow, Pending, Clean, At
<1>4. OneWriter' /\ SavesSerialise'
  BY <1>1 DEF IInv, OneWriter, SavesSerialise, Clean, At
<1>5. SaveNotBlocked'
  BY <1>2 DEF IInv, SaveNotBlocked, At
<1> QED BY <1>3, <1>4, <1>5

LEMMA SnapshotSaves ==
  ASSUME IInv, NEW r \in Requests, Snapshot(r)
  PROVE  RowsBelow' /\ Pending' /\ OneWriter' /\ SavesSerialise' /\ SaveNotBlocked'
<1> DEFINE q == requests[r]
<1>0. /\ q.op = "save" /\ q.at = "snapshot" /\ q.version <= workflow.version
      /\ q.version \in Nat /\ workflow.version \in Nat /\ q.old \in Graphs
  BY DEF IInv, TypeOK, Request, Snapshot, At, ReqsOK, ReqOK, OpOK
<1>1. /\ MovesOn(r) /\ workflow' = workflow /\ interrupted' = interrupted
      /\ \A x \in Requests \ {r} : x \in disturbed' <=> x \in disturbed
  BY WritesMove DEF IInv, Writes, Snapshot
<1>2. \A x \in Requests \ {r} : requests'[x] = requests[x]
  BY <1>1 DEF MovesOn
<1>3. CASE \E g \in Graphs : <<q.version, g>> \in versions
  <2>1. requests'[r] = Idle /\ versions' = versions
    BY <1>3 DEF Snapshot, Ends, IInv, TypeOK
  <2>2. RowsBelow' /\ Pending'
    BY <1>1, <1>2, <2>1, IdleFields DEF IInv, RowsBelow, Pending, Clean, At
  <2>3. OneWriter' /\ SavesSerialise'
    BY <1>1, <1>2, <2>1, IdleFields DEF IInv, OneWriter, SavesSerialise, Clean, At
  <2>4. SaveNotBlocked'
    BY <1>0, <1>1, <1>2, <2>1 DEF IInv, SaveNotBlocked, At
  <2> QED BY <2>2, <2>3, <2>4
<1>4. CASE ~\E g \in Graphs : <<q.version, g>> \in versions
  <2>1. /\ versions' = versions \union {<<q.version, q.old>>} /\ disturbed' = disturbed
        /\ Continue(r, q)
    BY <1>4 DEF Snapshot
  <2>2. requests'[r].at = "workflow" /\ requests'[r].op = "save" /\ requests'[r].version = q.version
    <3>1. After(q) = "workflow"
      BY <1>0 DEF After
    <3> QED BY <1>0, <2>1, <3>1 DEF Continue, IInv, TypeOK, Request
  <2>3. RowsBelow'
    BY <1>0, <1>1, <2>1 DEF IInv, RowsBelow
  <2>4. Pending'
    BY <1>1, <1>2, <2>1, <2>2 DEF IInv, Pending, Clean, At
  <2>5. SaveNotBlocked'
    BY <1>0, <1>1, <1>2, <2>1, <2>2 DEF IInv, SaveNotBlocked, At
  <2>6. Clean(r) => q.version = workflow.version /\ q.old = workflow.graph
    BY <1>0, <1>4 DEF IInv, Pending, At
  <2>7. SavesSerialise'
    BY <1>0, <1>1, <1>2, <2>1, <2>2, <2>6 DEF IInv, SavesSerialise, Clean, At
  <2>8. ASSUME Clean(r) PROVE \A x \in Requests \ {r} : ~(Clean(x) /\ At(x, "workflow"))
    <3>1. workflow.graph \in Graphs
      BY DEF IInv, TypeOK
    <3> QED BY <1>4, <2>6, <2>8, <3>1 DEF IInv, SavesSerialise, Clean
  <2>9. OneWriter'
    BY <1>0, <1>1, <1>2, <2>1, <2>2, <2>8 DEF IInv, OneWriter, Clean, At
  <2> QED BY <2>3, <2>4, <2>5, <2>7, <2>9
<1> QED BY <1>3, <1>4

LEMMA WriteSaves ==
  ASSUME IInv, NEW r \in Requests, WriteWorkflow(r)
  PROVE  RowsBelow' /\ Pending' /\ OneWriter' /\ SavesSerialise' /\ SaveNotBlocked'
<1> DEFINE q == requests[r]
<1>0. /\ q \in Request /\ q.version \in Nat /\ workflow.version \in Nat /\ At(r, "workflow")
      /\ \A x \in Requests : requests[x].version \in Nat
      /\ \A row \in versions : row[1] \in Nat
  BY DEF IInv, TypeOK, Request, WriteWorkflow
<1>1. /\ MovesOn(r) /\ versions' = versions /\ interrupted' = interrupted
      /\ disturbed' = Disturbed(r)
      /\ workflow'.version = IF q.op = "edit" THEN workflow.version ELSE workflow.version + 1
  BY WritesMove DEF IInv, Writes, WriteWorkflow
<1>2. \A x \in Requests \ {r} : requests'[x] = requests[x]
  BY <1>1 DEF MovesOn
<1>3. requests'[r].op # "save" \/ requests'[r].at # "workflow"
  BY <1>0, <1>1, IdleFields DEF MovesOn, After, At
<1>4. requests'[r].op # "save" \/ requests'[r].at # "snapshot"
  BY <1>0, <1>1, IdleFields DEF MovesOn, After, At
<1>5. RowsBelow'
  BY <1>0, <1>1 DEF IInv, RowsBelow
<1>6. SaveNotBlocked'
  <2>1. CASE q.op = "edit"
    BY <1>0, <1>1, <1>2, <2>1 DEF IInv, SaveNotBlocked, At
  <2>2. CASE q.op # "edit"
    BY <1>0, <1>1, <2>2 DEF IInv, SaveNotBlocked, RowsBelow
  <2> QED BY <2>1, <2>2
<1>7. CASE Clean(r)
  <2>1. disturbed' = disturbed /\ workflow'.version = workflow.version + 1
    BY <1>1, <1>7 DEF Disturbed, Clean
  <2>2. <<workflow.version, workflow.graph>> \in versions /\ workflow.graph \in Graphs
    BY <1>0, <1>7 DEF IInv, SavesSerialise, Clean, TypeOK
  <2>3. \A x \in Requests \ {r} : ~(Clean(x) /\ At(x, "workflow"))
    BY <1>0, <1>7 DEF IInv, OneWriter
  <2>4. OneWriter' /\ SavesSerialise'
    BY <1>2, <1>3, <2>1, <2>3 DEF OneWriter, SavesSerialise, Clean, At
  <2>5. Pending'
    <3> SUFFICES ASSUME NEW x \in Requests, (Clean(x) /\ At(x, "snapshot"))'
                 PROVE  /\ requests'[x].version < workflow'.version
                        /\ \E g \in Graphs : <<requests'[x].version, g>> \in versions'
      BY DEF Pending
    <3>1. x # r /\ requests'[x] = requests[x] /\ Clean(x) /\ At(x, "snapshot")
      BY <1>2, <1>4, <2>1 DEF Clean, At
    <3>2. CASE requests[x].version = workflow.version
      BY <1>0, <1>1, <2>1, <2>2, <3>1, <3>2
    <3>3. CASE /\ requests[x].version < workflow.version
               /\ \E g \in Graphs : <<requests[x].version, g>> \in versions
      BY <1>0, <1>1, <2>1, <3>1, <3>3
    <3> QED BY <3>1, <3>2, <3>3 DEF IInv, Pending
  <2> QED BY <1>5, <1>6, <2>4, <2>5
<1>8. CASE ~Clean(r)
  <2>1. \A x \in Requests \ {r} : requests[x].op = "save" => x \in disturbed'
    BY <1>1, <1>8 DEF Disturbed, Clean
  <2>2. \A x \in Requests : Clean(x)' => x = r
    BY <1>2, <2>1 DEF Clean
  <2> QED BY <1>3, <1>4, <1>5, <1>6, <2>2 DEF Pending, OneWriter, SavesSerialise, Clean, At
<1> QED BY <1>7, <1>8

LEMMA FailsSaves ==
  ASSUME IInv, NEW r \in Requests, Fails(r)
  PROVE  RowsBelow' /\ Pending' /\ OneWriter' /\ SavesSerialise' /\ SaveNotBlocked'
<1>1. /\ requests'[r] = Idle /\ \A x \in Requests \ {r} : requests'[x] = requests[x]
      /\ workflow' = workflow /\ versions' = versions /\ disturbed' = disturbed \ {r}
      /\ interrupted \subseteq interrupted'
      /\ requests[r].op = "save" /\ At(r, "workflow") => requests[r].version \in interrupted'
  BY FailsMove DEF IInv, MovesOn, Fails, Rows, At
<1>2. RowsBelow' /\ Pending'
  BY <1>1, IdleFields DEF IInv, RowsBelow, Pending, Clean, At
<1>3. OneWriter' /\ SavesSerialise'
  BY <1>1, IdleFields DEF IInv, OneWriter, SavesSerialise, Clean, At
<1>4. SaveNotBlocked'
  BY <1>1 DEF IInv, SaveNotBlocked, At
<1> QED BY <1>2, <1>3, <1>4

LEMMA OtherSaves ==
  ASSUME IInv, NEW r \in Requests, Writes(r), ~Snapshot(r), ~WriteWorkflow(r)
  PROVE  RowsBelow' /\ Pending' /\ OneWriter' /\ SavesSerialise' /\ SaveNotBlocked'
<1>1. MovesOn(r)
  BY WritesMove DEF IInv
<1>2. UNCHANGED <<workflow, versions, disturbed, interrupted>>
  BY DEF Writes, FindApproval, WriteBranch, ReadHead, InsertCommit, WriteHead, AddBranch,
     RetireBranch, OpenPullRequest, InsertReview, WritePullRequest, Rows, History
<1>3. requests[r].at \notin {"done", "snapshot", "workflow"}
  BY DEF Writes, FindApproval, WriteBranch, ReadHead, InsertCommit, WriteHead, AddBranch,
     RetireBranch, OpenPullRequest, InsertReview, WritePullRequest, At
<1>4. requests[r].op # "save"
  BY <1>3 DEF IInv, TypeOK, Request, Statements, ReqsOK, ReqOK, OpOK
<1> QED BY <1>1, <1>2, <1>4, SavesLeft

-----------------------------------------------------------------------------
(* When a request moves on: the pull requests.                             *)

\* What is MERGED is whole, or is so by this merge.
LEMMA MergedStays ==
  ASSUME IInv, Grows, NEW p \in PullRequests, prs'[p].status = "MERGED",
         \/ prs[p].status = "MERGED"
         \/ \E r \in Requests : requests[r].op = "merge" /\ requests[r].at = "close" /\ requests[r].pr = p
  PROVE  /\ prs'[p].required => prs'[p].approved
         /\ ~prs'[p].conflict
         /\ Committed(p, prs[p].target)'
         /\ Retired(prs[p].source)'
<1>1. PICK c \in Branches, b \in Branches : c = prs[p].target /\ b = prs[p].source
  BY DEF IInv, TypeOK, PullRequest
<1>2. /\ prs[p].status # "none" /\ ~prs[p].conflict
      /\ prs[p].required => prs[p].approved
      /\ Committed(p, c) /\ Retired(b)
  <2>1. CASE prs[p].status = "MERGED"
    BY <1>1, <2>1 DEF IInv, MergedIsWhole, Committed, Retired
  <2>2. ASSUME NEW r \in Requests, requests[r].op = "merge", requests[r].at = "close",
               requests[r].pr = p
        PROVE  /\ prs[p].status # "none" /\ ~prs[p].conflict
               /\ prs[p].required => prs[p].approved
               /\ Committed(p, c) /\ Retired(b)
    BY <1>1, <2>2 DEF IInv, ReqsOK, ReqOK, MergeOK
  <2> QED BY <2>1, <2>2
<1>3. Committed(p, c)' /\ Retired(b)'
  BY <1>2 DEF Grows
<1>4. /\ prs'[p].target = c /\ prs'[p].source = b /\ ~prs'[p].conflict
      /\ prs'[p].required => prs'[p].approved
  BY <1>1, <1>2 DEF Grows
<1> QED BY <1>3, <1>4 DEF Committed, Retired

LEMMA MoveMerged ==
  ASSUME IInv, NEW r \in Requests, Writes(r) \/ Fails(r)
  PROVE  MergedIsWhole'
<1>1. Grows
  <2>1. CASE Fails(r)
    BY <2>1, GrowsIfUnchanged DEF IInv, Fails, Rows, TypeOK
  <2> QED BY <2>1, WritesGrow DEF IInv
<1>2. SUFFICES ASSUME NEW p \in PullRequests, prs'[p].status = "MERGED"
               PROVE  \/ prs[p].status = "MERGED"
                      \/ \E x \in Requests : /\ requests[x].op = "merge"
                                           /\ requests[x].at = "close" /\ requests[x].pr = p
  BY <1>1, MergedStays DEF MergedIsWhole, Committed, Retired
<1>3. CASE UNCHANGED prs
  BY <1>2, <1>3
<1>4. CASE OpenPullRequest(r)
  BY <1>2, <1>4 DEF OpenPullRequest, IInv, TypeOK
<1>5. CASE InsertReview(r)
  BY <1>2, <1>5 DEF InsertReview, IInv, TypeOK, PullRequest
<1>6. CASE WritePullRequest(r)
  BY <1>2, <1>6 DEF WritePullRequest, At, IInv, TypeOK, PullRequest
<1> QED BY <1>3, <1>4, <1>5, <1>6 DEF Writes, Fails, Snapshot, WriteWorkflow, FindApproval,
          WriteBranch, ReadHead, InsertCommit, WriteHead, AddBranch, RetireBranch, Rows

-----------------------------------------------------------------------------
LEMMA NextInv == IInv /\ [Next]_vars => IInv'
<1> SUFFICES ASSUME IInv, [Next]_vars PROVE IInv'
  OBVIOUS
<1>1. TypeOK'
  BY TypeNext DEF IInv
<1>2. ASSUME NEW r \in Requests, Reads(r) PROVE IInv'
  <2>1. PICK q : Opening(q) /\ Begins(r, q)
    BY <1>2, ReadsOpen DEF IInv, OneOpens
  <2> QED BY <1>1, <2>1, BeginInv DEF IInv
<1>3. ASSUME NEW r \in Requests, Writes(r) \/ Fails(r) PROVE IInv'
  <2>1. ReqsOK' /\ OneProposal' /\ MergedIsWhole'
    BY <1>1, <1>3, MoveReqs, MoveMerged
  <2>2. RowsBelow' /\ Pending' /\ OneWriter' /\ SavesSerialise' /\ SaveNotBlocked'
    BY <1>3, SnapshotSaves, WriteSaves, FailsSaves, OtherSaves
  <2> QED BY <1>1, <2>1, <2>2 DEF IInv
<1>4. CASE UNCHANGED vars
  BY <1>1, <1>4 DEF vars, IInv, ReqsOK, ReqOK, OpOK, MergeOK, Committed, Retired, OneProposal,
     RowsBelow, Pending, OneWriter, Clean, At, SavesSerialise, SaveNotBlocked, MergedIsWhole
<1> QED BY <1>2, <1>3, <1>4 DEF Next

\* Invariant: the inductive invariant the three theorems below follow from.
THEOREM Invariant == Spec => []IInv
BY InitInv, NextInv, PTL DEF Spec

\* SavesInOrder: the unique index on the version rows orders the saves that no
\* write of BranchService overlaps, however many are in flight.
THEOREM SavesInOrder == Spec => []SavesSerialise
BY Invariant, PTL DEF IInv

\* OnlyCutSavesBlock: a workflow's present version has a row only during a save
\* or after one was cut between its two writes.
THEOREM OnlyCutSavesBlock == Spec => []SaveNotBlocked
BY Invariant, PTL DEF IInv

\* MergesAreWhole: a pull request is MERGED only after its whole merge.
THEOREM MergesAreWhole == Spec => []MergedIsWhole
BY Invariant, PTL DEF IInv

-----------------------------------------------------------------------------
(* Commits, and what is never lost.                                        *)

\* Requests and heads name commits that are there.
CommitsKnown ==
    /\ HistoryGrounded
    /\ \A r \in Requests : requests[r].commit <= Len(commits)

\* A read brings the head of a branch, or no commit.
LEMMA ReadsCommit ==
  ASSUME TypeOK, NEW r \in Requests, Reads(r)
  PROVE  /\ \A x \in Requests \ {r} : requests'[x] = requests[x]
         /\ UNCHANGED Rows
         /\ requests'[r].commit = 0 \/ \E b \in Branches : requests'[r].commit = branches[b].head
<1> USE DEF Starts, Sends, Begins, Idle, TypeOK
<1>1. ASSUME NEW g \in Graphs, Save(r, g) \/ MergeSuggestion(r, g)
      PROVE  requests'[r].commit = 0
  <2>1. CASE Save(r, g) BY <2>1 DEF Save
  <2>2. CASE MergeSuggestion(r, g) BY <2>2 DEF MergeSuggestion
  <2> QED BY <1>1, <2>1, <2>2
<1>2. ASSUME NEW row \in versions, Restore(r, row) PROVE requests'[r].commit = 0
  BY <1>2 DEF Restore
<1>3. CASE ListBranches(r)
  BY <1>3 DEF ListBranches
<1>4. ASSUME NEW b \in Branches, NEW c \in Branches, CreateBranch(r, b, c)
      PROVE  requests'[r].commit = branches[c].head
  BY <1>4 DEF CreateBranch
<1>5. ASSUME NEW b \in Branches, NEW g \in Graphs, CreateCommit(r, b, g)
      PROVE  requests'[r].commit = 0
  BY <1>5 DEF CreateCommit
<1>6. ASSUME NEW b \in Branches, NEW g \in Graphs, NEW m \in BOOLEAN, UpdateBranchGraph(r, b, g, m)
      PROVE  requests'[r].commit = 0
  BY <1>6 DEF UpdateBranchGraph
<1>7. ASSUME NEW b \in Branches, DeleteBranch(r, b) PROVE requests'[r].commit = 0
  BY <1>7 DEF DeleteBranch
<1>8. ASSUME NEW p \in PullRequests, NEW b \in Branches, NEW c \in Branches, NEW q \in BOOLEAN,
             CreatePullRequest(r, p, b, c, q)
      PROVE  requests'[r].commit = 0
  BY <1>8 DEF CreatePullRequest
<1>9. ASSUME NEW p \in PullRequests, AddReview(r, p) \/ ClosePullRequest(r, p)
      PROVE  requests'[r].commit = 0
  <2>1. CASE AddReview(r, p) BY <2>1 DEF AddReview
  <2>2. CASE ClosePullRequest(r, p) BY <2>2 DEF ClosePullRequest
  <2> QED BY <1>9, <2>1, <2>2
<1>10. ASSUME NEW p \in PullRequests, NEW t, MergePullRequest(r, p, t) PROVE requests'[r].commit = 0
  BY <1>10 DEF MergePullRequest
<1>11. ASSUME NEW b \in Branches, NEW i \in DOMAIN commits, Rollback(r, b, i)
       PROVE  requests'[r].commit = 0
  BY <1>11 DEF Rollback
<1>12. /\ \A x \in Requests \ {r} : requests'[x] = requests[x]
       /\ UNCHANGED Rows
  <2>1. PICK q : Begins(r, q)
    BY ReadsOpen DEF OneOpens
  <2> QED BY <2>1
<1> QED BY <1>1, <1>2, <1>3, <1>4, <1>5, <1>6, <1>7, <1>8, <1>9, <1>10, <1>11, <1>12 DEF Reads

\* A commit is appended, and the others stay.
LEMMA CommitsGrow ==
  ASSUME TypeOK, [Next]_vars
  PROVE  /\ Len(commits) \in Nat /\ Len(commits') \in Nat /\ Len(commits) <= Len(commits')
         /\ DOMAIN commits = 1 .. Len(commits) /\ DOMAIN commits' = 1 .. Len(commits')
         /\ \A i \in DOMAIN commits : i \in DOMAIN commits' /\ commits'[i] = commits[i]
<1>0. Len(commits) \in Nat /\ DOMAIN commits = 1 .. Len(commits)
  BY LenProperties DEF TypeOK
<1>1. CASE UNCHANGED commits
  BY <1>0, <1>1
<1>2. ASSUME NEW r \in Requests, InsertCommit(r)
      PROVE  /\ Len(commits') = Len(commits) + 1
             /\ DOMAIN commits' = 1 .. (Len(commits) + 1)
             /\ \A i \in 1 .. Len(commits) : commits'[i] = commits[i]
  <2>1. PICK m : commits' = Append(commits, m)
    BY <1>2 DEF InsertCommit
  <2>2. commits \in Seq(Commit \union {m}) /\ m \in Commit \union {m}
    BY DEF TypeOK
  <2>3. commits' \in Seq(Commit \union {m}) /\ Len(commits') = Len(commits) + 1
        /\ \A i \in 1 .. Len(commits) : commits'[i] = commits[i]
    BY <2>1, <2>2, AppendProperties
  <2> QED BY <2>3, LenProperties
<1>3. CASE \E r \in Requests : InsertCommit(r)
  BY <1>0, <1>2, <1>3
<1>4. ASSUME NEW r \in Requests, Reads(r) PROVE UNCHANGED commits
  BY <1>4, ReadsCommit DEF Rows
<1>5. ASSUME NEW r \in Requests, Writes(r) \/ Fails(r), ~InsertCommit(r) PROVE UNCHANGED commits
  BY <1>5 DEF Writes, Fails, Snapshot, WriteWorkflow, FindApproval, WriteBranch, ReadHead, WriteHead,
     AddBranch, RetireBranch, OpenPullRequest, InsertReview, WritePullRequest, Rows
<1> QED BY <1>1, <1>3, <1>4, <1>5 DEF Next, vars

\* A write gives a branch the commit of its request, and a request the head of its
\* branch or the commit it has just inserted.
LEMMA WritesKnown ==
  ASSUME TypeOK, TypeOK', CommitsKnown, [Next]_vars, NEW r \in Requests, Writes(r)
  PROVE  CommitsKnown'
<1> DEFINE q == requests[r]
<1>0. /\ q \in Request /\ q.commit \in Nat /\ q.branch \in Branches /\ q.source \in Branches
      /\ requests \in [Requests -> Request] /\ branches[q.branch].head \in Nat
      /\ branches \in [Branches -> BranchRow]
  BY DEF TypeOK, Request, BranchRow
<1>1. /\ Len(commits) \in Nat /\ Len(commits') \in Nat /\ Len(commits) <= Len(commits')
      /\ DOMAIN commits = 1 .. Len(commits) /\ DOMAIN commits' = 1 .. Len(commits')
      /\ \A i \in DOMAIN commits : i \in DOMAIN commits' /\ commits'[i] = commits[i]
  BY CommitsGrow
<1>2. \A b \in Branches : branches'[b].head \in {branches[b].head, q.commit}
  <2>1. CASE WriteBranch(r)
    BY <1>0, <2>1 DEF WriteBranch, BranchRow
  <2>2. CASE WriteHead(r)
    BY <1>0, <2>2 DEF WriteHead, BranchRow
  <2>3. CASE AddBranch(r)
    BY <1>0, <2>3 DEF AddBranch
  <2>4. CASE RetireBranch(r)
    BY <1>0, <2>4 DEF RetireBranch, BranchRow
  <2>5. CASE UNCHANGED branches
    BY <2>5
  <2> QED BY <2>1, <2>2, <2>3, <2>4, <2>5 DEF Writes, Snapshot, WriteWorkflow, FindApproval,
     ReadHead, InsertCommit, OpenPullRequest, InsertReview, WritePullRequest, Rows
<1>3. \A x \in Requests \ {r} : requests'[x] = requests[x]
  BY WritesMove DEF MovesOn
<1>4. requests'[r].commit \in {q.commit, 0, branches[q.branch].head, Len(commits')}
  <2>1. CASE Ends(r)
    BY <1>0, <2>1 DEF Ends, Idle
  <2>2. CASE Continue(r, q)
    BY <1>0, <2>2 DEF Continue, Request
  <2>3. CASE ReadHead(r)
    BY <1>0, <2>3 DEF ReadHead, Continue, Request
  <2>4. CASE InsertCommit(r)
    <3>1. requests'[r].commit = Len(commits) + 1
      BY <1>0, <1>1, <2>4 DEF InsertCommit, Continue, Request
    <3>2. PICK m : commits' = Append(commits, m)
      BY <2>4 DEF InsertCommit
    <3>3. commits \in Seq(Commit \union {m}) /\ m \in Commit \union {m}
      BY DEF TypeOK
    <3>4. Len(commits') = Len(commits) + 1
      BY <3>2, <3>3, AppendProperties
    <3> QED BY <3>1, <3>4
  <2> QED BY <2>1, <2>2, <2>3, <2>4 DEF Writes, Snapshot, WriteWorkflow, FindApproval, WriteBranch,
     WriteHead, AddBranch, RetireBranch, OpenPullRequest, InsertReview, WritePullRequest, GoesOn
<1>5. \A i \in DOMAIN commits' : commits'[i].parent < i
  <2>1. CASE UNCHANGED commits
    BY <2>1 DEF CommitsKnown, HistoryGrounded
  <2>2. CASE InsertCommit(r)
    <3> DEFINE m == [branch |-> q.branch, graph |-> q.graph, parent |-> q.commit,
                     merges |-> IF q.op = "merge" THEN {q.pr} ELSE {}]
    <3>1. commits' = Append(commits, m)
      BY <2>2 DEF InsertCommit
    <3>2. m.parent = q.commit
      OBVIOUS
    <3> HIDE DEF m
    <3>3. commits \in Seq(Commit \union {m}) /\ m \in Commit \union {m}
      BY DEF TypeOK
    <3>4. Len(commits') = Len(commits) + 1 /\ commits'[Len(commits) + 1] = m
      BY <3>1, <3>3, AppendProperties
    <3>5. q.commit <= Len(commits)
      BY DEF CommitsKnown
    <3> QED BY <1>0, <1>1, <3>2, <3>4, <3>5 DEF CommitsKnown, HistoryGrounded
  <2> QED BY <2>1, <2>2 DEF Writes, Snapshot, WriteWorkflow, FindApproval, WriteBranch, ReadHead,
     WriteHead, AddBranch, RetireBranch, OpenPullRequest, InsertReview, WritePullRequest, Rows
<1>6. /\ q.commit <= Len(commits) /\ branches[q.branch].head <= Len(commits)
      /\ \A b \in Branches : branches[b].head <= Len(commits) /\ branches[b].head \in Nat
      /\ \A x \in Requests : requests[x].commit <= Len(commits) /\ requests[x].commit \in Nat
  BY <1>0 DEF CommitsKnown, HistoryGrounded, BranchRow, Request
<1>7. \A b \in Branches : branches'[b].head <= Len(commits')
  BY <1>0, <1>1, <1>2, <1>6
<1>8. \A x \in Requests : requests'[x].commit <= Len(commits')
  BY <1>0, <1>1, <1>3, <1>4, <1>6
<1> QED BY <1>5, <1>7, <1>8 DEF CommitsKnown, HistoryGrounded

\* No commit has itself in its history, and every head and parent is a commit.
THEOREM HistoryIsGrounded == Spec => []HistoryGrounded
<1>1. Init => CommitsKnown
  <2> SUFFICES ASSUME Init PROVE CommitsKnown
    OBVIOUS
  <2>1. \A r \in Requests : requests[r].commit = 0
    <3>1. Idle.commit = 0 /\ Created.commit = 0
      BY DEF Created, Idle
    <3>2. \A r \in Requests : requests[r] \in {Idle, Created}
      BY DEF Init
    <3> QED BY <3>1, <3>2
  <2>2. CASE commits = <<>> /\ branches = [b \in Branches |-> NoBranch]
    BY <2>1, <2>2 DEF CommitsKnown, HistoryGrounded, NoBranch
  <2>3. CASE /\ commits = <<[branch |-> Main, graph |-> workflow.graph, parent |-> 0, merges |-> {}]>>
             /\ branches = [b \in Branches |-> [status |-> "ACTIVE", graph |-> workflow.graph, head |-> 1]]
    <3>1. Len(commits) = 1 /\ DOMAIN commits = {1} /\ commits[1].parent = 0
      BY <2>3
    <3> QED BY <2>1, <2>3, <3>1 DEF CommitsKnown, HistoryGrounded
  <2> QED BY <2>2, <2>3 DEF Init
<1>2. TypeOK /\ TypeOK' /\ CommitsKnown /\ [Next]_vars => CommitsKnown'
  <2> SUFFICES ASSUME TypeOK, TypeOK', CommitsKnown, [Next]_vars PROVE CommitsKnown'
    OBVIOUS
  <2>1. ASSUME NEW r \in Requests, Reads(r) PROVE CommitsKnown'
    <3>1. Len(commits) \in Nat
      BY CommitsGrow
    <3> QED BY <2>1, <3>1, ReadsCommit DEF CommitsKnown, HistoryGrounded, Rows
  <2>2. ASSUME NEW r \in Requests, Fails(r) PROVE CommitsKnown'
    <3>1. Len(commits) \in Nat
      BY CommitsGrow
    <3>2. \A x \in Requests : requests'[x] = requests[x] \/ requests'[x].commit = 0
      BY <2>2 DEF Fails, Ends, Idle, TypeOK
    <3> QED BY <2>2, <3>1, <3>2 DEF Fails, Rows, CommitsKnown, HistoryGrounded
  <2>3. CASE UNCHANGED vars
    BY <2>3 DEF vars, CommitsKnown, HistoryGrounded
  <2> QED BY <2>1, <2>2, <2>3, WritesKnown DEF Next
<1>3. CommitsKnown => HistoryGrounded
  BY DEF CommitsKnown
<1> QED BY <1>1, <1>2, <1>3, TypeCorrect, PTL DEF Spec

\* No request, however it overlaps others or is cut short, loses what is kept.
THEOREM NothingIsLost == Spec => NothingLost
<1> DEFINE Kept ==
        /\ versions \subseteq versions'
        /\ \A i \in DOMAIN commits : i \in DOMAIN commits' /\ commits'[i] = commits[i]
        /\ \A p \in PullRequests : prs[p].status \in {"MERGED", "CLOSED"} =>
              prs'[p].status \in {"MERGED", "CLOSED"}
        /\ \A r \in Requests :
              /\ requests[r].op = "save" /\ At(r, "workflow") /\ r \notin disturbed
              /\ workflow' # workflow /\ ~At(r, "workflow")'
              => <<workflow.version, workflow.graph>> \in versions'
<1>1. IInv /\ [Next]_vars => [Kept]_vars
  <2> SUFFICES ASSUME IInv, Next PROVE Kept
    OBVIOUS
  <2>0. TypeOK
    BY DEF IInv
  <2>1. \A i \in DOMAIN commits : i \in DOMAIN commits' /\ commits'[i] = commits[i]
    BY <2>0, CommitsGrow
  <2>2. versions \subseteq versions'
    <3>1. ASSUME NEW r \in Requests, Reads(r) PROVE UNCHANGED versions
      BY <2>0, <3>1, ReadsCommit DEF Rows
    <3> QED BY <3>1 DEF Next, Writes, Fails, Snapshot, WriteWorkflow, FindApproval, WriteBranch,
       ReadHead, InsertCommit, WriteHead, AddBranch, RetireBranch, OpenPullRequest, InsertReview,
       WritePullRequest, Rows
  <2>3. ASSUME NEW p \in PullRequests, prs[p].status \in {"MERGED", "CLOSED"}
        PROVE  prs'[p].status \in {"MERGED", "CLOSED"}
    <3>1. ASSUME NEW r \in Requests, Reads(r) PROVE UNCHANGED prs
      BY <2>0, <3>1, ReadsCommit DEF Rows
    <3>2. ASSUME NEW r \in Requests, OpenPullRequest(r) PROVE prs'[p] = prs[p]
      <4>1. prs[requests[r].pr].status = "none"
        BY <3>2 DEF OpenPullRequest, At, IInv, ReqsOK, ReqOK, OpOK
      <4> QED BY <2>0, <2>3, <3>2, <4>1 DEF OpenPullRequest, TypeOK
    <3>3. ASSUME NEW r \in Requests, InsertReview(r) PROVE prs'[p].status = prs[p].status
      BY <2>0, <3>3 DEF InsertReview, TypeOK, PullRequest
    <3>4. ASSUME NEW r \in Requests, WritePullRequest(r)
          PROVE  prs'[p].status \in {prs[p].status, "MERGED", "CLOSED"}
      BY <2>0, <3>4 DEF WritePullRequest, TypeOK, PullRequest
    <3> QED BY <2>3, <3>1, <3>2, <3>3, <3>4 DEF Next, Writes, Fails, Snapshot, WriteWorkflow,
       FindApproval, WriteBranch, ReadHead, InsertCommit, WriteHead, AddBranch, RetireBranch, Rows
  <2>4. ASSUME NEW r \in Requests, requests[r].op = "save", At(r, "workflow"), r \notin disturbed
        PROVE  <<workflow.version, workflow.graph>> \in versions'
    BY <2>2, <2>4 DEF IInv, SavesSerialise
  <2> QED BY <2>1, <2>2, <2>3, <2>4
<1> QED BY <1>1, Invariant, PTL DEF Spec, NothingLost
=============================================================================
