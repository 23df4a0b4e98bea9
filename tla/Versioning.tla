------------------------------ MODULE Versioning ------------------------------
(***************************************************************************)
(* The versions, branches and pull requests of one workflow                *)
(* (WorkflowService, BranchService), and the merge of a suggestion, which  *)
(* writes the workflow as well (SuggestionService).  A request of the API  *)
(* reads the database once, checks what it read, and then issues its       *)
(* writes one by one, without a transaction: requests interleave between   *)
(* any two statements, and a failed statement or a crash of the process    *)
(* drops the rest of the request.                                          *)
(***************************************************************************)
EXTENDS Naturals, Sequences

CONSTANTS
    Nodes,          \* node ids of a graph; edges follow the nodes and are left out
    Contents,       \* what the JSON of a node may be
    Absent,         \* no such node in the graph
    Main,           \* the branch named 'main'
    Branches,       \* the branches, Main among them
    PullRequests,
    Requests,       \* requests in flight at once
    MaxBegun,       \* bound on requests in all ...
    MaxSent,        \* ... and on those that bring a graph of the client
    MaxFaults       \* bound on requests cut short

ASSUME VersioningAssumption ==
    /\ Main \in Branches /\ PullRequests # {}
    /\ MaxBegun \in Nat /\ MaxSent \in Nat /\ MaxFaults \in Nat

VARIABLES
    workflow,       \* the workflow's row: graph and version
    versions,       \* the workflow_versions rows: <<version, graph>>
    branches,       \* the workflow_branches rows
    commits,        \* the branch_commits rows, by id
    prs,            \* the workflow_pull_requests rows
    requests,       \* what each request has read, and its next statement
    disturbed,      \* history: saves that overlap a write of another service
    interrupted,    \* history: versions whose save was cut before its second write
    begun,          \* requests begun, and those with a graph of the client
    sent,
    faults

vars == <<workflow, versions, branches, commits, prs, requests,
          disturbed, interrupted, begun, sent, faults>>

Graphs == [Nodes -> Contents \union {Absent}]
Statements == {"done", "snapshot", "workflow", "approval", "branch", "read", "insert",
               "head", "add", "open", "review", "retire", "close"}
Operations == {"none", "save", "found", "list", "fork", "edit", "delete", "commit",
               "propose", "review", "merge", "close", "rollback", "suggest"}

Request == [op : Operations, at : Statements, graph : Graphs, old : Graphs, version : Nat,
            branch : Branches, source : Branches, pr : PullRequests, commit : Nat,
            flag : BOOLEAN, conflict : BOOLEAN]

BranchRow == [status : {"none", "ACTIVE", "MERGED", "DELETED"}, graph : Graphs, head : Nat]
Commit == [branch : Branches, graph : Graphs, parent : Nat, merges : SUBSET PullRequests]
PullRequest == [status : {"none", "OPEN", "MERGED", "CLOSED"}, source : Branches,
                target : Branches, required : BOOLEAN, conflict : BOOLEAN, approved : BOOLEAN]

TypeOK ==
    /\ workflow \in [graph : Graphs, version : Nat \ {0}]
    /\ versions \subseteq Nat \X Graphs
    /\ branches \in [Branches -> BranchRow]
    /\ commits \in Seq(Commit)
    /\ prs \in [PullRequests -> PullRequest]
    /\ requests \in [Requests -> Request]
    /\ disturbed \subseteq Requests
    /\ interrupted \subseteq Nat
    /\ begun \in Nat /\ sent \in Nat /\ faults \in Nat

-----------------------------------------------------------------------------
\* detectConflicts: a node of both graphs that differs.
Conflicts(source, target) ==
    \E n \in Nodes : source[n] # target[n] /\ source[n] # Absent /\ target[n] # Absent

\* performMerge: REBASE takes the source, MERGE and SQUASH the union of both
\* graphs, where the source overrides.
Merged(source, target, strategy) ==
    IF strategy = "REBASE" THEN source
    ELSE [n \in Nodes |-> IF source[n] # Absent THEN source[n] ELSE target[n]]

\* Mutant of After: a merge closes its pull request and leaves the branch as it is.
AfterForgetsSource(q) ==
    CASE q.at = "snapshot" -> "workflow"
      [] q.at = "approval" -> "branch"
      [] q.at = "branch" -> "read"
      [] q.at = "add" -> IF q.op = "found" THEN "read" ELSE "done"
      [] q.at = "read" -> "insert"
      [] q.at = "insert" -> "head"
      [] q.at = "head" -> IF q.op = "merge" THEN "close" ELSE "done"
      [] OTHER -> "done"

\* The statement a request issues after its present one.  An edit, a merge and a
\* rollback of main write the workflow too, at different places of their order.
After(q) ==
    CASE q.at = "snapshot" -> "workflow"
      [] q.at = "approval" -> "branch"
      [] q.at = "branch" /\ q.op = "edit" ->
            IF q.branch = Main THEN "workflow" ELSE IF q.flag THEN "read" ELSE "done"
      [] q.at = "branch" /\ q.op # "edit" -> "read"
      [] q.at = "add" -> IF q.op = "found" THEN "read" ELSE "done"
      [] q.at = "read" -> "insert"
      [] q.at = "insert" -> "head"
      [] q.at = "head" ->
            IF q.op \in {"merge", "rollback"} /\ q.branch = Main THEN "workflow"
            ELSE IF q.op = "merge" THEN "retire" ELSE "done"
      [] q.at = "workflow" ->
            IF q.op = "edit" /\ q.flag THEN "read"
            ELSE IF q.op = "merge" THEN "retire" ELSE "done"
      [] q.at = "retire" -> IF q.op = "merge" THEN "close" ELSE "done"
      [] OTHER -> "done"

Empty == [n \in Nodes |-> Absent]
Idle == [op |-> "none", at |-> "done", graph |-> Empty, old |-> Empty, version |-> 0,
         branch |-> Main, source |-> Main, pr |-> CHOOSE p \in PullRequests : TRUE,
         commit |-> 0, flag |-> FALSE, conflict |-> FALSE]

Rows == <<workflow, versions, branches, commits, prs>>
History == <<disturbed, interrupted, begun, sent, faults>>

\* A request begins with what it has read ...
Begins(r, q) ==
    /\ requests[r].at = "done" /\ begun < MaxBegun
    /\ begun' = begun + 1
    /\ requests' = [requests EXCEPT ![r] = q]
    /\ UNCHANGED <<Rows, disturbed, interrupted, faults>>

Starts(r, q) == Begins(r, q) /\ UNCHANGED sent
Sends(r, q) == Begins(r, q) /\ sent < MaxSent /\ sent' = sent + 1

\* ... goes on to its next statement, q with what this one has told it, or ends.
Continue(r, q) == requests' = [requests EXCEPT ![r] = [q EXCEPT !.at = After(q)]]
Ends(r) == requests' = [requests EXCEPT ![r] = Idle]
GoesOn(r, q) == IF After(q) = "done" THEN Ends(r) ELSE Continue(r, q)

-----------------------------------------------------------------------------
\* The reads and checks of each operation.

\* update with a graph: the row as it is now is what the version row will keep.
Save(r, g) ==
    Sends(r, [Idle EXCEPT !.op = "save", !.at = "snapshot", !.graph = g,
                          !.old = workflow.graph, !.version = workflow.version])

\* restoreVersion: the same writes, with the graph of a version row.
Restore(r, row) ==
    /\ row \in versions
    /\ Starts(r, [Idle EXCEPT !.op = "save", !.at = "snapshot", !.graph = row[2],
                              !.old = workflow.graph, !.version = workflow.version])

\* getBranches of a workflow without a main branch (imported, duplicated, older).
ListBranches(r) ==
    /\ branches[Main].status = "none"
    /\ Starts(r, [Idle EXCEPT !.op = "list", !.at = "add", !.graph = workflow.graph])

\* createBranch: the name is free, and the base is there, whatever its status.
CreateBranch(r, b, base) ==
    /\ branches[b].status = "none" /\ b # Main
    /\ branches[base].status # "none"
    /\ Starts(r, [Idle EXCEPT !.op = "fork", !.at = "add", !.branch = b,
                              !.graph = branches[base].graph, !.commit = branches[base].head])

\* updateBranchGraph, with or without a commit message.
UpdateBranchGraph(r, b, g, message) ==
    /\ branches[b].status = "ACTIVE"
    /\ Sends(r, [Idle EXCEPT !.op = "edit", !.at = "branch", !.branch = b, !.graph = g,
                             !.flag = message])

\* deleteBranch: not main, and no pull request open from it.
DeleteBranch(r, b) ==
    /\ b # Main /\ branches[b].status # "none"
    /\ \A p \in PullRequests : ~(prs[p].status = "OPEN" /\ prs[p].source = b)
    /\ Starts(r, [Idle EXCEPT !.op = "delete", !.at = "retire", !.source = b])

\* createCommit by its own route: any graph, a branch of any status.
CreateCommit(r, b, g) ==
    /\ branches[b].status # "none"
    /\ Sends(r, [Idle EXCEPT !.op = "commit", !.at = "read", !.branch = b, !.graph = g])

\* createPullRequest, of which p will be the row: conflicts are detected here,
\* once, and no status is looked at (the two queries count as one).
CreatePullRequest(r, p, b, c, required) ==
    /\ prs[p].status = "none" /\ b # c
    /\ \A x \in Requests : ~(requests[x].op = "propose" /\ requests[x].pr = p)
    /\ branches[b].status # "none" /\ branches[c].status # "none"
    /\ Starts(r, [Idle EXCEPT !.op = "propose", !.at = "open", !.pr = p, !.source = b,
                              !.branch = c, !.flag = required,
                              !.conflict = Conflicts(branches[b].graph, branches[c].graph)])

\* addReview with status APPROVED; no code reads the other statuses.
AddReview(r, p) ==
    /\ prs[p].status = "OPEN"
    /\ Starts(r, [Idle EXCEPT !.op = "review", !.at = "review", !.pr = p])

\* mergePullRequest: both graphs are those of this first read.
MergePullRequest(r, p, strategy) ==
    /\ prs[p].status = "OPEN"
    /\ ~prs[p].conflict
    /\ LET b == prs[p].source  c == prs[p].target IN
         Starts(r, [Idle EXCEPT !.op = "merge", !.pr = p, !.source = b, !.branch = c,
                       !.at = IF prs[p].required THEN "approval" ELSE "branch",
                       !.graph = Merged(branches[b].graph, branches[c].graph, strategy)])

\* merge of an approved suggestion, whose nodes replace those of the workflow.
\* Suggestions have no rows here: one may be approved at any time.
MergeSuggestion(r, g) ==
    Sends(r, [Idle EXCEPT !.op = "suggest", !.at = "workflow", !.graph = g])

ClosePullRequest(r, p) ==
    /\ prs[p].status = "OPEN"
    /\ Starts(r, [Idle EXCEPT !.op = "close", !.at = "close", !.pr = p])

\* rollbackToCommit: an active branch and a commit of its own.
Rollback(r, b, i) ==
    /\ branches[b].status = "ACTIVE"
    /\ commits[i].branch = b
    /\ Starts(r, [Idle EXCEPT !.op = "rollback", !.at = "branch", !.branch = b,
                              !.graph = commits[i].graph])

Reads(r) ==
    \/ \E g \in Graphs : Save(r, g) \/ MergeSuggestion(r, g)
    \/ \E row \in versions : Restore(r, row)
    \/ ListBranches(r)
    \/ \E b, c \in Branches : CreateBranch(r, b, c)
    \/ \E b \in Branches, g \in Graphs :
          CreateCommit(r, b, g) \/ \E m \in BOOLEAN : UpdateBranchGraph(r, b, g, m)
    \/ \E b \in Branches : DeleteBranch(r, b)
    \/ \E p \in PullRequests, b, c \in Branches, q \in BOOLEAN : CreatePullRequest(r, p, b, c, q)
    \/ \E p \in PullRequests : AddReview(r, p) \/ ClosePullRequest(r, p)
    \/ \E p \in PullRequests, s \in {"MERGE", "REBASE"} : MergePullRequest(r, p, s)
    \/ \E b \in Branches, i \in DOMAIN commits : Rollback(r, b, i)

-----------------------------------------------------------------------------
\* The statements, each by the requests that have come to it.

At(r, statement) == requests[r].at = statement

\* Mutant of Snapshot: the version row is upserted.
SnapshotUpserts(r) ==
    LET q == requests[r] IN
    /\ At(r, "snapshot")
    /\ Continue(r, q)
    /\ versions' = {row \in versions : row[1] # q.version} \union {<<q.version, q.old>>}
    /\ UNCHANGED <<workflow, branches, commits, prs, History>>

\* workflowVersion.create: (workflowId, version) is unique, a second row throws.
Snapshot(r) ==
    LET q == requests[r] IN
    /\ At(r, "snapshot")
    /\ IF \E g \in Graphs : <<q.version, g>> \in versions
         THEN Ends(r) /\ disturbed' = disturbed \ {r} /\ UNCHANGED versions
         ELSE Continue(r, q) /\ versions' = versions \union {<<q.version, q.old>>}
                             /\ UNCHANGED disturbed
    /\ UNCHANGED <<workflow, branches, commits, prs, interrupted, begun, sent, faults>>

\* The saves in flight that r's write of the workflow overlaps: those of a save
\* are ordered by the unique index above, those of another service are not.
Disturbed(r) ==
    IF requests[r].op = "save" /\ r \notin disturbed THEN disturbed
    ELSE (disturbed \union {x \in Requests : requests[x].op = "save"}) \ {r}

\* Mutant of WriteWorkflow: only the branches increment the version.
WriteWorkflowKeepsVersion(r) ==
    LET q == requests[r] IN
    /\ At(r, "workflow")
    /\ workflow' = [graph |-> q.graph,
                    version |-> IF q.op \in {"edit", "save"} THEN workflow.version
                                ELSE workflow.version + 1]
    /\ disturbed' = Disturbed(r)
    /\ GoesOn(r, q)
    /\ UNCHANGED <<versions, branches, commits, prs, interrupted, begun, sent, faults>>

\* workflow.update: by a save or a suggestion, or by an edit, a merge or a rollback
\* of main.  Only the edit leaves the version as it is.
WriteWorkflow(r) ==
    LET q == requests[r] IN
    /\ At(r, "workflow")
    /\ workflow' = [graph |-> q.graph,
                    version |-> IF q.op = "edit" THEN workflow.version ELSE workflow.version + 1]
    /\ disturbed' = Disturbed(r)
    /\ GoesOn(r, q)
    /\ UNCHANGED <<versions, branches, commits, prs, interrupted, begun, sent, faults>>

\* pRReview.findFirst: without an approval, a merge that requires one throws.
FindApproval(r) ==
    /\ At(r, "approval")
    /\ IF prs[requests[r].pr].approved THEN Continue(r, requests[r]) ELSE Ends(r)
    /\ UNCHANGED <<Rows, History>>

\* workflowBranch.update of a graph, whatever has become of the branch.
WriteBranch(r) ==
    LET q == requests[r] IN
    /\ At(r, "branch")
    /\ branches' = [branches EXCEPT ![q.branch].graph = q.graph]
    /\ GoesOn(r, q)
    /\ UNCHANGED <<workflow, versions, commits, prs, History>>

\* createCommit: the head is read ...
ReadHead(r) ==
    LET q == requests[r] IN
    /\ At(r, "read")
    /\ Continue(r, [q EXCEPT !.commit = branches[q.branch].head])
    /\ UNCHANGED <<Rows, History>>

\* ... the commit is inserted with that head as its parent ...
InsertCommit(r) ==
    LET q == requests[r] IN
    /\ At(r, "insert")
    /\ commits' = Append(commits, [branch |-> q.branch, graph |-> q.graph, parent |-> q.commit,
                                   merges |-> IF q.op = "merge" THEN {q.pr} ELSE {}])
    /\ Continue(r, [q EXCEPT !.commit = Len(commits) + 1])
    /\ UNCHANGED <<workflow, versions, branches, prs, History>>

\* ... and becomes the head.
WriteHead(r) ==
    LET q == requests[r] IN
    /\ At(r, "head")
    /\ branches' = [branches EXCEPT ![q.branch].head = q.commit]
    /\ GoesOn(r, q)
    /\ UNCHANGED <<workflow, versions, commits, prs, History>>

\* workflowBranch.create: (workflowId, name) is unique, a second row throws (and
\* the creation of a workflow swallows it).
AddBranch(r) ==
    LET q == requests[r] IN
    /\ At(r, "add")
    /\ IF branches[q.branch].status = "none"
         THEN /\ branches' = [branches EXCEPT ![q.branch] =
                    [status |-> "ACTIVE", graph |-> q.graph, head |-> q.commit]]
              /\ GoesOn(r, q)
         ELSE Ends(r) /\ UNCHANGED branches
    /\ UNCHANGED <<workflow, versions, commits, prs, History>>

\* workflowPullRequest.create.
OpenPullRequest(r) ==
    LET q == requests[r] IN
    /\ At(r, "open")
    /\ prs' = [prs EXCEPT ![q.pr] =
                  [status |-> "OPEN", source |-> q.source, target |-> q.branch,
                   required |-> q.flag, conflict |-> q.conflict, approved |-> FALSE]]
    /\ Ends(r)
    /\ UNCHANGED <<workflow, versions, branches, commits, History>>

InsertReview(r) ==
    /\ At(r, "review")
    /\ prs' = [prs EXCEPT ![requests[r].pr].approved = TRUE]
    /\ Ends(r)
    /\ UNCHANGED <<workflow, versions, branches, commits, History>>

\* Mutant of RetireBranch: a merged branch is closed, which no branch can be.
RetireBranchCloses(r) ==
    LET q == requests[r] IN
    /\ At(r, "retire")
    /\ branches' = [branches EXCEPT ![q.source].status =
                       IF q.op = "merge" THEN "CLOSED" ELSE "DELETED"]
    /\ GoesOn(r, q)
    /\ UNCHANGED <<workflow, versions, commits, prs, History>>

\* A merge retires its source branch, a delete its branch.
RetireBranch(r) ==
    LET q == requests[r] IN
    /\ At(r, "retire")
    /\ branches' = [branches EXCEPT ![q.source].status =
                       IF q.op = "merge" THEN "MERGED" ELSE "DELETED"]
    /\ GoesOn(r, q)
    /\ UNCHANGED <<workflow, versions, commits, prs, History>>

WritePullRequest(r) ==
    LET q == requests[r] IN
    /\ At(r, "close")
    /\ prs' = [prs EXCEPT ![q.pr].status = IF q.op = "merge" THEN "MERGED" ELSE "CLOSED"]
    /\ Ends(r)
    /\ UNCHANGED <<workflow, versions, branches, commits, History>>

Writes(r) ==
    \/ Snapshot(r) \/ WriteWorkflow(r)
    \/ FindApproval(r) \/ WriteBranch(r)
    \/ ReadHead(r) \/ InsertCommit(r) \/ WriteHead(r)
    \/ AddBranch(r) \/ RetireBranch(r)
    \/ OpenPullRequest(r) \/ InsertReview(r) \/ WritePullRequest(r)

\* A statement fails or the process dies: the rest of the request is lost.
Fails(r) ==
    LET q == requests[r] IN
    /\ faults < MaxFaults /\ q.at # "done"
    /\ faults' = faults + 1
    /\ interrupted' = IF q.op = "save" /\ q.at = "workflow"
                      THEN interrupted \union {q.version} ELSE interrupted
    /\ disturbed' = disturbed \ {r}
    /\ Ends(r)
    /\ UNCHANGED <<Rows, begun, sent>>

-----------------------------------------------------------------------------
\* The workflow's row has just been inserted, and its creation goes on with the
\* main branch; or there is none to come (an import, a copy, an older workflow);
\* or main and a branch of it are there, at the first commit.
NoBranch == [status |-> "none", graph |-> Empty, head |-> 0]
NoPullRequest == [status |-> "none", source |-> Main, target |-> Main,
                  required |-> FALSE, conflict |-> FALSE, approved |-> FALSE]
Created == [Idle EXCEPT !.op = "found", !.at = "add", !.graph = workflow.graph]

Init ==
    /\ workflow \in [graph : Graphs, version : {1}]
    /\ \/ /\ branches = [b \in Branches |-> NoBranch] /\ commits = <<>>
          /\ requests \in {[r \in Requests |-> IF r \in x THEN Created ELSE Idle] :
                             x \in {{}} \union {{r} : r \in Requests}}
       \/ /\ branches = [b \in Branches |-> [status |-> "ACTIVE", graph |-> workflow.graph, head |-> 1]]
          /\ commits = <<[branch |-> Main, graph |-> workflow.graph, parent |-> 0, merges |-> {}]>>
          /\ requests = [r \in Requests |-> Idle]
    /\ versions = {}
    /\ prs = [p \in PullRequests |-> NoPullRequest]
    /\ disturbed = {} /\ interrupted = {} /\ begun = 0 /\ sent = 0 /\ faults = 0

Next == \E r \in Requests : Reads(r) \/ Writes(r) \/ Fails(r)

Spec == Init /\ [][Next]_vars

-----------------------------------------------------------------------------
(***************************************************************************)
(* The unique index on (workflow, version) is the only order between       *)
(* concurrent saves: a save that no write of another service overlaps      *)
(* comes to its second write with the version it read, and what it is      *)
(* about to overwrite, another save's work, is kept in a version row.      *)
(***************************************************************************)
SavesSerialise ==
    \A r \in Requests :
        requests[r].op = "save" /\ At(r, "workflow") /\ r \notin disturbed =>
            /\ requests[r].version = workflow.version
            /\ <<workflow.version, workflow.graph>> \in versions

(***************************************************************************)
(* A row of the workflow's present version makes update and restoreVersion *)
(* throw.  There is one only while the save that inserted it is between    *)
(* its two writes, or after such a save was cut short there: no other      *)
(* order of saves, suggestions, merges and rollbacks locks a workflow.     *)
(***************************************************************************)
SaveNotBlocked ==
    \A row \in versions : row[1] = workflow.version =>
        \/ row[1] \in interrupted
        \/ \E r \in Requests : /\ requests[r].op = "save" /\ At(r, "workflow")
                               /\ requests[r].version = row[1]

(***************************************************************************)
(* A pull request is MERGED only when all of its merge is in the database, *)
(* whatever was cut short: it was approved if it had to be and had no      *)
(* conflict recorded, a commit of the target branch records the merge, and *)
(* its source branch is no longer worked on.                               *)
(***************************************************************************)
MergedIsWhole ==
    \A p \in PullRequests : prs[p].status = "MERGED" =>
        /\ prs[p].required => prs[p].approved
        /\ ~prs[p].conflict
        /\ \E i \in DOMAIN commits : commits[i].branch = prs[p].target /\ p \in commits[i].merges
        /\ branches[prs[p].source].status \in {"MERGED", "DELETED"}

(***************************************************************************)
(* Two commits at once may get one parent, and one of them leaves the      *)
(* history of the branch; but a history is never circular, and no parent   *)
(* or head names a commit that is not there, although parents and heads    *)
(* are copied from reads that other requests, forks included, overtake.    *)
(***************************************************************************)
HistoryGrounded ==
    /\ \A i \in DOMAIN commits : commits[i].parent < i
    /\ \A b \in Branches : branches[b].head <= Len(commits)

(***************************************************************************)
(* What users can go back to stays: a version row and a commit are never   *)
(* changed or removed, a pull request that is MERGED or CLOSED is never    *)
(* open again, and a save that no write of another service overlaps        *)
(* overwrites only what a version row keeps from then on.                  *)
(***************************************************************************)
NothingLost ==
    [][/\ versions \subseteq versions'
       /\ \A i \in DOMAIN commits : i \in DOMAIN commits' /\ commits'[i] = commits[i]
       /\ \A p \in PullRequests : prs[p].status \in {"MERGED", "CLOSED"} =>
             prs'[p].status \in {"MERGED", "CLOSED"}
       /\ \A r \in Requests :
             /\ requests[r].op = "save" /\ At(r, "workflow") /\ r \notin disturbed
             /\ workflow' # workflow /\ ~At(r, "workflow")'
             => <<workflow.version, workflow.graph>> \in versions'
      ]_vars

(***************************************************************************)
(* The workflow is to be "in sync" with its main branch                    *)
(* (updateBranchGraph): with no request in flight, and none cut short,     *)
(* both have the same graph.                                               *)
(***************************************************************************)
MainInSync ==
    /\ faults = 0
    /\ \A r \in Requests : At(r, "done")
    /\ branches[Main].status # "none"
    => branches[Main].graph = workflow.graph
=============================================================================
