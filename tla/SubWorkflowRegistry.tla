------------------------- MODULE SubWorkflowRegistry -------------------------
(***************************************************************************)
(* The library of sub-workflows (SubWorkflowService): which workflows have *)
(* a row, whether that row is the latest version, and which workflows use  *)
(* it.  A row is unique per workflow (@unique on workflow_id), and every   *)
(* operation is a read followed by one or two writes without a             *)
(* transaction, so operations interleave between their statements.         *)
(***************************************************************************)
EXTENDS Naturals, FiniteSets

CONSTANTS
    Workflows,      \* workflows of one team
    MaxEdits        \* bound on operations in flight at once

ASSUME MaxEditsAssumption == MaxEdits \in Nat

VARIABLES
    registry,   \* the sub_workflows row of each workflow
    usages,     \* sub_workflow_usages: <<parent, workflow>>
    edits       \* operations between two of their statements

registryVars == <<registry, usages, edits>>

Edits == {"create", "publish", "version", "delete"} \X Workflows

RegistryTypeOK ==
    /\ registry \in [Workflows -> {"none", "latest", "stale"}]
    /\ usages \subseteq Workflows \X Workflows
    /\ edits \subseteq Edits

RegistryInit ==
    /\ registry = [w \in Workflows |-> "none"]
    /\ usages = {}
    /\ edits = {}

Begins(op, w) == Cardinality(edits) < MaxEdits /\ edits' = edits \union {<<op, w>>}
Ends(op, w) == <<op, w>> \in edits /\ edits' = edits \ {<<op, w>>}

-----------------------------------------------------------------------------
\* create: no row is found for the workflow ...
CreateChecks(w) ==
    /\ registry[w] = "none"
    /\ Begins("create", w)
    /\ UNCHANGED <<registry, usages>>

\* ... and one is inserted, unless a concurrent create was faster.
CreateInserts(w) ==
    /\ Ends("create", w)
    /\ registry' = IF registry[w] = "none" THEN [registry EXCEPT ![w] = "latest"] ELSE registry
    /\ UNCHANGED usages

\* publishVersion: the row is found ...
PublishFinds(w) ==
    /\ registry[w] # "none"
    /\ Begins("publish", w)
    /\ UNCHANGED <<registry, usages>>

\* ... marked as no longer the latest ...
PublishUnmarks(w) ==
    /\ <<"publish", w>> \in edits
    /\ registry' = [registry EXCEPT ![w] = "stale"]
    /\ edits' = (edits \ {<<"publish", w>>}) \union {<<"version", w>>}
    /\ UNCHANGED usages

\* ... and the next version is inserted with the same workflowId, which the
\* unique index refuses while the old row exists.
PublishInserts(w) ==
    /\ Ends("version", w)
    /\ registry' = IF registry[w] = "none" THEN [registry EXCEPT ![w] = "latest"] ELSE registry
    /\ UNCHANGED usages

\* delete: the row is found and no usage counted ...
DeleteCounts(w) ==
    /\ registry[w] # "none"
    /\ \A p \in Workflows : <<p, w>> \notin usages
    /\ Begins("delete", w)
    /\ UNCHANGED <<registry, usages>>

\* ... and the row is deleted with the usages recorded since (ON DELETE
\* CASCADE); the update of a publish in flight finds no row and throws.
DeleteRemoves(w) ==
    /\ <<"delete", w>> \in edits
    /\ edits' = edits \ {<<"delete", w>>, <<"publish", w>>}
    /\ registry' = [registry EXCEPT ![w] = "none"]
    /\ usages' = {u \in usages : u[2] # w}

\* recordUsage: the foreign key wants the row.  A usage is one of a node: a node
\* that is given another sub-workflow is a removal and a record.
RecordUsage(p, w) ==
    /\ registry[w] # "none"
    /\ usages' = usages \union {<<p, w>>}
    /\ UNCHANGED <<registry, edits>>

RemoveUsage(p, w) ==
    /\ <<p, w>> \in usages
    /\ usages' = usages \ {<<p, w>>}
    /\ UNCHANGED <<registry, edits>>

RegistryNext ==
    \E w \in Workflows :
        \/ CreateChecks(w) \/ CreateInserts(w)
        \/ PublishFinds(w) \/ PublishUnmarks(w) \/ PublishInserts(w)
        \/ DeleteCounts(w) \/ DeleteRemoves(w)
        \/ \E p \in Workflows : RecordUsage(p, w) \/ RemoveUsage(p, w)

-----------------------------------------------------------------------------
\* What executeSubWorkflow finds: the latest row, or the row of the pinned
\* version whatever its mark.
Found(w, pinned) == registry[w] = "latest" \/ (pinned /\ registry[w] = "stale")

(***************************************************************************)
(* publishVersion is there to "publish a new version of a sub-workflow":   *)
(* once it has returned or thrown, a sub-workflow in the library still has *)
(* a latest version, the one that calls without a pinned version run.      *)
(***************************************************************************)
LatestExists ==
    \A w \in Workflows : registry[w] = "stale" => <<"version", w>> \in edits

(***************************************************************************)
(* What publishVersion leaves so stays so (see LatestExists, which is      *)
(* false): no other operation gives a sub-workflow its latest version      *)
(* back, but to delete it, which its usages forbid, and create it anew.    *)
(***************************************************************************)
StaleStays ==
    [][\A w \in Workflows : registry[w] = "stale" => registry'[w] \in {"stale", "none"}]_registryVars
=============================================================================
