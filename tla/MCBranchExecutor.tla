-------------------------- MODULE MCBranchExecutor --------------------------
(* Small graphs for TLC: the shapes the documentation draws.                *)
EXTENDS BranchExecutor

CONSTANTS a, b, c, d

To(x, y) == [source |-> x, target |-> y, handle |-> "output"]
If(x, y, h) == [source |-> x, target |-> y, handle |-> h]

Diamond == {To(a, b), To(a, c), To(b, d), To(c, d)}
Condition == {If(a, b, "true"), If(a, c, "false"), To(b, d), To(c, d)}
Guard == {To(a, b), If(b, c, "true"), If(b, d, "error")}
Fan == {To(a, b), To(a, c), To(a, d)}
Cycle == {To(a, b), To(b, c), To(c, b), To(a, d)}
Independent == {To(a, b), To(c, d)}

Shapes == {Diamond, Condition, Guard, Fan, Cycle, Independent}
OneCondition == {Condition}
=============================================================================
