---------------------------- MODULE MCManagement ----------------------------
(* Instances of Management for TLC: what its processes are asked to do.       *)
EXTENDS Management, TLC

CONSTANTS g1, g2, c1

Do(kind) == [kind |-> kind, name |-> g1, conn |-> c1]
Editing == {Do(kind) : kind \in Kinds \ {"serve", "lock"}}
SecondIssue == [kind |-> "issue", name |-> g2, conn |-> c1]
TwoGrants == Editing \cup {SecondIssue}
Running == {Do(kind) : kind \in {"quick", "token", "delete", "serve", "lock"}}
Deleting == {Do(kind) : kind \in {"add", "issue", "delete"}}

Symmetric == Permutations(Procs)
=============================================================================
