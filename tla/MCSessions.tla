----------------------------- MODULE MCSessions -----------------------------
(***************************************************************************)
(* Two concurrent requests, a founder, an administrator and a member of    *)
(* different workspaces, and a store that sweeps at two records.           *)
(***************************************************************************)
EXTENDS Sessions, TLC

MCHomeOf ==
    [u \in Accounts |->
        IF u = "anna" THEN [role |-> RoleWorkspaceAdmin, workspace |-> "w1"]
        ELSE [role |-> RoleWorkspaceMember, workspace |-> "w2"]]

Symmetry == Permutations(Clients)
=============================================================================
