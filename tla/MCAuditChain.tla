---------------------------- MODULE MCAuditChain ----------------------------
(* The API runs two operations and the worker one; two are fail-closed.    *)
EXTENDS AuditChain, TLC

CONSTANTS api, worker, login, memory, publish, ws

MCProcessOf == login :> api @@ memory :> api @@ publish :> worker
MCOutcomeOf == login :> "denied" @@ memory :> "success" @@ publish :> "success"
MCWorkspaceOf == login :> NoWorkspace @@ memory :> ws @@ publish :> ws
=============================================================================
