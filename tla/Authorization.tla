--------------------------- MODULE Authorization ---------------------------
(***************************************************************************)
(* The deny-by-default authorization layer (internal/authz, internal/rbac, *)
(* the middleware chain of main.go): which requests a set of verified      *)
(* claims is granted.  A route pattern and a request path are sequences of *)
(* segments; Placeholders stand for the segments written in braces.  The   *)
(* constitutional principle a rule names is left out.                      *)
(***************************************************************************)
EXTENDS Naturals, Sequences

CONSTANTS
    Workspaces,     \* workspace identifiers a path or a claim may name
    NoWorkspace     \* the empty workspace of an organization-level identity

ASSUME WorkspacesAssumption == NoWorkspace \notin Workspaces

RoleFounder == "founder"
RoleWorkspaceAdmin == "workspace_admin"
RoleWorkspaceMember == "workspace_member"
Roles == {RoleFounder, RoleWorkspaceAdmin, RoleWorkspaceMember}

ValidRole(r) == r \in Roles

Admins == {RoleWorkspaceAdmin}
Tenants == {RoleWorkspaceAdmin, RoleWorkspaceMember}

(***************************************************************************)
(* The rules seeded into the authorizer.                                   *)
(***************************************************************************)
Rule(action, pattern, roles, scope) ==
    [action |-> action, pattern |-> pattern, roles |-> roles, scope |-> scope]

organizationRules ==
    { Rule("GET", <<"api", "me">>, Roles, "none"),
      Rule("GET", <<"workspaces">>, {RoleFounder}, "none"),
      Rule("POST", <<"workspaces">>, {RoleFounder}, "none"),
      Rule("GET", <<"workspaces", "{id}">>, {RoleFounder}, "none"),
      Rule("GET", <<"workspaces", "{id}">>, Admins, "path") }

auditRules ==
    { Rule("GET", <<"audit", "events">>, {RoleFounder}, "none"),
      Rule("GET", <<"audit", "verification">>, {RoleFounder}, "none"),
      Rule("GET", <<"workspaces", "{id}", "audit", "events">>, {RoleFounder}, "none"),
      Rule("GET", <<"workspaces", "{id}", "audit", "events">>, Tenants, "path") }

taskRules ==
    { Rule("POST", <<"tasks">>, Tenants, "self"),
      Rule("GET", <<"tasks">>, Tenants, "self"),
      Rule("GET", <<"tasks", "{id}">>, Tenants, "self"),
      Rule("PATCH", <<"tasks", "{id}">>, Tenants, "self"),
      Rule("POST", <<"tasks", "{id}", "transition">>, Tenants, "self"),
      Rule("POST", <<"tasks", "{id}", "execute">>, Tenants, "self"),
      Rule("GET", <<"executions", "{id}">>, Tenants, "self"),
      Rule("POST", <<"executions", "{id}", "cancel">>, Tenants, "self") }

knowledgeRules ==
    { Rule("POST", <<"knowledge">>, Tenants, "self"),
      Rule("GET", <<"knowledge">>, Tenants, "self"),
      Rule("GET", <<"knowledge", "{id}">>, Tenants, "self"),
      Rule("PATCH", <<"knowledge", "{id}">>, Tenants, "self"),
      Rule("DELETE", <<"knowledge", "{id}">>, Tenants, "self"),
      Rule("POST", <<"knowledge", "search">>, Tenants, "self"),
      Rule("GET", <<"memory", "{layer}", "{key}">>, Tenants, "self"),
      Rule("PUT", <<"memory", "{layer}", "{key}">>, Tenants, "self") }

\* Departments, teams and AI employees have the same five rules each.
hierarchyRules ==
    UNION { { Rule("POST", <<kind>>, Admins, "self"),
              Rule("GET", <<kind>>, Tenants, "self"),
              Rule("GET", <<kind, "{id}">>, Tenants, "self"),
              Rule("PATCH", <<kind, "{id}">>, Admins, "self"),
              Rule("DELETE", <<kind, "{id}">>, Admins, "self") } :
            kind \in {"departments", "teams", "ai-employees"} }

publicationRules ==
    { Rule("POST", <<"publications">>, Tenants, "self"),
      Rule("GET", <<"publications">>, Tenants, "self"),
      Rule("GET", <<"publications", "{id}">>, Tenants, "self"),
      Rule("POST", <<"publications", "{id}", "submit">>, Tenants, "self") }
      \cup { Rule("POST", <<"publications", "{id}", decision>>, Admins, "self") :
             decision \in {"approve", "reject", "publish", "retry"} }

pipelineRules ==
    { Rule("POST", <<"pipelines">>, Tenants, "self"),
      Rule("GET", <<"pipelines">>, Tenants, "self"),
      Rule("GET", <<"pipelines", "{id}">>, Tenants, "self"),
      Rule("POST", <<"pipelines", "{id}", "approve">>, Admins, "self"),
      Rule("POST", <<"pipelines", "{id}", "retry">>, Tenants, "self") }

ImplementedRules ==
    organizationRules \cup auditRules \cup taskRules \cup knowledgeRules
      \cup hierarchyRules \cup publicationRules \cup pipelineRules

(***************************************************************************)
(* The permissions minted into an access token, by role: pairs of a method *)
(* and a pattern.                                                          *)
(***************************************************************************)
founderPermissions ==
    ({"GET"} \X { <<"api", "me">>, <<"workspaces">>, <<"workspaces", "{id}">>,
                  <<"audit", "events">>, <<"audit", "verification">>,
                  <<"workspaces", "{id}", "audit", "events">> })
      \cup ({"POST"} \X { <<"workspaces">> })

memberPermissions ==
    ({"GET"} \X { <<"api", "me">>, <<"workspaces", "{id}", "audit", "events">>,
                  <<"tasks">>, <<"tasks", "{id}">>, <<"executions", "{id}">>,
                  <<"knowledge">>, <<"knowledge", "{id}">>,
                  <<"memory", "{layer}", "{key}">>,
                  <<"publications">>, <<"publications", "{id}">>,
                  <<"pipelines">>, <<"pipelines", "{id}">>,
                  <<"departments">>, <<"departments", "{id}">>,
                  <<"teams">>, <<"teams", "{id}">>,
                  <<"ai-employees">>, <<"ai-employees", "{id}">> })
      \cup ({"POST"} \X { <<"tasks">>, <<"tasks", "{id}", "transition">>,
                  <<"tasks", "{id}", "execute">>, <<"executions", "{id}", "cancel">>,
                  <<"knowledge">>, <<"knowledge", "search">>,
                  <<"publications">>, <<"publications", "{id}", "submit">>,
                  <<"pipelines">>, <<"pipelines", "{id}", "retry">> })
      \cup ({"PATCH"} \X { <<"tasks", "{id}">>, <<"knowledge", "{id}">> })
      \cup ({"PUT"} \X { <<"memory", "{layer}", "{key}">> })
      \cup ({"DELETE"} \X { <<"knowledge", "{id}">> })

\* What the administrator's list has beyond the member's.
adminPermissions ==
    memberPermissions
      \cup ({"GET"} \X { <<"workspaces", "{id}">> })
      \cup ({"POST"} \X { <<"publications", "{id}", "approve">>,
                  <<"publications", "{id}", "reject">>,
                  <<"publications", "{id}", "publish">>,
                  <<"publications", "{id}", "retry">>,
                  <<"pipelines", "{id}", "approve">>,
                  <<"departments">>, <<"teams">>, <<"ai-employees">> })
      \cup ({"PATCH", "DELETE"} \X { <<"departments", "{id}">>,
                  <<"teams", "{id}">>, <<"ai-employees", "{id}">> })

PermissionsForRole(r) ==
    CASE r = RoleFounder -> founderPermissions
      [] r = RoleWorkspaceAdmin -> adminPermissions
      [] r = RoleWorkspaceMember -> memberPermissions
      [] OTHER -> {}

(***************************************************************************)
(* The decision.                                                           *)
(***************************************************************************)
Placeholders == {"{id}", "{layer}", "{key}"}

matchResource(pattern, path) ==
    /\ Len(pattern) = Len(path)
    /\ \A i \in DOMAIN pattern : pattern[i] \in Placeholders \/ pattern[i] = path[i]

\* The first captured segment, the workspace of a ScopePath rule.
Captured(pattern, path) ==
    LET at == {i \in DOMAIN pattern : pattern[i] \in Placeholders}
    IN IF at = {} THEN NoWorkspace ELSE path[CHOOSE i \in at : \A j \in at : i <= j]

hasPermission(claims, action, path) ==
    \E grant \in claims.permissions :
        grant[1] = action /\ matchResource(grant[2], path)

\* Mutant: any captured workspace satisfies the path scope.
InScopeAnyPath(scope, captured, workspace) ==
    scope = "none" \/ workspace # NoWorkspace

inScope(scope, captured, workspace) ==
    \/ scope = "none"
    \/ scope = "self" /\ workspace # NoWorkspace
    \/ scope = "path" /\ workspace # NoWorkspace /\ captured = workspace

\* Claims no identity of the database can have are refused with the token.
validateClaimsShape(claims) ==
    /\ ValidRole(claims.role)
    /\ claims.role = RoleFounder <=> claims.workspace = NoWorkspace

AuthorizeClaims(claims, action, path) ==
    /\ ValidRole(claims.role)
    /\ \E rule \in ImplementedRules :
        /\ rule.action = action
        /\ matchResource(rule.pattern, path)
        /\ claims.role \in rule.roles
        /\ hasPermission(claims, action, path)
        /\ inScope(rule.scope, Captured(rule.pattern, path), claims.workspace)

(***************************************************************************)
(* The registered surface.                                                 *)
(***************************************************************************)
publicRoutes ==
    ({"GET"} \X { <<"health", "live">>, <<"health", "ready">> })
      \cup ({"POST"} \X { <<"api", "auth", entry>> :
                          entry \in {"bootstrap", "login", "refresh", "logout"} })

Routes ==
    publicRoutes
      \cup ({"GET"} \X { <<"api", "me">>, <<"workspaces">>, <<"workspaces", "{id}">>,
                  <<"audit", "events">>, <<"audit", "verification">>,
                  <<"workspaces", "{id}", "audit", "events">>,
                  <<"tasks">>, <<"tasks", "{id}">>, <<"executions", "{id}">>,
                  <<"memory", "{layer}", "{key}">> })
      \cup ({"POST"} \X { <<"workspaces">>, <<"tasks">>, <<"tasks", "{id}", "transition">>,
                  <<"tasks", "{id}", "execute">>, <<"executions", "{id}", "cancel">>,
                  <<"knowledge", "search">> })
      \cup ({"POST"} \X { <<"publications", "{id}", command>> :
                  command \in {"submit", "approve", "reject", "publish", "retry"} })
      \cup ({"POST"} \X { <<"pipelines", "{id}", command>> :
                  command \in {"approve", "retry"} })
      \cup ({"POST", "GET"} \X { <<kind>> : kind \in {"knowledge", "publications",
                  "pipelines", "departments", "teams", "ai-employees"} })
      \cup ({"GET"} \X { <<kind, "{id}">> : kind \in {"knowledge", "publications",
                  "pipelines", "departments", "teams", "ai-employees"} })
      \cup ({"PATCH", "DELETE"} \X { <<kind, "{id}">> :
                  kind \in {"knowledge", "departments", "teams", "ai-employees"} })
      \cup { <<"PATCH", <<"tasks", "{id}">>>>, <<"PUT", <<"memory", "{layer}", "{key}">>>> }

\* Paths of a registered route, its placeholders filled with one value.
PathValues == Workspaces \cup {"search"}

Fill(pattern, v) ==
    [i \in DOMAIN pattern |-> IF pattern[i] \in Placeholders THEN v ELSE pattern[i]]

Requests ==
    { [action |-> r[1], route |-> r[2], path |-> Fill(r[2], v)] :
      r \in Routes, v \in PathValues }

\* RequireAuth and authzMiddleware: a public route needs no claims; on the
\* others the claims must have their shape and be granted the request.
Served(claims, request) ==
    \/ <<request.action, request.path>> \in publicRoutes
    \/ validateClaimsShape(claims) /\ AuthorizeClaims(claims, request.action, request.path)

\* The workspace a handler binds its queries to, from the claims alone.
WorkspaceFromClaims(claims) ==
    IF claims.role \in Tenants THEN claims.workspace ELSE NoWorkspace
=============================================================================
