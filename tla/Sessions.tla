------------------------------ MODULE Sessions ------------------------------
(***************************************************************************)
(* Authentication (internal/auth, the authentication handlers of           *)
(* internal/api/handler.go, the users table): logging in, rotating a       *)
(* refresh token, logging out, creating the founder, and what the access   *)
(* tokens then reach (module Authorization).                               *)
(*                                                                         *)
(* A refresh token is a number, in the order the tokens were issued, which *)
(* is the order of their creation and of their expiry: the horizon is the  *)
(* newest expired one.  A family is the number of its first token.  The    *)
(* refresh store lives in the process's memory (main.go passes no other),  *)
(* so a restart empties it; identities and workspaces are rows of the      *)
(* database.  Several requests run at once, and each lock or query of a    *)
(* handler is one step.  Rate limiting and malformed bodies refuse a       *)
(* request before it starts and are left out.                              *)
(***************************************************************************)
EXTENDS Authorization, FiniteSets, FiniteSetsExt, Functions

CONSTANTS
    Clients,                \* concurrent requests
    Founder,                \* the identity Bootstrap creates
    Accounts,               \* the other identities, provisioned in the database
    HomeOf,                 \* the account's role and workspace columns
    WorkspaceNames,         \* names a workspace may be given
    refreshSweepThreshold,  \* records at which Save sweeps the store
    refreshEvictBatch,      \* oldest records one sweep drops
    MaxAccounts,            \* bound on the accounts provisioned
    MaxTokens               \* bound on the refresh tokens issued

ASSUME AccountsAssumption ==
    /\ Founder \notin Accounts
    /\ HomeOf \in [Accounts -> [role : Tenants, workspace : Workspaces]]

ASSUME SweepAssumption ==
    /\ refreshSweepThreshold \in Nat \ {0}
    /\ refreshEvictBatch \in 1..refreshSweepThreshold
    /\ MaxTokens \in Nat /\ MaxAccounts \in Nat

VARIABLES
    users,      \* rows of the users table
    minted,     \* [user, family] of every refresh token issued so far
    store,      \* byHash: token -> [used, revoked]
    horizon,    \* tokens up to this one have expired
    held,       \* refresh tokens an answer carried to a client, each with an
                \* access token for the same identity
    names,      \* names in the workspaces table
    call,       \* the request each client has under way
    ended       \* history: tokens of a family at the time reuse ended it

vars == <<users, minted, store, horizon, held, names, call, ended>>

Record == [used : BOOLEAN, revoked : BOOLEAN]
Nobody == [op |-> "none", pc |-> "idle", user |-> Founder, token |-> 0, late |-> FALSE]

Init ==
    /\ users \in kSubset(MaxAccounts, Accounts)
    /\ minted = <<>> /\ store = <<>> /\ horizon = 0
    /\ held = {} /\ names = {} /\ ended = {}
    /\ call = [c \in Clients |-> Nobody]

(***************************************************************************)
(* The refresh store.                                                      *)
(***************************************************************************)
evictExpired(s) == Restrict(s, {t \in DOMAIN s : t > horizon})

evictOldest(s, n) ==
    Restrict(s, {t \in DOMAIN s : Cardinality({u \in DOMAIN s : u < t}) >= n})

\* Mutant: only expired records are reclaimed.
SweptExpiredOnly(s) == evictExpired(s)

Swept(s) ==
    LET fresh == evictExpired(s)
    IN IF Cardinality(DOMAIN fresh) < refreshSweepThreshold
       THEN fresh ELSE evictOldest(fresh, refreshEvictBatch)

Put(s, t, rec) == [u \in DOMAIN s \cup {t} |-> IF u = t THEN rec ELSE s[u]]

Save(t, rec) ==
    IF t \notin DOMAIN store /\ Cardinality(DOMAIN store) >= refreshSweepThreshold
    THEN Put(Swept(store), t, rec)
    ELSE Put(store, t, rec)

Revoke(t) ==
    IF t \in DOMAIN store THEN [store EXCEPT ![t].revoked = TRUE] ELSE store

Family(f) == {t \in DOMAIN minted : minted[t].family = f}

\* Mutant: only the login's own token is revoked.
RevokeFirst(f) == Revoke(f)

RevokeFamily(f) ==
    [t \in DOMAIN store |->
        IF t \in Family(f) THEN [store[t] EXCEPT !.revoked = TRUE] ELSE store[t]]

Live == {t \in DOMAIN store : ~store[t].used /\ ~store[t].revoked}

(***************************************************************************)
(* Claims.  A record without a usable role is a member's.                  *)
(***************************************************************************)
RoleFor(u) == IF u = Founder THEN RoleFounder ELSE HomeOf[u].role

ClaimsFor(u) ==
    [id |-> u, role |-> RoleFor(u), permissions |-> PermissionsForRole(RoleFor(u)),
     workspace |-> IF u = Founder THEN NoWorkspace ELSE HomeOf[u].workspace]

\* The identities whose access tokens are in circulation.
Bearers == { minted[t].user : t \in held }

\* Every request an identity's claims are served.
ServedTo ==
    [u \in Accounts \cup {Founder} |-> {r \in Requests : Served(ClaimsFor(u), r)}]

(***************************************************************************)
(* Requests.                                                               *)
(***************************************************************************)
At(c, op, pc) == call[c].op = op /\ call[c].pc = pc
Moves(c, pc) == call' = [call EXCEPT ![c].pc = pc]
Answers(c) == call' = [call EXCEPT ![c] = Nobody]

Starts(c, op, pc, u, t) ==
    call' = [call EXCEPT ![c] = [op |-> op, pc |-> pc, user |-> u, token |-> t,
                                 late |-> op = "refresh" /\ t \notin Live]]

\* The write is done and its audit event is next; the answer is a status.
Records(c) == call' = [call EXCEPT ![c].pc = "record"]

\* Bootstrap: the insert fails on the single-founder index once one exists.
\* The configured founder's row and its audit event are separate steps.
Bootstrap(c) ==
    /\ call[c] = Nobody
    /\ Founder \notin users
    /\ users' = users \cup {Founder}
    /\ Records(c)
    /\ UNCHANGED <<minted, store, horizon, held, names, ended>>

\* Login with the right password; an unknown name and a wrong password are
\* answered alike and change nothing.
Login(c, u) ==
    /\ call[c] = Nobody
    /\ u \in users
    /\ Starts(c, "login", "issue", u, 0)
    /\ UNCHANGED <<users, minted, store, horizon, held, names, ended>>

\* Refresh: the signed token is parsed and its identity looked up before it
\* is rotated.  Both refusals are the same answer.
RefreshBegins(c, t) ==
    /\ call[c] = Nobody
    /\ t > horizon
    /\ minted[t].user \in users
    /\ Starts(c, "refresh", "lookup", minted[t].user, t)
    /\ UNCHANGED <<users, minted, store, horizon, held, names, ended>>

\* Mutant: a revoked record is still rotated.
LookupUsedOnly(c) ==
    LET t == call[c].token
    IN /\ At(c, "refresh", "lookup")
       /\ \/ /\ t \in DOMAIN store /\ store[t].used
             /\ Moves(c, "revoke")
          \/ /\ t \notin DOMAIN store \/ t <= horizon
             /\ Answers(c)
          \/ /\ t \in DOMAIN store /\ ~store[t].used /\ t > horizon
             /\ Moves(c, "rotate")
       /\ UNCHANGED <<users, minted, store, horizon, held, names, ended>>

\* The token is parsed once more, then Get under the read lock and the checks
\* on the copy it returns.  A used token that has expired is refused by the
\* parser, or ends its family if it expired just after.  The denial's audit
\* event is best effort.
Lookup(c) ==
    LET t == call[c].token
    IN /\ At(c, "refresh", "lookup")
       /\ \/ /\ t \in DOMAIN store /\ store[t].used
             /\ Moves(c, "revoke")
          \/ /\ \/ t <= horizon \/ t \notin DOMAIN store
                \/ t \in DOMAIN store /\ ~store[t].used /\ store[t].revoked
             /\ Answers(c)
          \/ /\ t \in Live /\ t > horizon
             /\ Moves(c, "rotate")
       /\ UNCHANGED <<users, minted, store, horizon, held, names, ended>>

\* Reuse detected: every record of the family is revoked, and the request
\* is refused.
EndFamily(c) ==
    LET f == minted[call[c].token].family
    IN /\ At(c, "refresh", "revoke")
       /\ store' = RevokeFamily(f)
       /\ ended' = ended \cup Family(f)
       /\ Answers(c)
       /\ UNCHANGED <<users, minted, horizon, held, names>>

\* Mutant: the copy is saved as it was read.
RotatedLater == [used |-> FALSE, revoked |-> FALSE]

\* The copy goes back to the store used and revoked, whatever happened to
\* the record since Get.
Rotated == [used |-> TRUE, revoked |-> TRUE]

Rotate(c) ==
    /\ At(c, "refresh", "rotate")
    /\ store' = Save(call[c].token, Rotated)
    /\ Moves(c, "issue")
    /\ UNCHANGED <<users, minted, horizon, held, names, ended>>

\* A login's token starts a family; a rotation's stays in its own.
issueRefreshToken(c) ==
    LET t == Len(minted) + 1
        f == IF call[c].op = "login" THEN t ELSE minted[call[c].token].family
    IN /\ call[c].pc = "issue"
       /\ t <= MaxTokens
       /\ minted' = Append(minted, [user |-> call[c].user, family |-> f])
       /\ store' = Save(t, [used |-> FALSE, revoked |-> FALSE])
       /\ call' = [call EXCEPT ![c].pc = "record", ![c].token = t]
       /\ UNCHANGED <<users, horizon, held, names, ended>>

\* Logout revokes the token, known or not, without looking at its owner.
Logout(c, t) ==
    /\ call[c] = Nobody
    /\ store' = Revoke(t)
    /\ Records(c)
    /\ UNCHANGED <<users, minted, horizon, held, names, ended>>

\* POST /workspaces: the claims must be granted the request, and the name
\* is inserted under its unique constraint.
CreateWorkspace(c, u, name) ==
    /\ call[c] = Nobody
    /\ \E r \in ServedTo[u] : r.action = "POST" /\ r.path = <<"workspaces">>
    /\ name \notin names
    /\ names' = names \cup {name}
    /\ Records(c)
    /\ UNCHANGED <<users, minted, store, horizon, held, ended>>

\* The success event is durable: login and refresh answer with the tokens.
Recorded(c) ==
    /\ call[c].pc = "record"
    /\ IF call[c].op \in {"login", "refresh"}
       THEN held' = held \cup {call[c].token}
       ELSE held' = held
    /\ Answers(c)
    /\ UNCHANGED <<users, minted, store, horizon, names, ended>>

\* The append fails: an internal error, and what was written stays written.
RecordFails(c) ==
    /\ call[c].pc = "record"
    /\ Answers(c)
    /\ UNCHANGED <<users, minted, store, horizon, held, names, ended>>

(***************************************************************************)
(* The environment: time, the process, and the database's operators.       *)
(***************************************************************************)
Expire ==
    /\ horizon < Len(minted)
    /\ horizon' = horizon + 1
    /\ UNCHANGED <<users, minted, store, held, names, call, ended>>

\* The process starts again with an empty refresh store.
Restart ==
    /\ store' = <<>>
    /\ call' = [c \in Clients |-> Nobody]
    /\ UNCHANGED <<users, minted, horizon, held, names, ended>>

\* No handler removes an identity; an operator does.
RemoveAccount(u) ==
    /\ users' = users \ {u}
    /\ UNCHANGED <<minted, store, horizon, held, names, call, ended>>

Next ==
    \/ \E c \in Clients :
        \/ Bootstrap(c)
        \/ \E u \in users : Login(c, u)
        \/ \E t \in held : RefreshBegins(c, t) \/ Logout(c, t)
        \/ Lookup(c) \/ EndFamily(c) \/ Rotate(c) \/ issueRefreshToken(c)
        \/ \E u \in Bearers, name \in WorkspaceNames : CreateWorkspace(c, u, name)
        \/ Recorded(c) \/ RecordFails(c)
    \/ Expire \/ Restart
    \/ \E u \in users \cap Accounts : RemoveAccount(u)

Spec == Init /\ [][Next]_vars

(***************************************************************************)
(* Properties.                                                             *)
(***************************************************************************)

\* A refresh token that was rotated, revoked, evicted or lost in a restart
\* never becomes usable again, although Refresh writes back a copy it read
\* before a concurrent logout or family revocation (auth.go Refresh, Save).
DeadStayDead ==
    [][\A t \in DOMAIN minted : t \notin Live => t \notin Live']_vars

\* Once reuse was detected, every token the family had by then is revoked
\* for as long as the store knows it (auth.go RevokeFamily), concurrent
\* rotations and evictions included.
ReplayEndsFamily ==
    \A t \in ended \cap DOMAIN store : store[t].revoked

\* What the comment in JWTService.Refresh wants of reuse detection: "Revoke every
\* token descended from the same login (the family), not merely the presented
\* token".  A successor that is on its way then is not among them.
ReuseEndsSession ==
    \A t \in Live : \A r \in ended : minted[t].family # minted[r].family

\* A refresh that began after its token was consumed, revoked or forgotten is
\* never rotated or answered with tokens, whatever other requests, evictions
\* and restarts come between ("Reused/revoked tokens are always rejected",
\* AuthHandler.Refresh).
LateRefused ==
    \A c \in Clients : call[c].late => call[c].pc \in {"lookup", "revoke"}

\* The refresh store never outgrows its sweep threshold, whether Save
\* inserts a new record or puts back one that was evicted since it was read.
StoreBounded == Cardinality(DOMAIN store) <= refreshSweepThreshold

\* What a request served to an identity must satisfy.
Confined(u, request) ==
    LET claims == ClaimsFor(u)
        root == request.route[1]
        command == request.route[Len(request.route)]
    IN /\ root = "workspaces" /\ Len(request.path) > 1
            => claims.role = RoleFounder \/ claims.workspace = request.path[2]
       /\ root \notin {"workspaces", "audit", "api", "health"}
            => WorkspaceFromClaims(claims) \in Workspaces
       /\ command \in {"approve", "reject", "publish"}
            => claims.role = RoleWorkspaceAdmin
       /\ root \in {"departments", "teams", "ai-employees"} /\ request.action # "GET"
            => claims.role = RoleWorkspaceAdmin

ConfinedIdentities ==
    {u \in Accounts \cup {Founder} : \A request \in ServedTo[u] : Confined(u, request)}

\* Whatever access tokens are in circulation: a path that names a workspace
\* is served to that workspace's own people or to the founder; tenant data
\* is served only under the caller's own workspace, never to the founder;
\* and only an administrator decides on publications and pipelines or
\* changes the organization's structure (rbac.go, authz.go).
TenantConfined == Bearers \subseteq ConfinedIdentities
=============================================================================
