---------------------------- MODULE Publication ----------------------------
(***************************************************************************)
(* The publishing service (internal/publish) over its PostgreSQL store     *)
(* (infrastructure/postgres/publications.go).  Every command reads the     *)
(* row, decides on its copy, perhaps hands the copy to the platform, and   *)
(* writes the whole copy back with an UPDATE that compares nothing: what   *)
(* another command wrote in between is overwritten.                        *)
(*                                                                         *)
(* Callers run their commands concurrently; a command may stop between any *)
(* two of its steps, and its UPDATE may fail.  The fields of a publication *)
(* are reduced to the facts that the commands decide on or report.         *)
(***************************************************************************)
EXTENDS Integers, FiniteSets

CONSTANTS
    Publications,   \* the ids that may be created
    Caller,         \* requests and workers that call the service
    NoPublication

ASSUME PublicationAssumption == NoPublication \notin Publications

VARIABLES
    rows,         \* the table publications
    call,         \* per caller: its command
    approvals,    \* history: publications a human approval was committed for
    rejections,   \* history: publications a human rejection was committed for
    platform      \* history: publications the platform has accepted

pubVars == <<rows, call, approvals, rejections, platform>>

-----------------------------------------------------------------------------
PubStatus == {"queued", "review", "approved", "published", "failed",
              "rejected", "cancelled"}
Op == {"submit", "approve", "reject", "cancel", "publish", "retry"}
Delivering == {"publish", "retry"}

\* approved: approved_by and approved_at; rejected likewise; reference:
\* published_at, published_by and external_reference; reason: failure_reason.
PubRow == [status: PubStatus \cup {"absent"}, approved: BOOLEAN,
           rejected: BOOLEAN, reference: BOOLEAN, reason: BOOLEAN]

AbsentPub == [status |-> "absent", approved |-> FALSE, rejected |-> FALSE,
              reference |-> FALSE, reason |-> FALSE]

\* read: the status the command has seen; copy: the row it will write.
PubCall == [op: Op \cup {"none"}, of: Publications \cup {NoPublication},
            pc: {"idle", "loaded", "delivered", "done"}, copy: PubRow,
            read: PubStatus \cup {"absent"}, ok: BOOLEAN]

NoCall == [op |-> "none", of |-> NoPublication, pc |-> "idle",
           copy |-> AbsentPub, read |-> "absent", ok |-> FALSE]

PubInit ==
    /\ rows = [p \in Publications |-> AbsentPub]
    /\ call = [c \in Caller |-> NoCall]
    /\ approvals = {}
    /\ rejections = {}
    /\ platform = {}

-----------------------------------------------------------------------------
(* The lifecycle (publish.go).                                             *)

FinalStatus == {"published", "failed", "rejected", "cancelled"}

AllowedTransition ==
    {<<"queued", "review">>, <<"queued", "cancelled">>,
     <<"review", "approved">>, <<"review", "rejected">>,
     <<"review", "cancelled">>, <<"approved", "published">>,
     <<"approved", "failed">>, <<"failed", "published">>}

\* Mutant: the edges are not consulted, only the final statuses.
TransitionsFromOpen(from, to) == from \notin FinalStatus

\* The final statuses are refused before the edges are looked up, so the edge
\* that leaves "failed" is for retry alone, which does not ask here.
CanTransition(from, to) == from \notin FinalStatus /\ <<from, to>> \in AllowedTransition

Target(op) == CASE op = "submit" -> "review"
                [] op = "approve" -> "approved"
                [] op = "reject" -> "rejected"
                [] op = "cancel" -> "cancelled"
                [] op \in Delivering -> "published"

\* Mutant: Publish does not insist on the approval.
AcceptsUnapproved(op, row) ==
    \/ op \in {"submit", "approve", "reject", "cancel"}
          /\ CanTransition(row.status, Target(op))
    \/ op = "publish" /\ row.status \in {"review", "approved"}
    \/ op = "retry" /\ row.status = "failed" /\ row.approved

\* What each command demands of the row it has read.
Accepts(op, row) ==
    \/ op \in {"submit", "approve", "reject", "cancel"}
          /\ CanTransition(row.status, Target(op))
    \/ op = "publish" /\ CanTransition(row.status, "published") /\ row.approved
    \/ op = "retry" /\ row.status = "failed" /\ row.approved

\* The copy that the command will write.
Decided(op, row) ==
    [row EXCEPT !.status = Target(op),
                !.approved = @ \/ op = "approve",
                !.rejected = @ \/ op = "reject"]

\* Mutant: an error of the adapter is taken for an acknowledgement.
DeliveredRegardless(row, ok) ==
    [row EXCEPT !.status = "published", !.reference = TRUE, !.reason = FALSE]

Delivered(row, ok) ==
    IF ok THEN [row EXCEPT !.status = "published", !.reference = TRUE, !.reason = FALSE]
          ELSE [row EXCEPT !.status = "failed", !.reason = TRUE]

-----------------------------------------------------------------------------
(* The steps of a command.                                                 *)

\* A keyed create finds the row of an earlier one: by the lookup, or after its
\* INSERT has met the unique index.
Create(p) ==
    /\ rows[p].status = "absent"
    /\ rows' = [rows EXCEPT ![p] = [AbsentPub EXCEPT !.status = "queued"]]
    /\ UNCHANGED <<call, approvals, rejections, platform>>

\* getOwned and the checks on the copy.
Begin(c, p, op) ==
    /\ call[c].pc = "idle"
    /\ call' = [call EXCEPT ![c] =
          [NoCall EXCEPT !.op = op, !.of = p, !.read = rows[p].status,
              !.pc = IF Accepts(op, rows[p]) THEN "loaded" ELSE "done",
              !.copy = IF Accepts(op, rows[p]) /\ op \notin Delivering
                       THEN Decided(op, rows[p]) ELSE rows[p]]]
    /\ UNCHANGED <<rows, approvals, rejections, platform>>

\* The throttle refuses before anything is read.
Throttled(c, p, op) ==
    /\ call[c].pc = "idle" /\ op \in Delivering
    /\ call' = [call EXCEPT ![c] = [NoCall EXCEPT !.op = op, !.of = p, !.pc = "done"]]
    /\ UNCHANGED <<rows, approvals, rejections, platform>>

\* Publisher.Publish (external platform): its attempts may reach the platform
\* although the adapter reports a failure in the end.
Deliver(c, ok, accepted) ==
    /\ call[c].pc = "loaded" /\ call[c].op \in Delivering
    /\ ok => accepted
    /\ call' = [call EXCEPT ![c] = [call[c] EXCEPT !.pc = "delivered", !.ok = ok,
                                        !.copy = Delivered(call[c].copy, ok)]]
    /\ platform' = IF accepted THEN platform \cup {call[c].of} ELSE platform
    /\ UNCHANGED <<rows, approvals, rejections>>

Writing(c) ==
    \/ call[c].pc = "delivered"
    \/ call[c].pc = "loaded" /\ call[c].op \notin Delivering

\* store.Update: the whole copy, whatever the row holds by now.  The events and
\* the log entries that follow are not read back by anyone.
Update(c) ==
    /\ Writing(c)
    /\ rows' = [rows EXCEPT ![call[c].of] = call[c].copy]
    /\ call' = [call EXCEPT ![c].pc = "done", ![c].ok = @ \/ call[c].op \notin Delivering]
    /\ approvals' = IF call[c].op = "approve" THEN approvals \cup {call[c].of} ELSE approvals
    /\ rejections' = IF call[c].op = "reject" THEN rejections \cup {call[c].of} ELSE rejections
    /\ UNCHANGED platform

\* The UPDATE fails, for instance because the client went away.
UpdateFails(c) ==
    /\ Writing(c)
    /\ call' = [call EXCEPT ![c].pc = "done", ![c].ok = FALSE]
    /\ UNCHANGED <<rows, approvals, rejections, platform>>

\* The answer is sent, or the process dies on the way.
EndCall(c) ==
    /\ call[c].pc # "idle"
    /\ call' = [call EXCEPT ![c] = NoCall]
    /\ UNCHANGED <<rows, approvals, rejections, platform>>

ServiceStep(c) ==
    \/ \E ok, accepted \in BOOLEAN : Deliver(c, ok, accepted)
    \/ Update(c) \/ UpdateFails(c)

PubNext ==
    \/ \E p \in Publications : Create(p)
    \/ \E c \in Caller :
        \/ \E p \in Publications, op \in Op : Begin(c, p, op) \/ Throttled(c, p, op)
        \/ ServiceStep(c)
        \/ EndCall(c)

PubSpec == PubInit /\ [][PubNext]_pubVars

-----------------------------------------------------------------------------
(* Properties.                                                             *)

\* Every row and every command is well formed.
PubTypeOK ==
    /\ rows \in [Publications -> PubRow]
    /\ call \in [Caller -> PubCall]
    /\ approvals \subseteq Publications
    /\ rejections \subseteq Publications
    /\ platform \subseteq Publications

\* Human oversight: nothing reaches the platform that no human approved,
\* whatever commands overlap (service.go, Publish: "No publish without approval
\* is guaranteed here").
ApprovalGate == platform \subseteq approvals

\* A publication is reported as published only if the platform accepted it, and
\* every status comes with the fields that justify it: commands write whole
\* copies, so even an overwritten row is never a mixture of two.
Justified(p) ==
    LET r == rows[p] IN
    /\ r.status = "published" => p \in platform
    /\ r.approved <=> r.status \in {"approved", "published", "failed"}
    /\ r.rejected <=> r.status = "rejected"
    /\ r.reference <=> r.status = "published"
    /\ r.reason <=> r.status = "failed"

RowsJustified == \A p \in Publications : Justified(p)

\* A change of status is one of allowedTransition, final statuses included,
\* unless it is a lost update: the command that writes has not seen the status
\* that it replaces.
LostUpdate(p) == \E c \in Caller :
    /\ call[c].of = p /\ Writing(c) /\ call'[c].pc = "done"
    /\ call[c].read # rows[p].status

LifecycleKept == [][\A p \in Publications :
    rows'[p].status # rows[p].status =>
        \/ rows[p].status = "absent"
        \/ <<rows[p].status, rows'[p].status>> \in AllowedTransition
        \/ LostUpdate(p)]_pubVars

\* A rejected publication is never handed to the platform (service.go, Reject:
\* "Terminal; no publish").
RejectedUnpublished == [][\A p \in rejections : p \in platform' => p \in platform]_pubVars
=============================================================================
