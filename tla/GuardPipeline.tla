--------------------------- MODULE GuardPipeline ---------------------------
(***************************************************************************)
(* A guarded call from the tool handler to the backend, on the two paths   *)
(* of the gateway, interleaved with everything that may happen while it    *)
(* awaits: the policy file is reloaded, time passes, humans decide, the    *)
(* caller goes away, the audit log fails, the process begins to shut down. *)
(*                                                                         *)
(*   run path      core/pipeline.py, GuardPipeline.run(): the reads and    *)
(*                 exports; approval is asked for at the REST endpoint     *)
(*                 through ApprovalStore, which this module extends.  *)
(*   confirm path  server/tools/_common.py, _run_with_confirm(): the       *)
(*                 writes; approval is asked for in-band, by elicitation.  *)
(*                                                                         *)
(* One step is one stretch between two awaits.  What is decided about a    *)
(* request is PolicyDecision's Evaluate under the policy the loader holds  *)
(* at that moment.                                                         *)
(***************************************************************************)
EXTENDS PolicyDecision, ApprovalStore, Sequences

CONSTANTS
    ConfirmCalls,     \* calls of tools that go through _run_with_confirm()
    RunRequests,      \* what the calls through run(), RunCalls, ask for
    ConfirmRequests,  \* what the others ask for
    Files,            \* the policies, NoPolicy included, a reload can load
    FailClosed,       \* GUARDMCP_AUDIT_FAIL_CLOSED
    MaxReloads,       \* bound: reloads that change the policy
    MaxNow,           \* bound: ticks of the clock of temporal windows
    MaxAuditFailures  \* bound: failing audit writes

\* A tool goes one way or the other.
ASSUME OnePath == RunCalls \intersect ConfirmCalls = {}

Calls == RunCalls \union ConfirmCalls

VARIABLES
    \* the world
    policy,           \* what PolicyLoader.get() answers for the agent
    now,              \* datetime.now(UTC)
    reloads, auditFailures,
    trail,            \* the audit log: <<[call, status], ...>>
    effects,          \* calls whose operation reached the backend
    \* the locals of each call
    pc,               \* the await the call stands at
    request,          \* its Request
    used,             \* the policy of the EvalResult it holds
    decision,         \* the decision it acts on
    entry,            \* the status of the record it is writing, or wrote last
    outcome,          \* what it answered
    \* history
    confirmed,        \* calls whose elicitation a human accepted
    revoked           \* calls whose approval arrived under a denying policy

world     == <<policy, now, reloads>>
history   == <<confirmed, revoked>>
local     == <<pc, used, decision, entry, outcome>>
vars      == <<storeVars, world, auditFailures, trail, effects, local, request, history>>

Records == [call : Calls, status : Statuses \union {"approved", "error"}]

TypeOK ==
    /\ StoreTypeOK
    /\ policy \in Files
    /\ now \in 0 .. MaxNow /\ reloads \in 0 .. MaxReloads
    /\ auditFailures \in 0 .. MaxAuditFailures
    /\ trail \in Seq(Records)
    /\ effects \subseteq Calls /\ confirmed \subseteq ConfirmCalls /\ revoked \subseteq Calls
    /\ pc \in [Calls -> {"new", "estimating", "auditing", "waiting", "eliciting",
                         "executing", "ended"}]
    /\ request \in [Calls -> RunRequests \union ConfirmRequests]
    /\ used \in [Calls -> Files]
    /\ decision \in [Calls -> [risk : NoRisk .. Critical, status : Statuses]]
    /\ entry \in [Calls -> {"none", "approved", "error"} \union Statuses]
    /\ outcome \in [Calls -> {"none", "ok", "denied", "declined", "error", "rate_limited",
                              "raised", "cancelled"}]

Init ==
    /\ StoreInit
    /\ policy \in Files
    /\ now = 0 /\ reloads = 0 /\ auditFailures = 0
    /\ trail = <<>> /\ effects = {} /\ confirmed = {} /\ revoked = {}
    /\ pc = [c \in Calls |-> "new"]
    /\ request \in {q \in [Calls -> RunRequests \union ConfirmRequests] :
                       \A c \in Calls : q[c] \in IF c \in RunCalls THEN RunRequests ELSE ConfirmRequests}
    /\ used = [c \in Calls |-> policy]
    /\ decision = [c \in Calls |-> [risk |-> NoRisk, status |-> "denied"]]
    /\ entry = [c \in Calls |-> "none"]
    /\ outcome = [c \in Calls |-> "none"]

----------------------------------------------------------------------------
(* Control within one call.                                                *)

\* Call c goes on to await w.
Await(c, w) == pc' = [pc EXCEPT ![c] = w] /\ UNCHANGED outcome

\* Call c ends with this answer.
End(c, answer) ==
    /\ pc' = [pc EXCEPT ![c] = "ended"]
    /\ outcome' = [outcome EXCEPT ![c] = answer]

\* Call c goes on to await the audit record of this status.
AuditThen(c, s) == Await(c, "auditing") /\ entry' = [entry EXCEPT ![c] = s]

Fresh(c) == Evaluate(policy, request[c], now)

Hold(c, d) ==
    /\ used' = [used EXCEPT ![c] = policy]
    /\ decision' = [decision EXCEPT ![c] = d]

----------------------------------------------------------------------------
(* run().                                                                  *)

\* The limiter has no token: refused before anything is evaluated or audited.
RateLimited(c) ==
    /\ c \in RunCalls /\ pc[c] = "new"
    /\ End(c, "rate_limited")
    /\ UNCHANGED <<storeVars, world, auditFailures, trail, effects, request, used,
                   decision, entry, history>>

\* Admitted and evaluated; a policy with max_cost asks the backend first.
RunEvaluate(c) ==
    /\ c \in RunCalls /\ pc[c] = "new"
    /\ Hold(c, Fresh(c))
    /\ IF Estimated(policy, request[c], Fresh(c))
       THEN Await(c, "estimating") /\ UNCHANGED entry
       ELSE AuditThen(c, Fresh(c).status)
    /\ UNCHANGED <<storeVars, world, auditFailures, trail, effects, request, history>>

\* The estimate is back, Unknown if there is none, for the policy c holds.
Estimate(c, cost) ==
    /\ pc[c] = "estimating"
    /\ IF CostRaises(used[c], cost)
       THEN End(c, "raised") /\ UNCHANGED <<decision, entry>>
       ELSE LET d == EscalateForCost(used[c], decision[c], cost) IN
            decision' = [decision EXCEPT ![c] = d] /\ AuditThen(c, d.status)
    /\ UNCHANGED <<storeVars, world, auditFailures, trail, effects, request, used, history>>

\* Mutant: a held call goes on without waiting for the human.
AfterRecord_NoWait(c) ==
    \/ entry[c] = "denied" /\ End(c, "denied") /\ UNCHANGED storeVars
    \/ entry[c] = "error"  /\ End(c, "error") /\ UNCHANGED storeVars
    \/ entry[c] \in {"allowed", "approved", "approval_required"} /\ Await(c, "executing") /\ UNCHANGED storeVars

\* What a call does when the record it awaited is written: a refusal and an
\* error are answered, a request for approval enters the store, the rest runs.
AfterRecord(c) ==
    \/ entry[c] = "denied" /\ End(c, "denied") /\ UNCHANGED storeVars
    \/ entry[c] = "error"  /\ End(c, "error") /\ UNCHANGED storeVars
    \/ entry[c] = "approval_required" /\ Await(c, "waiting") /\ CreateAndWait(c)
    \/ entry[c] \in {"allowed", "approved"} /\ Await(c, "executing") /\ UNCHANGED storeVars

AuditWritten(c) ==
    /\ pc[c] = "auditing"
    /\ trail' = Append(trail, [call |-> c, status |-> entry[c]])
    /\ AfterRecord(c)
    /\ UNCHANGED <<world, auditFailures, effects, request, used, decision, entry, history>>

\* Mutant: a failed audit write never stops the call.
AfterLoss_GoOn(c) == AfterRecord(c)

\* With FailClosed log() raises and the call dies there, else it goes on.
AfterLoss(c) ==
    IF FailClosed THEN End(c, "raised") /\ UNCHANGED storeVars ELSE AfterRecord(c)

AuditLost(c) ==
    /\ pc[c] = "auditing"
    /\ auditFailures < MaxAuditFailures
    /\ auditFailures' = auditFailures + 1
    /\ AfterLoss(c)
    /\ UNCHANGED <<world, trail, effects, request, used, decision, entry, history>>

\* The waiter of c returns from the store and c records what it was told.
Answered(c) ==
    /\ pc[c] = "waiting"
    /\ WakeDecided(c) \/ WakeTimedOut(c)
    /\ AuditThen(c, result'[c])
    /\ revoked' = IF result'[c] = "approved" /\ Fresh(c).status = "denied"
                  THEN revoked \union {c} ELSE revoked
    /\ UNCHANGED <<world, auditFailures, trail, effects, request, used, decision, confirmed>>

----------------------------------------------------------------------------
(* _run_with_confirm() and execute_approved().                             *)

\* Mutant: the operation is sent while its record is still being written.
ConfirmEvaluate_Early(c) ==
    /\ c \in ConfirmCalls /\ pc[c] = "new"
    /\ Hold(c, Fresh(c))
    /\ \/ Fresh(c).status = "denied"            /\ End(c, "denied") /\ UNCHANGED entry
       \/ Fresh(c).status = "approval_required" /\ Await(c, "eliciting") /\ UNCHANGED entry
       \/ Fresh(c).status = "allowed"           /\ Await(c, "executing") /\ UNCHANGED entry
    /\ UNCHANGED <<storeVars, world, auditFailures, trail, effects, request, history>>

\* A refusal is answered at once; it reaches no audit record.
ConfirmEvaluate(c) ==
    /\ c \in ConfirmCalls /\ pc[c] = "new"
    /\ Hold(c, Fresh(c))
    /\ \/ Fresh(c).status = "denied"            /\ End(c, "denied") /\ UNCHANGED entry
       \/ Fresh(c).status = "approval_required" /\ Await(c, "eliciting") /\ UNCHANGED entry
       \/ Fresh(c).status = "allowed"           /\ AuditThen(c, "allowed")
    /\ UNCHANGED <<storeVars, world, auditFailures, trail, effects, request, history>>

\* The human declines, or the client cannot elicit.
Declined(c) ==
    /\ pc[c] = "eliciting"
    /\ End(c, "declined")
    /\ UNCHANGED <<storeVars, world, auditFailures, trail, effects, request, used,
                   decision, entry, history>>

\* Mutant: execute_approved() acts on the evaluation from before the dialog.
Recheck_Cached(c) == decision[c]

Recheck(c) == Fresh(c)

\* The human accepts: the policy of this moment decides again, and what it says
\* now is recorded and, if permitted, executed under that policy.
Confirmed(c) ==
    /\ pc[c] = "eliciting"
    /\ Hold(c, Recheck(c))
    /\ AuditThen(c, IF Recheck(c).status = "denied" THEN "denied" ELSE "approved")
    /\ confirmed' = confirmed \union {c}
    /\ revoked' = IF Fresh(c).status = "denied" THEN revoked \union {c} ELSE revoked
    /\ UNCHANGED <<storeVars, world, auditFailures, trail, effects, request>>

----------------------------------------------------------------------------
(* Execution, shared by both paths, and the end of a call from outside.    *)

\* Mutant: the error is answered without its record.
ExecutionFails_Unrecorded(c) ==
    /\ pc[c] = "executing"
    /\ effects' \in {effects, effects \union {c}}
    /\ End(c, "error")
    /\ UNCHANGED <<storeVars, world, auditFailures, trail, request, used, decision, entry,
                   history>>

Executed(c) ==
    /\ pc[c] = "executing"
    /\ effects' = effects \union {c}
    /\ End(c, "ok")
    /\ UNCHANGED <<storeVars, world, auditFailures, trail, request, used, decision, entry,
                   history>>

\* An exception of the executor says nothing of whether the operation was done.
ExecutionFails(c) ==
    /\ pc[c] = "executing"
    /\ effects' \in {effects, effects \union {c}}
    /\ AuditThen(c, "error")
    /\ UNCHANGED <<storeVars, world, auditFailures, trail, request, used, decision, history>>

\* The caller is cancelled at an await.  A record already queued is written all
\* the same, and an operation already sent may be done.
Cancelled(c) ==
    /\ pc[c] \notin {"new", "ended"}
    /\ End(c, "cancelled")
    /\ IF pc[c] = "waiting" THEN CallerCancelled(c) ELSE UNCHANGED storeVars
    /\ trail' \in {trail} \union
          (IF pc[c] = "auditing" THEN {Append(trail, [call |-> c, status |-> entry[c]])} ELSE {})
    /\ effects' \in {effects} \union
          (IF pc[c] = "executing" THEN {effects \union {c}} ELSE {})
    /\ UNCHANGED <<world, auditFailures, request, used, decision, entry, history>>

----------------------------------------------------------------------------
(* What happens meanwhile.                                                 *)

\* The watcher loads another version of the policy file.
Reload ==
    /\ reloads < MaxReloads
    /\ policy' \in Files \ {policy}
    /\ reloads' = reloads + 1
    /\ UNCHANGED <<storeVars, now, auditFailures, trail, effects, local, request, history>>

ClockAdvances ==
    /\ now < MaxNow
    /\ now' = now + 1
    /\ UNCHANGED <<storeVars, policy, reloads, auditFailures, trail, effects, local, request,
                   history>>

\* The REST endpoint, the timer, the prune loop and the shutdown hook.
StoreStep ==
    /\ \/ \E c \in RunCalls :
             (\E d \in Decisions : Resolve(c, d)) \/ TimerFires(c)
       \/ Prune
       \/ Shutdown
       \/ Tick
    /\ UNCHANGED <<world, auditFailures, trail, effects, local, request, history>>

RunStep(c) ==
    \/ RunEvaluate(c)
    \/ \E cost \in Unknown .. Critical : Estimate(c, cost)
    \/ AuditWritten(c)
    \/ Answered(c)
    \/ Executed(c)

Next ==
    \/ \E c \in Calls :
          \/ RateLimited(c)
          \/ RunStep(c)
          \/ AuditLost(c)
          \/ ConfirmEvaluate(c)
          \/ Declined(c)
          \/ Confirmed(c)
          \/ ExecutionFails(c)
          \/ Cancelled(c)
    \/ Reload
    \/ ClockAdvances
    \/ StoreStep

\* The loop runs what is ready, and the awaits on the audit flusher, the plugin
\* and the backend return.  No human need ever answer, on either path.
Fairness ==
    /\ WF_vars(StoreStep /\ Tick)
    /\ \A c \in RunCalls :
          /\ WF_vars(\E cost \in Unknown .. Critical : Estimate(c, cost))
          /\ WF_vars(AuditWritten(c))
          /\ WF_vars(StoreStep /\ TimerFires(c))
          /\ WF_vars(Answered(c))
          /\ WF_vars(Executed(c))

Spec     == Init /\ [][Next]_vars
FairSpec == Spec /\ Fairness

----------------------------------------------------------------------------

Permissions == {"allowed", "approved"}

Recorded(c, S) == \E i \in 1 .. Len(trail) : trail[i].call = c /\ trail[i].status \in S

LastStatus(c) ==
    LET own == {i \in 1 .. Len(trail) : trail[i].call = c}
    IN  IF own = {} THEN "none" ELSE trail[CHOOSE i \in own : \A j \in own : j <= i].status

\* An operation held for approval reaches the backend only after a human said
\* yes to that very call: at the endpoint on the run path, in the dialog on the
\* confirm path; not by a timeout, a shutdown, a reload or a cost estimate.
HeldUntilConsent ==
    \A c \in effects :
        decision[c].status = "approval_required" =>
            IF c \in RunCalls THEN acked[c] = "approved" ELSE c \in confirmed

\* A no can be relied on: a call that was answered with a refusal, or whose
\* refusal stands in the trail, did nothing and will do nothing.
RefusalIsFinal ==
    \A c \in Calls :
        outcome[c] \in {"denied", "declined", "rate_limited"} \/ Recorded(c, {"denied"})
            => c \notin effects

\* Whether an operation is done is for the human to say: both of the above.
ConsentDecides == HeldUntilConsent /\ RefusalIsFinal

\* With fail-closed auditing nothing reaches the backend that the trail does
\* not show as allowed or approved, even if the caller has gone away since.
NothingUnrecorded == FailClosed => \A c \in effects : Recorded(c, Permissions)

\* The trail's last word on a call of the run path is the answer the agent got.
TrailTellsOutcome ==
    FailClosed =>
        \A c \in RunCalls :
            /\ outcome[c] = "ok"     => LastStatus(c) \in Permissions
            /\ outcome[c] = "denied" => LastStatus(c) = "denied"
            /\ outcome[c] = "error"  => LastStatus(c) = "error"

\* The human's yes does not revive what the policy has come to forbid during
\* the dialog: the write is not executed (execute_approved's re-check).
RevokedWriteStays == \A c \in revoked : c \in ConfirmCalls => c \notin effects

\* PROJECT_SSOT.md:349 says the same of every approval, the REST one included.
RevokedApprovalStays == \A c \in revoked : c \notin effects

\* PROJECT_SSOT.md:332: every decision is audited, denials included.
DenialsRecorded ==
    FailClosed => \A c \in Calls : outcome[c] = "denied" => Recorded(c, {"denied"})

\* A call of the run path comes to an end even if no human ever decides.
RunCallsEnd == \A c \in RunCalls : pc[c] # "new" ~> pc[c] = "ended"

----------------------------------------------------------------------------

\* With fail-closed auditing the pipeline keeps the promise of Governance.
Promise == INSTANCE Governance WITH
    authorised <- {c \in Calls : entry[c] \in Permissions \/ Recorded(c, Permissions)},
    recorded   <- {c \in Calls : Recorded(c, Permissions)},
    performed  <- effects,
    over       <- {c \in Calls : pc[c] = "ended"}

KeepsPromise == Promise!Spec

=============================================================================
