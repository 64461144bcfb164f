--------------------------- MODULE ApprovalStore ---------------------------
(***************************************************************************)
(* The in-memory approval gate: core/approval/store.py, the REST endpoint  *)
(* that resolves a request (api/approval.py) and the coroutine of the      *)
(* pipeline that sleeps in wait_for_decision until somebody decides.       *)
(*                                                                         *)
(* Everything runs on one asyncio loop, so a step here is one stretch of   *)
(* code between two awaits.  Four parties touch the same record: the       *)
(* waiting coroutine, the human at the REST endpoint, the prune loop and   *)
(* the shutdown hook; the timer of asyncio.wait_for is the fifth.  When it *)
(* fires it only CANCELS the waiter ("expiring"); the waiter's own handler *)
(* runs in a later turn of the loop, and anybody may act in between.       *)
(***************************************************************************)
EXTENDS Integers

CONSTANTS
    RunCalls,     \* calls that may ask; each has an id of its own (uuid4), never reused
    Timeout,      \* ApprovalStore(timeout_seconds), in ticks
    PruneAge      \* prune(max_age_seconds), in ticks

ASSUME StoreAssumption == Timeout \in Nat /\ PruneAge \in Nat

VARIABLES
    status,       \* _store[r].status; "none" before create, "gone" after prune
    event,        \* the asyncio.Event of r, held by the waiter even after prune
    waiter,       \* the coroutine in wait_for_decision(r)
    result,       \* what wait_for_decision(r) returned
    age,          \* now - created_at, saturating at AgeCap
    acked,        \* the decision POST /decide answered 200 to (history)
    down          \* shutdown() has run

storeVars == <<status, event, waiter, result, age, acked, down>>

Decisions == {"approved", "denied"}

\* No age beyond the two thresholds is told apart from another.
AgeCap == (IF Timeout > PruneAge THEN Timeout ELSE PruneAge) + 1

StoreTypeOK ==
    /\ status \in [RunCalls -> {"none", "pending", "gone"} \union Decisions]
    /\ event  \in [RunCalls -> BOOLEAN]
    /\ waiter \in [RunCalls -> {"idle", "waiting", "expiring", "woken", "timedout", "cancelled"}]
    /\ result \in [RunCalls -> {"none"} \union Decisions]
    /\ age    \in [RunCalls -> 0 .. AgeCap]
    /\ acked  \in [RunCalls -> {"none"} \union Decisions]
    /\ down   \in BOOLEAN

StoreInit ==
    /\ status = [r \in RunCalls |-> "none"]
    /\ event  = [r \in RunCalls |-> FALSE]
    /\ waiter = [r \in RunCalls |-> "idle"]
    /\ result = [r \in RunCalls |-> "none"]
    /\ age    = [r \in RunCalls |-> 0]
    /\ acked  = [r \in RunCalls |-> "none"]
    /\ down   = FALSE

----------------------------------------------------------------------------

Known(r)    == status[r] \notin {"none", "gone"}
Resolved(r) == status[r] \in Decisions

\* Mutant: the events of the requests are never set.
SignalNobody(S) == UNCHANGED event

\* event.set() on the requests in S.
Signal(S) == event' = [r \in RunCalls |-> event[r] \/ r \in S]

\* create() and the first stretch of wait_for_decision(): the pipeline awaits
\* nothing between the two, so nobody sees a request without its waiter.
CreateAndWait(r) ==
    /\ status[r] = "none"
    /\ status' = [status EXCEPT ![r] = "pending"]
    /\ waiter' = [waiter EXCEPT ![r] = "waiting"]
    /\ UNCHANGED <<event, result, age, acked, down>>

\* Mutant: resolve() without the test that the request is still pending.
Resolvable_Always(r) == Known(r)

Resolvable(r) == status[r] = "pending"

\* POST /approvals/{id}/decide.  An id that is unknown or already resolved
\* answers 404 and changes nothing.
Resolve(r, d) ==
    /\ Resolvable(r)
    /\ status' = [status EXCEPT ![r] = d]
    /\ acked'  = [acked EXCEPT ![r] = d]
    /\ Signal({r})
    /\ UNCHANGED <<waiter, result, age, down>>

Prunable(r) == Resolved(r) /\ age[r] > PruneAge

\* One round of _prune_loop.  The lifespan cancels the loop and awaits its end
\* before it calls shutdown(), so no round comes after one.
Prune ==
    /\ ~down
    /\ \E r \in RunCalls : Prunable(r)
    /\ status' = [r \in RunCalls |-> IF Prunable(r) THEN "gone" ELSE status[r]]
    /\ UNCHANGED <<event, waiter, result, age, acked, down>>

\* Mutant: shutdown releases the waiters by granting what they asked for.
ShutdownVerdict_Approve == "approved"

ShutdownVerdict == "denied"

\* Mutant: shutdown() denies the resolved requests too.
ShutdownIds_All == {r \in RunCalls : Known(r)}

ShutdownIds == {r \in RunCalls : status[r] = "pending"}

\* app_lifespan's finally: every pending request is denied and its waiter woken.
Shutdown ==
    /\ ~down
    /\ down' = TRUE
    /\ status' = [r \in RunCalls |-> IF r \in ShutdownIds THEN ShutdownVerdict ELSE status[r]]
    /\ Signal(ShutdownIds)
    /\ UNCHANGED <<waiter, result, age, acked>>

\* Mutant: wait_for() is given no timeout.
TimerFires_Unset(r) == waiter[r] = "waiting" /\ age[r] > AgeCap /\ UNCHANGED storeVars

\* The timer of wait_for cancels the waiter.  The event may already be set: the
\* timer can stand in the ready queue behind the handler that set it.
TimerFires(r) ==
    /\ waiter[r] = "waiting"
    /\ age[r] >= Timeout
    /\ waiter' = [waiter EXCEPT ![r] = "expiring"]
    /\ UNCHANGED <<status, event, result, age, acked, down>>

\* Mutant: the timed-out waiter leaves the request pending.
AfterTimeout_Keep(s) == s

\* Mutant: the timed-out waiter denies over whatever a human decided.
AfterTimeout_Overwrite(s) == IF s = "gone" THEN s ELSE "denied"

\* The status a timed-out waiter leaves behind.
AfterTimeout(s) == IF s = "pending" THEN "denied" ELSE s

\* except TimeoutError: deny if still pending, and answer "denied" either way.
WakeTimedOut(r) ==
    /\ waiter[r] = "expiring"
    /\ waiter' = [waiter EXCEPT ![r] = "timedout"]
    /\ result' = [result EXCEPT ![r] = "denied"]
    /\ status' = [status EXCEPT ![r] = AfterTimeout(@)]
    /\ UNCHANGED <<event, age, acked, down>>

\* What a woken waiter returns for the status it finds.
Verdict(s) == IF s = "gone" THEN "denied" ELSE s

\* The event was set: answer the stored status, "denied" if the record is gone.
WakeDecided(r) ==
    /\ waiter[r] = "waiting"
    /\ event[r]
    /\ waiter' = [waiter EXCEPT ![r] = "woken"]
    /\ result' = [result EXCEPT ![r] = Verdict(status[r])]
    /\ UNCHANGED <<status, event, age, acked, down>>

\* The transport cancels the agent's call.  wait_for_decision catches only
\* TimeoutError, so the coroutine unwinds and leaves the record as it stands.
CallerCancelled(r) ==
    /\ waiter[r] \in {"waiting", "expiring"}
    /\ waiter' = [waiter EXCEPT ![r] = "cancelled"]
    /\ UNCHANGED <<status, event, result, age, acked, down>>

Tick ==
    /\ age' = [r \in RunCalls |->
                  IF Known(r) /\ age[r] < AgeCap THEN age[r] + 1 ELSE age[r]]
    /\ age' # age
    /\ UNCHANGED <<status, event, waiter, result, acked, down>>

StoreNext ==
    \/ \E r \in RunCalls :
          \/ CreateAndWait(r)
          \/ \E d \in Decisions : Resolve(r, d)
          \/ TimerFires(r)
          \/ WakeTimedOut(r)
          \/ WakeDecided(r)
          \/ CallerCancelled(r)
    \/ Prune
    \/ Shutdown
    \/ Tick

\* The loop runs what is ready, time passes and, until the process stops, the
\* prune loop comes round.  Nothing obliges an agent to ask, a human to answer, or the process to stop.
StoreFairness ==
    /\ WF_storeVars(Tick)
    /\ WF_storeVars(Prune)
    /\ \A r \in RunCalls :
          WF_storeVars(TimerFires(r)) /\ WF_storeVars(WakeTimedOut(r)) /\ WF_storeVars(WakeDecided(r))

StoreSpec == StoreInit /\ [][StoreNext]_storeVars
StoreFairSpec == StoreSpec /\ StoreFairness

----------------------------------------------------------------------------

\* A call is told "approved" only if a human approved that very request: not a
\* timeout, not a shutdown, not a pruned record.
ApprovedByHuman ==
    \A r \in RunCalls : result[r] = "approved" => acked[r] = "approved"

\* What the endpoint acknowledged is what the store holds for as long as it
\* holds the record, whichever of timer, shutdown and human came first.
AckedStands ==
    \A r \in RunCalls : acked[r] # "none" /\ Known(r) => status[r] = acked[r]

\* No lost wake-up: a waiter still asleep on a request that is no longer pending
\* has its event set, so resolve(), shutdown() and prune() strand nobody.
NoLostWakeup ==
    \A r \in RunCalls : waiter[r] = "waiting" /\ status[r] # "pending" => event[r]

\* An acknowledged approval reaches the waiting call as a refusal only when its
\* timer fired first or the record was pruned before the waiter ran.
ApprovalLostOnlyToTimer ==
    \A r \in RunCalls :
        waiter[r] = "woken" /\ acked[r] = "approved" /\ result[r] = "denied"
            => status[r] = "gone"

\* Once the call has been answered, no decision on its request is accepted any
\* more; only a cancelled call leaves a request that can still be decided.
NoDecisionAfterAnswer ==
    [][\A r \in RunCalls :
          waiter[r] \in {"woken", "timedout"} => acked'[r] = acked[r]]_storeVars

\* A record stays "pending" for ever only if its caller was cancelled and neither
\* a human nor the shutdown decided it; a resolved record is pruned in the end,
\* unless the process stops first.
RecordsEnd ==
    \A r \in RunCalls :
        /\ status[r] = "pending" ~> status[r] # "pending" \/ waiter[r] = "cancelled"
        /\ Resolved(r) ~> status[r] = "gone" \/ down

\* What the comment above _prune_loop promises, that the store cannot grow without
\* bound: every record is dropped in the end.  Prune passes over pending records,
\* so the record of a cancelled call stays, and this fails.
EveryRecordIsDropped ==
    \A r \in RunCalls : Known(r) ~> status[r] = "gone" \/ down

=============================================================================
