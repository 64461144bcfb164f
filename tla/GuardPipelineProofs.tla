------------------------- MODULE GuardPipelineProofs -------------------------
(***************************************************************************)
(* What the pipeline guarantees for any calls on either path, any requests,*)
(* policies, reloads, expiries, cancellations and failures of the audit:   *)
(*                                                                         *)
(*   RecordInv      a call stands at "executing" only with its permission  *)
(*                  in the trail, if auditing is fail-closed;              *)
(*   ConsentInv     the record a call is writing tells whether it may run, *)
(*                  and one that says so has a human's yes if it was held; *)
(*   RevokedInv     a write that lost its permission is being refused;     *)
(*   TellsInv       the trail's last record of a read agrees with where    *)
(*                  the read stands;                                       *)
(*   PermissionInv  no permission is forgotten before it is recorded.      *)
(*                                                                         *)
(* Each is inductive given the ones above it.  From the first and the last *)
(* the pipeline implements Governance.  At the end, StoreHolds gives the   *)
(* properties of the approval store, which the pipeline's steps respect.   *)
(***************************************************************************)
EXTENDS GuardPipeline, TLAPS

\* The trail is a sequence, whatever its records say.
TrailIsSeq == \E R : trail \in Seq(R)

Phases == {"new", "estimating", "auditing", "waiting", "eliciting", "executing", "ended"}

ExecutesRecorded ==
    \A c \in Calls : pc[c] = "executing" => Recorded(c, Permissions)

RecordInv ==
    /\ TrailIsSeq
    /\ pc \in [Calls -> Phases]
    /\ FailClosed => ExecutesRecorded
    /\ NothingUnrecorded

----------------------------------------------------------------------------

\* A record more takes none away.
LEMMA TrailGrows ==
  ASSUME TrailIsSeq, NEW r, trail' = Append(trail, r)
  PROVE  /\ TrailIsSeq'
         /\ \A c, S : Recorded(c, S) => Recorded(c, S)'
         /\ \A S : r.status \in S => Recorded(r.call, S)'
  <1>1. PICK R : trail \in Seq(R)
    BY DEF TrailIsSeq
  <1>2. trail \in Seq(R \union {r})
    BY <1>1
  <1>3. trail' \in Seq(R \union {r}) /\ Len(trail') = Len(trail) + 1 /\ Len(trail) \in Nat
        /\ trail'[Len(trail) + 1] = r
        /\ \A i \in 1 .. Len(trail) : trail'[i] = trail[i]
    BY <1>2
  <1>4. TrailIsSeq'
    BY <1>3 DEF TrailIsSeq
  <1>5. \A c, S : Recorded(c, S) => Recorded(c, S)'
    BY <1>3 DEF Recorded
  <1>6. \A S : r.status \in S => Recorded(r.call, S)'
    BY <1>3 DEF Recorded
  <1> QED BY <1>4, <1>5, <1>6

LEMMA TrailStays ==
  ASSUME trail' = trail
  PROVE  /\ TrailIsSeq => TrailIsSeq'
         /\ \A c, S : Recorded(c, S) => Recorded(c, S)'
  BY DEF TrailIsSeq, Recorded

\* One call moves to another await, with its permission in the trail if that is
\* the backend, and what is in effect was at the backend before.
LEMMA MoveKeeps ==
  ASSUME RecordInv, NEW c \in Calls, NEW w \in Phases,
         pc' = [pc EXCEPT ![c] = w],
         TrailIsSeq', \A d, S : Recorded(d, S) => Recorded(d, S)',
         FailClosed /\ w = "executing" => Recorded(c, Permissions)',
         effects' = effects \/ (effects' = effects \union {c} /\ pc[c] = "executing")
  PROVE  RecordInv'
  <1>1. pc' \in [Calls -> Phases]
    BY DEF RecordInv
  <1>2. FailClosed => ExecutesRecorded'
    BY DEF RecordInv, ExecutesRecorded
  <1>3. NothingUnrecorded'
    BY DEF RecordInv, ExecutesRecorded, NothingUnrecorded
  <1> QED BY <1>1, <1>2, <1>3 DEF RecordInv

\* What leaves the calls, the trail and the backend alone.
LEMMA OthersKeep ==
  ASSUME RecordInv, UNCHANGED <<pc, trail, effects>>
  PROVE  RecordInv'
  BY TrailStays DEF RecordInv, ExecutesRecorded, NothingUnrecorded

LEMMA InitRecord == Init => RecordInv
  <1> SUFFICES ASSUME Init PROVE RecordInv
    OBVIOUS
  <1>1. TrailIsSeq
    <2>1. trail \in Seq({})
      BY DEF Init
    <2> QED BY <2>1 DEF TrailIsSeq
  <1>2. pc \in [Calls -> Phases] /\ \A c \in Calls : pc[c] # "executing"
    BY DEF Init, Phases
  <1> QED BY <1>1, <1>2 DEF Init, RecordInv, ExecutesRecorded, NothingUnrecorded

----------------------------------------------------------------------------

\* Moves that write no record and stop short of the backend.
LEMMA QuietMove ==
  ASSUME RecordInv, NEW c \in Calls, NEW w \in Phases \ {"executing"},
         pc' = [pc EXCEPT ![c] = w], UNCHANGED trail,
         effects' = effects \/ (effects' = effects \union {c} /\ pc[c] = "executing")
  PROVE  RecordInv'
  BY MoveKeeps, TrailStays DEF RecordInv

LEMMA EvaluationKeeps ==
  ASSUME RecordInv, NEW c \in Calls,
         \/ RateLimited(c) \/ RunEvaluate(c) \/ (\E cost \in Unknown .. Critical : Estimate(c, cost))
         \/ ConfirmEvaluate(c) \/ Declined(c) \/ Confirmed(c) \/ Answered(c)
  PROVE  RecordInv'
  <1>1. UNCHANGED <<trail, effects>>
    BY DEF RateLimited, RunEvaluate, Estimate, ConfirmEvaluate, Declined, Confirmed, Answered
  <1>2. \E w \in {"ended", "estimating", "auditing", "eliciting"} : pc' = [pc EXCEPT ![c] = w]
    <2>1. CASE RateLimited(c) \/ Declined(c)
      BY <2>1 DEF RateLimited, Declined, End
    <2>2. CASE RunEvaluate(c)
      BY <2>2 DEF RunEvaluate, AuditThen, Await
    <2>3. CASE \E cost \in Unknown .. Critical : Estimate(c, cost)
      BY <2>3 DEF Estimate, AuditThen, Await, End
    <2>4. CASE ConfirmEvaluate(c)
      BY <2>4 DEF ConfirmEvaluate, AuditThen, Await, End
    <2>5. CASE Confirmed(c) \/ Answered(c)
      BY <2>5 DEF Confirmed, Answered, AuditThen, Await
    <2> QED BY <2>1, <2>2, <2>3, <2>4, <2>5
  <1> QED BY <1>1, <1>2, QuietMove DEF Phases

\* The record is written, and what follows depends on what it says.
LEMMA WrittenKeeps ==
  ASSUME RecordInv, NEW c \in Calls, AuditWritten(c)
  PROVE  RecordInv'
  <1> DEFINE r == [call |-> c, status |-> entry[c]]
  <1>1. trail' = Append(trail, r) /\ UNCHANGED effects
    BY DEF AuditWritten
  <1>2. r.call = c /\ r.status = entry[c]
    OBVIOUS
  <1> HIDE DEF r
  <1>3. /\ TrailIsSeq'
        /\ \A d, S : Recorded(d, S) => Recorded(d, S)'
        /\ \A S : entry[c] \in S => Recorded(c, S)'
    BY <1>1, <1>2, TrailGrows DEF RecordInv
  <1>4. CASE entry[c] \in {"allowed", "approved"} /\ pc' = [pc EXCEPT ![c] = "executing"]
    <2>1. Recorded(c, Permissions)'
      BY <1>3, <1>4 DEF Permissions
    <2> QED BY <1>1, <1>3, <1>4, <2>1, MoveKeeps DEF Phases
  <1>5. CASE \E w \in {"ended", "waiting"} : pc' = [pc EXCEPT ![c] = w]
    BY <1>1, <1>3, <1>5, MoveKeeps DEF Phases
  <1> QED BY <1>4, <1>5 DEF AuditWritten, AfterRecord, Await, End

\* The record is lost: fail-closed ends the call there.
LEMMA LostKeeps ==
  ASSUME RecordInv, NEW c \in Calls, AuditLost(c)
  PROVE  RecordInv'
  <1>1. UNCHANGED <<trail, effects>>
    BY DEF AuditLost
  <1>2. \E w \in Phases : pc' = [pc EXCEPT ![c] = w] /\ (FailClosed => w = "ended")
    BY DEF AuditLost, AfterLoss, AfterRecord, Await, End, Phases
  <1> QED BY <1>1, <1>2, MoveKeeps, TrailStays DEF RecordInv

\* Only these three reach the backend, all of them from "executing".
LEMMA ExecutionKeeps ==
  ASSUME RecordInv, NEW c \in Calls, Executed(c) \/ ExecutionFails(c)
  PROVE  RecordInv'
  <1>1. /\ UNCHANGED trail
        /\ \E w \in {"ended", "auditing"} : pc' = [pc EXCEPT ![c] = w]
        /\ effects' = effects \/ (effects' = effects \union {c} /\ pc[c] = "executing")
    BY DEF Executed, ExecutionFails, AuditThen, Await, End
  <1> QED BY <1>1, QuietMove DEF Phases

LEMMA CancelKeeps ==
  ASSUME RecordInv, NEW c \in Calls, Cancelled(c)
  PROVE  RecordInv'
  <1> DEFINE r == [call |-> c, status |-> entry[c]]
  <1>1. pc' = [pc EXCEPT ![c] = "ended"]
    BY DEF Cancelled, End
  <1>2. effects' = effects \/ (effects' = effects \union {c} /\ pc[c] = "executing")
    BY DEF Cancelled
  <1>3. trail' = trail \/ trail' = Append(trail, r)
    BY DEF Cancelled
  <1> HIDE DEF r
  <1>4. TrailIsSeq' /\ \A d, S : Recorded(d, S) => Recorded(d, S)'
    BY <1>3, TrailStays, TrailGrows DEF RecordInv
  <1> QED BY <1>1, <1>2, <1>4, MoveKeeps DEF Phases

----------------------------------------------------------------------------

THEOREM RecordInductive == Spec => []RecordInv
  <1>1. RecordInv /\ [Next]_vars => RecordInv'
    <2> SUFFICES ASSUME RecordInv, [Next]_vars PROVE RecordInv'
      OBVIOUS
    <2>1. ASSUME NEW c \in Calls,
                 \/ RateLimited(c) \/ RunEvaluate(c)
                 \/ (\E cost \in Unknown .. Critical : Estimate(c, cost))
                 \/ ConfirmEvaluate(c) \/ Declined(c) \/ Confirmed(c) \/ Answered(c)
          PROVE  RecordInv'
      BY <2>1, EvaluationKeeps
    <2>2. ASSUME NEW c \in Calls, AuditWritten(c) PROVE RecordInv'
      BY <2>2, WrittenKeeps
    <2>3. ASSUME NEW c \in Calls, AuditLost(c) PROVE RecordInv'
      BY <2>3, LostKeeps
    <2>4. ASSUME NEW c \in Calls, Executed(c) \/ ExecutionFails(c) PROVE RecordInv'
      BY <2>4, ExecutionKeeps
    <2>5. ASSUME NEW c \in Calls, Cancelled(c) PROVE RecordInv'
      BY <2>5, CancelKeeps
    <2>6. CASE Reload \/ ClockAdvances \/ StoreStep
      BY <2>6, OthersKeep DEF Reload, ClockAdvances, StoreStep, local
    <2>7. CASE UNCHANGED vars
      BY <2>7, OthersKeep DEF vars, local
    <2> QED BY <2>1, <2>2, <2>3, <2>4, <2>5, <2>6, <2>7 DEF Next, RunStep
  <1> QED BY InitRecord, <1>1, PTL DEF Spec

\* Whatever fails, is reloaded, expires or is cancelled: an operation that
\* reached the backend stands in the trail as allowed or approved.
THEOREM RecordedFirst == Spec => []NothingUnrecorded
  <1>1. RecordInv => NothingUnrecorded
    BY DEF RecordInv
  <1> QED BY RecordInductive, <1>1, PTL

----------------------------------------------------------------------------
(* Consent.                                                                *)

\* A human said yes to this very call.
Consented(c) == IF c \in RunCalls THEN acked[c] = "approved" ELSE c \in confirmed

\* What it would take to execute c is there.
MayExecute(c) == decision[c].status = "approval_required" => Consented(c)

\* The approval store: a decision comes from the endpoint, and once.
StoreInv ==
    /\ status \in [RunCalls -> {"none", "pending", "gone", "approved", "denied"}]
    /\ DOMAIN acked = RunCalls /\ DOMAIN result = RunCalls
    /\ \A r \in RunCalls :
          /\ status[r] \in {"none", "pending"} => acked[r] = "none"
          /\ status[r] = "approved" => acked[r] = "approved"

LocalMaps == DOMAIN entry = Calls /\ DOMAIN outcome = Calls /\ DOMAIN decision = Calls

Refusals == {"denied", "declined", "rate_limited"}

CallInv(c) ==
    /\ c \in effects => MayExecute(c)
    /\ pc[c] = "executing" \/ (pc[c] = "auditing" /\ entry[c] \in Permissions) => MayExecute(c)
    /\ c \in effects => pc[c] \in {"executing", "ended"} \/ (pc[c] = "auditing" /\ entry[c] = "error")
    /\ outcome[c] \in Refusals \/ Recorded(c, {"denied"}) => pc[c] = "ended" /\ c \notin effects
    /\ pc[c] = "eliciting" => c \notin RunCalls
    /\ pc[c] \in {"estimating", "waiting"} \/ (pc[c] = "auditing" /\ entry[c] = "approval_required")
          => c \in RunCalls

ConsentInv == StoreInv /\ LocalMaps /\ effects \subseteq Calls /\ \A c \in Calls : CallInv(c)

\* What is said of a call stays true while others move.
LEMMA BystanderKeeps ==
  ASSUME NEW d \in Calls, CallInv(d),
         pc'[d] = pc[d], entry'[d] = entry[d], outcome'[d] = outcome[d], decision'[d] = decision[d],
         d \in effects' => d \in effects,
         Recorded(d, {"denied"})' => Recorded(d, {"denied"}),
         Consented(d) => Consented(d)'
  PROVE  CallInv(d)'
  BY DEF CallInv, MayExecute

\* An acknowledged yes is never taken back.
LEMMA StoreKeeps ==
  ASSUME StoreInv, [StoreNext]_storeVars
  PROVE  StoreInv' /\ \A r \in RunCalls : acked[r] = "approved" => acked'[r] = "approved"
  <1> DEFINE Goal == StoreInv' /\ \A r \in RunCalls : acked[r] = "approved" => acked'[r] = "approved"
  <1>1. ASSUME NEW r \in RunCalls, CreateAndWait(r) PROVE Goal
    BY <1>1 DEF CreateAndWait, StoreInv
  <1>2. ASSUME NEW r \in RunCalls, NEW d \in {"approved", "denied"}, Resolve(r, d) PROVE Goal
    BY <1>2 DEF Resolve, Resolvable, StoreInv
  <1>3. ASSUME NEW r \in RunCalls, WakeTimedOut(r) PROVE Goal
    BY <1>3 DEF WakeTimedOut, AfterTimeout, StoreInv
  <1>4. ASSUME NEW r \in RunCalls,
               WakeDecided(r) \/ TimerFires(r) \/ CallerCancelled(r)
        PROVE  Goal
    BY <1>4 DEF WakeDecided, TimerFires, CallerCancelled, StoreInv
  <1>5. CASE Prune
    BY <1>5 DEF Prune, Prunable, Resolved, StoreInv
  <1>6. CASE Shutdown
    BY <1>6 DEF Shutdown, ShutdownIds, ShutdownVerdict, StoreInv
  <1>7. CASE Tick \/ UNCHANGED storeVars
    BY <1>7 DEF Tick, storeVars, StoreInv
  <1> QED BY <1>1, <1>2, <1>3, <1>4, <1>5, <1>6, <1>7 DEF StoreNext, Decisions

\* What the trail says of one call, when a record of another is appended, or its own.
LEMMA AppendTells ==
  ASSUME TrailIsSeq, NEW c, NEW s, NEW S, trail' = Append(trail, [call |-> c, status |-> s])
  PROVE  /\ \A d : d # c => (Recorded(d, S)' => Recorded(d, S))
         /\ Recorded(c, S)' => Recorded(c, S) \/ s \in S
  <1> DEFINE r == [call |-> c, status |-> s]
  <1>1. PICK R : trail \in Seq(R)
    BY DEF TrailIsSeq
  <1>2. r.call = c /\ r.status = s
    OBVIOUS
  <1> HIDE DEF r
  <1>3. trail \in Seq(R \union {r})
    BY <1>1
  <1>4. /\ Len(trail') = Len(trail) + 1 /\ Len(trail) \in Nat /\ trail'[Len(trail) + 1] = r
        /\ \A i \in 1 .. Len(trail) : trail'[i] = trail[i]
    BY <1>3 DEF r
  <1> QED BY <1>2, <1>4 DEF Recorded

\* A step of c: its locals, one record of its own, its own effect, and the store.
Moves(c) ==
    /\ LocalMaps'
    /\ \A b \in Calls \ {c} :
          pc'[b] = pc[b] /\ entry'[b] = entry[b] /\ outcome'[b] = outcome[b] /\ decision'[b] = decision[b]
    /\ effects' \subseteq effects \union {c}
    /\ confirmed \subseteq confirmed'
    /\ [StoreNext]_storeVars
    /\ trail' = trail \/ trail' = Append(trail, [call |-> c, status |-> entry[c]])

LEMMA ConsentStands ==
  ASSUME StoreInv, [StoreNext]_storeVars, confirmed \subseteq confirmed'
  PROVE  StoreInv' /\ \A b : Consented(b) => Consented(b)'
  BY StoreKeeps DEF Consented

\* The others stand, and it remains to look at the one that moves.
LEMMA CallMoves ==
  ASSUME RecordInv, ConsentInv, NEW c \in Calls, Moves(c), CallInv(c)'
  PROVE  ConsentInv'
  <1>1. StoreInv' /\ \A b : Consented(b) => Consented(b)'
    BY ConsentStands DEF ConsentInv, Moves
  <1>2. \A b \in Calls : b # c => (Recorded(b, {"denied"})' => Recorded(b, {"denied"}))
    BY AppendTells DEF RecordInv, Recorded, Moves
  <1>3. ASSUME NEW b \in Calls, b # c PROVE CallInv(b)'
    BY <1>1, <1>2, <1>3, BystanderKeeps DEF ConsentInv, Moves
  <1> QED BY <1>1, <1>3 DEF ConsentInv, Moves

LEMMA InitConsent == Init => ConsentInv
  <1> SUFFICES ASSUME Init PROVE ConsentInv
    OBVIOUS
  <1>1. StoreInv /\ LocalMaps
    BY DEF Init, StoreInit, StoreInv, LocalMaps
  <1>2. \A c \in Calls : CallInv(c)
    BY DEF Init, CallInv, Recorded, Refusals
  <1> QED BY <1>1, <1>2 DEF Init, ConsentInv

\* What one call can do in a step.
CallStep(c) ==
    \/ RateLimited(c) \/ RunEvaluate(c) \/ (\E cost \in Unknown .. Critical : Estimate(c, cost))
    \/ ConfirmEvaluate(c) \/ Declined(c) \/ Confirmed(c) \/ Answered(c)
    \/ AuditWritten(c) \/ AuditLost(c) \/ Executed(c) \/ ExecutionFails(c) \/ Cancelled(c)

LEMMA StepMoves ==
  ASSUME RecordInv, ConsentInv, NEW c \in Calls, CallStep(c)
  PROVE  Moves(c)
  <1>1. CASE RateLimited(c) \/ RunEvaluate(c) \/ ConfirmEvaluate(c) \/ Declined(c)
    <2>1. UNCHANGED <<storeVars, effects, trail, confirmed>>
      BY <1>1 DEF RateLimited, RunEvaluate, ConfirmEvaluate, Declined, history
    <2>2. /\ LocalMaps'
          /\ \A b \in Calls \ {c} : pc'[b] = pc[b] /\ entry'[b] = entry[b] /\ outcome'[b] = outcome[b]
                                    /\ decision'[b] = decision[b]
      BY <1>1 DEF RateLimited, RunEvaluate, ConfirmEvaluate, Declined, End, Await, AuditThen, Hold,
                  ConsentInv, LocalMaps, RecordInv
    <2> QED BY <2>1, <2>2 DEF Moves
  <1>2. CASE \E cost \in Unknown .. Critical : Estimate(c, cost)
    <2>1. UNCHANGED <<storeVars, effects, trail, confirmed>>
      BY <1>2 DEF Estimate, history
    <2>2. /\ LocalMaps'
          /\ \A b \in Calls \ {c} : pc'[b] = pc[b] /\ entry'[b] = entry[b] /\ outcome'[b] = outcome[b]
                                    /\ decision'[b] = decision[b]
      BY <1>2 DEF Estimate, End, Await, AuditThen, ConsentInv, LocalMaps, RecordInv
    <2> QED BY <2>1, <2>2 DEF Moves
  <1>3. CASE Answered(c) \/ Confirmed(c)
    <2>1. UNCHANGED <<effects, trail>> /\ confirmed \subseteq confirmed'
      BY <1>3 DEF Answered, Confirmed
    <2>2. [StoreNext]_storeVars
      BY <1>3 DEF Answered, Confirmed, ConsentInv, CallInv, StoreNext
    <2>3. /\ LocalMaps'
          /\ \A b \in Calls \ {c} : pc'[b] = pc[b] /\ entry'[b] = entry[b] /\ outcome'[b] = outcome[b]
                                    /\ decision'[b] = decision[b]
      BY <1>3 DEF Answered, Confirmed, Await, AuditThen, Hold, ConsentInv, LocalMaps, RecordInv
    <2> QED BY <2>1, <2>2, <2>3 DEF Moves
  <1>4. CASE AuditWritten(c) \/ AuditLost(c)
    <2>1. UNCHANGED <<effects, confirmed, entry, decision>>
          /\ (trail' = trail \/ trail' = Append(trail, [call |-> c, status |-> entry[c]]))
      BY <1>4 DEF AuditWritten, AuditLost, history
    <2>2. pc[c] = "auditing" /\ (UNCHANGED storeVars \/ AfterRecord(c))
      BY <1>4 DEF AuditWritten, AuditLost, AfterLoss
    <2>3. [StoreNext]_storeVars
      BY <2>2 DEF AfterRecord, ConsentInv, CallInv, StoreNext
    <2>4. /\ LocalMaps'
          /\ \A b \in Calls \ {c} : pc'[b] = pc[b] /\ entry'[b] = entry[b] /\ outcome'[b] = outcome[b]
                                    /\ decision'[b] = decision[b]
      BY <1>4, <2>1 DEF AuditWritten, AuditLost, AfterLoss, AfterRecord, End, Await, ConsentInv, LocalMaps,
                        RecordInv
    <2> QED BY <2>1, <2>3, <2>4 DEF Moves
  <1>5. CASE Executed(c) \/ ExecutionFails(c)
    <2>1. UNCHANGED <<storeVars, trail, confirmed>> /\ effects' \subseteq effects \union {c}
      BY <1>5 DEF Executed, ExecutionFails, history
    <2>2. /\ LocalMaps'
          /\ \A b \in Calls \ {c} : pc'[b] = pc[b] /\ entry'[b] = entry[b] /\ outcome'[b] = outcome[b]
                                    /\ decision'[b] = decision[b]
      BY <1>5 DEF Executed, ExecutionFails, End, Await, AuditThen, ConsentInv, LocalMaps, RecordInv
    <2> QED BY <2>1, <2>2 DEF Moves
  <1>6. CASE Cancelled(c)
    <2>1. /\ UNCHANGED <<confirmed, entry, decision>> /\ effects' \subseteq effects \union {c}
          /\ (trail' = trail \/ trail' = Append(trail, [call |-> c, status |-> entry[c]]))
      BY <1>6 DEF Cancelled, history
    <2>2. [StoreNext]_storeVars
      BY <1>6 DEF Cancelled, ConsentInv, CallInv, StoreNext
    <2>3. /\ LocalMaps'
          /\ \A b \in Calls \ {c} : pc'[b] = pc[b] /\ entry'[b] = entry[b] /\ outcome'[b] = outcome[b]
                                    /\ decision'[b] = decision[b]
      BY <1>6, <2>1 DEF Cancelled, End, ConsentInv, LocalMaps, RecordInv
    <2> QED BY <2>1, <2>2, <2>3 DEF Moves
  <1> QED BY <1>1, <1>2, <1>3, <1>4, <1>5, <1>6 DEF CallStep

\* Evaluations, refusals and questions: nothing is at the backend yet.
LEMMA EvaluatesConsent ==
  ASSUME RecordInv, ConsentInv, NEW c \in Calls,
         RateLimited(c) \/ RunEvaluate(c) \/ ConfirmEvaluate(c) \/ Declined(c)
  PROVE  ConsentInv'
  <1>1. Moves(c)
    BY StepMoves DEF CallStep
  <1>2. pc[c] \in {"new", "eliciting"} /\ CallInv(c)
    BY DEF RateLimited, RunEvaluate, ConfirmEvaluate, Declined, ConsentInv
  <1>3. c \notin effects' /\ ~Recorded(c, {"denied"})'
    BY <1>2 DEF CallInv, RateLimited, RunEvaluate, ConfirmEvaluate, Declined, Recorded
  <1>4. CASE RateLimited(c) \/ Declined(c)
    <2>1. pc'[c] = "ended"
      BY <1>4 DEF RateLimited, Declined, End, RecordInv
    <2> QED BY <1>1, <1>3, <2>1, CallMoves DEF CallInv
  <1>5. CASE RunEvaluate(c)
    <2>1. c \in RunCalls /\ pc'[c] \in {"estimating", "auditing"} /\ outcome'[c] = outcome[c]
          /\ (pc'[c] = "auditing" => entry'[c] = decision'[c].status)
      BY <1>5 DEF RunEvaluate, Hold, Await, AuditThen, RecordInv, ConsentInv, LocalMaps
    <2>2. outcome[c] \notin Refusals
      BY <1>2 DEF CallInv
    <2> QED BY <1>1, <1>3, <2>1, <2>2, CallMoves DEF CallInv, MayExecute, Permissions
  <1>6. CASE ConfirmEvaluate(c)
    <2>1. c \notin RunCalls
      BY <1>6, OnePath DEF ConfirmEvaluate
    <2>2. \/ pc'[c] = "ended"
          \/ pc'[c] = "eliciting" /\ outcome'[c] = outcome[c]
          \/ /\ pc'[c] = "auditing" /\ outcome'[c] = outcome[c]
             /\ entry'[c] = "allowed" /\ decision'[c].status = "allowed"
      BY <1>6 DEF ConfirmEvaluate, Hold, Await, AuditThen, End, RecordInv, ConsentInv, LocalMaps
    <2>3. outcome[c] \notin Refusals
      BY <1>2 DEF CallInv
    <2> QED BY <1>1, <1>3, <2>1, <2>2, <2>3, CallMoves DEF CallInv, MayExecute, Permissions
  <1> QED BY <1>4, <1>5, <1>6

LEMMA EstimateConsent ==
  ASSUME RecordInv, ConsentInv, NEW c \in Calls, NEW cost \in Unknown .. Critical, Estimate(c, cost)
  PROVE  ConsentInv'
  <1>1. Moves(c)
    BY StepMoves DEF CallStep
  <1>2. pc[c] = "estimating" /\ c \in RunCalls /\ CallInv(c)
    BY DEF Estimate, ConsentInv, CallInv
  <1>3. c \notin effects' /\ ~Recorded(c, {"denied"})' /\ outcome[c] \notin Refusals
    BY <1>2 DEF CallInv, Estimate, Recorded
  <1>4. \/ pc'[c] = "ended"
        \/ pc'[c] = "auditing" /\ outcome'[c] = outcome[c] /\ entry'[c] = decision'[c].status
    BY DEF Estimate, End, Await, AuditThen, RecordInv, ConsentInv, LocalMaps
  <1> QED BY <1>1, <1>2, <1>3, <1>4, CallMoves DEF CallInv, MayExecute, Permissions

\* The human's answer, at the endpoint or in the dialog.
LEMMA AnswerConsent ==
  ASSUME RecordInv, ConsentInv, NEW c \in Calls, Answered(c) \/ Confirmed(c)
  PROVE  ConsentInv'
  <1>1. pc[c] \in {"waiting", "eliciting"} /\ CallInv(c)
    BY DEF Answered, Confirmed, ConsentInv
  <1>2. UNCHANGED <<effects, trail>> /\ confirmed \subseteq confirmed'
    BY DEF Answered, Confirmed
  <1>3. Moves(c)
    BY StepMoves DEF CallStep
  <1>4. c \notin effects' /\ ~Recorded(c, {"denied"})' /\ outcome[c] \notin Refusals
    BY <1>1, <1>2 DEF CallInv, Recorded
  <1>5. pc'[c] = "auditing" /\ outcome'[c] = outcome[c]
    BY DEF Answered, Confirmed, Await, AuditThen, RecordInv
  <1>6. CASE Answered(c)
    <2>1. c \in RunCalls /\ entry'[c] = result'[c]
      BY <1>1, <1>6 DEF Answered, AuditThen, CallInv, ConsentInv, LocalMaps
    <2>2. result'[c] \in {"none", "pending", "denied"} \/ (result'[c] = "approved" /\ acked'[c] = "approved")
      BY <1>6, <2>1 DEF Answered, WakeDecided, WakeTimedOut, Verdict, ConsentInv, StoreInv
    <2>3. entry'[c] \in Permissions => MayExecute(c)'
      BY <2>1, <2>2 DEF MayExecute, Consented, Permissions
    <2> QED BY <1>3, <1>4, <1>5, <2>1, <2>3, CallMoves DEF CallInv
  <1>7. CASE Confirmed(c)
    <2>1. c \notin RunCalls /\ c \in confirmed' /\ entry'[c] \in {"denied", "approved"}
      BY <1>1, <1>7 DEF Confirmed, AuditThen, CallInv, ConsentInv, LocalMaps
    <2>2. MayExecute(c)'
      BY <2>1 DEF MayExecute, Consented
    <2> QED BY <1>3, <1>4, <1>5, <2>1, <2>2, CallMoves DEF CallInv
  <1> QED BY <1>6, <1>7

\* The record is written or lost: what it says decides what is next.
LEMMA RecordConsent ==
  ASSUME RecordInv, ConsentInv, NEW c \in Calls, AuditWritten(c) \/ AuditLost(c)
  PROVE  ConsentInv'
  <1>1. pc[c] = "auditing" /\ CallInv(c)
    BY DEF AuditWritten, AuditLost, ConsentInv
  <1>2. UNCHANGED <<effects, confirmed, entry, decision>>
    BY DEF AuditWritten, AuditLost, history
  <1>3. trail' = trail \/ trail' = Append(trail, [call |-> c, status |-> entry[c]])
    BY DEF AuditWritten, AuditLost
  <1>4. \/ pc'[c] = "ended" /\ outcome'[c] = "raised" /\ UNCHANGED <<storeVars, trail>>
        \/ AfterRecord(c)
    BY DEF AuditWritten, AuditLost, AfterLoss, End, RecordInv, ConsentInv, LocalMaps
  <1>5. Moves(c)
    BY StepMoves DEF CallStep
  <1>6. Consented(c) => Consented(c)'
    BY <1>5, ConsentStands DEF ConsentInv, Moves
  <1>7. Recorded(c, {"denied"})' => entry[c] = "denied"
    BY <1>1, <1>3, AppendTells DEF RecordInv, Recorded, CallInv
  <1>8. outcome[c] \notin Refusals
    BY <1>1 DEF CallInv
  <1>9. CASE pc'[c] = "ended" /\ (outcome'[c] \in Refusals => entry[c] = "denied")
    BY <1>1, <1>2, <1>5, <1>6, <1>7, <1>9, CallMoves DEF CallInv, MayExecute
  <1>10. CASE pc'[c] = "waiting" /\ entry[c] = "approval_required" /\ outcome' = outcome
    BY <1>1, <1>2, <1>5, <1>7, <1>8, <1>10, CallMoves DEF CallInv
  <1>11. CASE pc'[c] = "executing" /\ entry[c] \in Permissions /\ outcome' = outcome
    BY <1>1, <1>2, <1>5, <1>6, <1>7, <1>8, <1>11, CallMoves DEF CallInv, MayExecute, Permissions
  <1> QED
    BY <1>4, <1>9, <1>10, <1>11 DEF AfterRecord, End, Await, Permissions, Refusals, RecordInv, ConsentInv, LocalMaps

LEMMA ExecutionConsent ==
  ASSUME RecordInv, ConsentInv, NEW c \in Calls, Executed(c) \/ ExecutionFails(c)
  PROVE  ConsentInv'
  <1>1. pc[c] = "executing" /\ CallInv(c) /\ MayExecute(c) /\ outcome[c] \notin Refusals /\ ~Recorded(c, {"denied"})
    BY DEF Executed, ExecutionFails, ConsentInv, CallInv
  <1>2. UNCHANGED <<storeVars, trail, confirmed, decision>> /\ effects' \subseteq effects \union {c}
    BY DEF Executed, ExecutionFails, history
  <1>3. Moves(c)
    BY StepMoves DEF CallStep
  <1>4. MayExecute(c)' /\ ~Recorded(c, {"denied"})'
    BY <1>1, <1>2 DEF MayExecute, Consented, Recorded, storeVars
  <1>5. \/ pc'[c] = "ended" /\ outcome'[c] = "ok"
        \/ pc'[c] = "auditing" /\ outcome' = outcome /\ entry'[c] = "error"
    BY DEF Executed, ExecutionFails, End, Await, AuditThen, RecordInv, ConsentInv, LocalMaps
  <1> QED BY <1>1, <1>3, <1>4, <1>5, CallMoves DEF CallInv, Refusals, Permissions

\* A caller who goes away cannot tell whether what was sent was done.
LEMMA CancelConsent ==
  ASSUME RecordInv, ConsentInv, NEW c \in Calls, Cancelled(c)
  PROVE  ConsentInv'
  <1>1. pc[c] # "ended" /\ CallInv(c)
    BY DEF Cancelled, ConsentInv
  <1>2. /\ UNCHANGED <<confirmed, entry, decision>> /\ pc'[c] = "ended" /\ outcome'[c] = "cancelled"
        /\ effects' = effects \/ (effects' = effects \union {c} /\ pc[c] = "executing")
        /\ trail' = trail \/ (pc[c] = "auditing" /\ trail' = Append(trail, [call |-> c, status |-> entry[c]]))
    BY DEF Cancelled, End, history, RecordInv, ConsentInv, LocalMaps
  <1>3. Moves(c)
    BY StepMoves DEF CallStep
  <1>4. MayExecute(c) => MayExecute(c)'
    BY <1>2, <1>3, ConsentStands DEF ConsentInv, MayExecute, Moves
  <1>5. Recorded(c, {"denied"})' => pc[c] = "auditing" /\ entry[c] = "denied"
    BY <1>1, <1>2, AppendTells DEF RecordInv, Recorded, CallInv
  <1> QED BY <1>1, <1>2, <1>3, <1>4, <1>5, CallMoves DEF CallInv, Refusals

LEMMA WorldConsent ==
  ASSUME RecordInv, ConsentInv, Reload \/ ClockAdvances \/ StoreStep \/ UNCHANGED vars
  PROVE  ConsentInv'
  <1>1. [StoreNext]_storeVars /\ UNCHANGED <<local, trail, effects, confirmed>>
    BY DEF Reload, ClockAdvances, StoreStep, StoreNext, vars, history
  <1>2. StoreInv' /\ \A b : Consented(b) => Consented(b)'
    BY <1>1, ConsentStands DEF ConsentInv
  <1>3. \A b \in Calls : Recorded(b, {"denied"})' => Recorded(b, {"denied"})
    BY <1>1 DEF Recorded
  <1> QED BY <1>1, <1>2, <1>3, BystanderKeeps DEF ConsentInv, LocalMaps, local

THEOREM ConsentInductive == Spec => []ConsentInv
  <1>1. RecordInv /\ ConsentInv /\ [Next]_vars => ConsentInv'
    BY EvaluatesConsent, EstimateConsent, AnswerConsent, RecordConsent, ExecutionConsent, CancelConsent,
       WorldConsent DEF Next, RunStep
  <1> QED BY RecordInductive, InitConsent, <1>1, PTL DEF Spec

\* Whatever the timer, a shutdown, a reload or an estimate does: an operation
\* held for approval reaches the backend only after a human's yes to that call,
\* and a call that was refused does nothing, before or after.
THEOREM HumanDecides == Spec => []ConsentDecides
  <1>1. ConsentInv => HeldUntilConsent
    <2> SUFFICES ASSUME ConsentInv, NEW c \in effects, decision[c].status = "approval_required"
                 PROVE  IF c \in RunCalls THEN acked[c] = "approved" ELSE c \in confirmed
      BY DEF HeldUntilConsent
    <2>1. c \in Calls
      BY DEF ConsentInv
    <2> QED BY <2>1 DEF ConsentInv, CallInv, MayExecute, Consented
  <1>2. ConsentInv => RefusalIsFinal
    BY DEF ConsentInv, CallInv, Refusals, RefusalIsFinal
  <1> QED BY ConsentInductive, <1>1, <1>2, PTL DEF ConsentDecides

----------------------------------------------------------------------------
(* A yes that came too late, and the last word of the trail.               *)

\* A write whose permission went away during the dialog is being refused.
RevokedInv ==
    \A c \in revoked :
        c \in ConfirmCalls =>
            c \notin effects /\ (pc[c] = "ended" \/ (pc[c] = "auditing" /\ entry[c] = "denied"))

\* Whatever the human said: a write the policy has come to forbid during the
\* dialog is not executed.
THEOREM RevokedStays == Spec => []RevokedWriteStays
  <1>1. Init => RevokedInv
    BY DEF Init, RevokedInv
  <1>2. RecordInv /\ ConsentInv /\ RevokedInv /\ [Next]_vars => RevokedInv'
    <2> SUFFICES ASSUME RecordInv, ConsentInv, RevokedInv, [Next]_vars PROVE RevokedInv'
      OBVIOUS
    <2>1. CASE Reload \/ ClockAdvances \/ StoreStep \/ UNCHANGED vars
      BY <2>1 DEF Reload, ClockAdvances, StoreStep, vars, local, history, RevokedInv
    <2>2. ASSUME NEW c \in Calls, Confirmed(c) PROVE RevokedInv'
      <3>1. c \notin effects' /\ UNCHANGED effects
        BY <2>2 DEF Confirmed, ConsentInv, CallInv
      <3>2. /\ \A b \in revoked' : b \in revoked \/ (b = c /\ pc'[c] = "auditing" /\ entry'[c] = "denied")
            /\ \A b \in Calls : b # c => pc'[b] = pc[b] /\ entry'[b] = entry[b]
            /\ c \notin revoked \/ c \notin ConfirmCalls
        BY <2>2 DEF Confirmed, Recheck, AuditThen, Await, RecordInv, ConsentInv, LocalMaps, RevokedInv
      <3> QED BY <3>1, <3>2 DEF RevokedInv, Calls
    <2>3. ASSUME NEW c \in Calls, Answered(c) PROVE RevokedInv'
      <3>1. c \notin ConfirmCalls /\ UNCHANGED effects /\ revoked' \subseteq revoked \union {c}
        BY <2>3, OnePath DEF Answered, ConsentInv, CallInv
      <3>2. \A b \in Calls : b # c => pc'[b] = pc[b] /\ entry'[b] = entry[b]
        BY <2>3 DEF Answered, AuditThen, Await, RecordInv, ConsentInv, LocalMaps
      <3> QED BY <3>1, <3>2 DEF RevokedInv, Calls
    <2>4. ASSUME NEW c \in Calls, AuditWritten(c) \/ AuditLost(c) \/ Cancelled(c) PROVE RevokedInv'
      <3>1. UNCHANGED <<revoked, entry>> /\ \A b \in Calls : b # c => pc'[b] = pc[b]
        BY <2>4 DEF AuditWritten, AuditLost, AfterLoss, AfterRecord, Cancelled, Await, End, history, RecordInv
      <3>2. pc[c] # "executing" => UNCHANGED effects
        BY <2>4 DEF AuditWritten, AuditLost, Cancelled
      <3>4. effects' \subseteq effects \union {c}
        BY <2>4 DEF AuditWritten, AuditLost, Cancelled
      <3>5. entry[c] = "denied" => pc'[c] = "ended" \/ pc[c] # "auditing"
        BY <2>4 DEF AuditWritten, AuditLost, AfterLoss, AfterRecord, Cancelled, Await, End, RecordInv
      <3>6. pc[c] # "ended"
        BY <2>4 DEF AuditWritten, AuditLost, Cancelled
      <3> QED BY <3>1, <3>2, <3>4, <3>5, <3>6 DEF RevokedInv, Calls
    <2>5. ASSUME NEW c \in Calls,
                 \/ RateLimited(c) \/ RunEvaluate(c) \/ (\E cost \in Unknown .. Critical : Estimate(c, cost))
                 \/ ConfirmEvaluate(c) \/ Declined(c) \/ Executed(c) \/ ExecutionFails(c)
          PROVE  RevokedInv'
      <3>1. pc[c] \in {"new", "estimating", "eliciting", "executing"} /\ UNCHANGED revoked
        BY <2>5 DEF RateLimited, RunEvaluate, Estimate, ConfirmEvaluate, Declined, Executed, ExecutionFails, history
      <3>2. \A b \in Calls : b # c => pc'[b] = pc[b] /\ entry'[b] = entry[b]
        BY <2>5 DEF RateLimited, RunEvaluate, Estimate, ConfirmEvaluate, Declined, Executed, ExecutionFails,
                    AuditThen, Await, End, RecordInv, ConsentInv, LocalMaps
      <3>3. effects' \subseteq effects \union {c}
        BY <2>5 DEF RateLimited, RunEvaluate, Estimate, ConfirmEvaluate, Declined, Executed, ExecutionFails
      <3> QED BY <3>1, <3>2, <3>3 DEF RevokedInv, Calls
    <2> QED BY <2>1, <2>2, <2>3, <2>4, <2>5 DEF Next, RunStep
  <1>3. RevokedInv => RevokedWriteStays
    BY DEF RevokedInv, RevokedWriteStays
  <1> QED BY RecordInductive, ConsentInductive, <1>1, <1>2, <1>3, PTL DEF Spec

Own(c) == {i \in 1 .. Len(trail) : trail[i].call = c}

\* Of the records of a call one is the last.
LastExists(c) == Own(c) # {} => \E i \in Own(c) : \A j \in Own(c) : j <= i

\* A record becomes the last word on its call, and says nothing of the others.
LEMMA LastWord ==
  ASSUME TrailIsSeq, \A b \in Calls : LastExists(b),
         NEW c \in Calls, NEW s, trail' = Append(trail, [call |-> c, status |-> s])
  PROVE  /\ LastStatus(c)' = s
         /\ \A b \in Calls \ {c} : LastStatus(b)' = LastStatus(b)
         /\ \A b \in Calls : LastExists(b)'
  <1> DEFINE r == [call |-> c, status |-> s]
             n == Len(trail)
  <1>1. PICK R : trail \in Seq(R)
    BY DEF TrailIsSeq
  <1>2. r.call = c /\ r.status = s
    OBVIOUS
  <1> HIDE DEF r
  <1>3. trail \in Seq(R \union {r})
    BY <1>1
  <1>4. n \in Nat /\ Len(trail') = n + 1 /\ trail'[n + 1] = r /\ \A i \in 1 .. n : trail'[i] = trail[i]
    BY <1>3 DEF r
  <1> HIDE DEF n
  <1>5. Own(c)' = Own(c) \union {n + 1}
    BY <1>2, <1>4 DEF Own, n
  <1>6. \A i \in Own(c) : i <= n /\ i \in Nat
    BY <1>4 DEF Own, n
  <1>7. LastStatus(c)' = s
    <2>1. \A i \in Own(c)' : (\A j \in Own(c)' : j <= i) <=> i = n + 1
      BY <1>4, <1>5, <1>6
    <2>2. (CHOOSE i \in Own(c)' : \A j \in Own(c)' : j <= i) = n + 1
      BY <1>5, <2>1
    <2> QED BY <1>2, <1>4, <1>5, <2>2 DEF LastStatus, Own
  <1>8. ASSUME NEW b \in Calls \ {c} PROVE LastStatus(b)' = LastStatus(b) /\ LastExists(b)'
    <2>1. Own(b)' = Own(b)
      BY <1>2, <1>4, <1>8 DEF Own, n
    <2>2. LastExists(b)'
      BY <2>1 DEF LastExists
    <2>3. CASE Own(b) = {}
      <3>1. LastStatus(b) = "none"
        BY <2>3 DEF LastStatus, Own
      <3>2. LastStatus(b)' = "none"
        BY <2>1, <2>3 DEF LastStatus, Own
      <3> QED BY <2>2, <3>1, <3>2
    <2>4. CASE Own(b) # {}
      <3> DEFINE last == CHOOSE i \in Own(b) : \A j \in Own(b) : j <= i
      <3>1. last \in Own(b)
        BY <2>4 DEF LastExists
      <3>2. trail'[last] = trail[last]
        BY <1>4, <3>1 DEF Own, n
      <3>3. LastStatus(b) = trail[last].status
        BY <2>4 DEF LastStatus, Own
      <3>4. LastStatus(b)' = trail'[last].status
        BY <2>1, <2>4 DEF LastStatus, Own
      <3> QED BY <2>2, <3>2, <3>3, <3>4
    <2> QED BY <2>2, <2>3, <2>4
  <1>9. LastExists(c)'
    BY <1>4, <1>5, <1>6 DEF LastExists
  <1> QED BY <1>7, <1>8, <1>9

\* What the trail says last, and what the agent was told, of a call.
TellsOf(c) ==
    /\ pc[c] = "executing" => LastStatus(c) \in Permissions
    /\ outcome[c] = "ok"     => LastStatus(c) \in Permissions
    /\ outcome[c] = "denied" => LastStatus(c) = "denied"
    /\ outcome[c] = "error"  => LastStatus(c) = "error"
    /\ outcome[c] # "none"   => pc[c] = "ended"

TellsInv ==
    /\ \A c \in Calls : LastExists(c)
    /\ FailClosed => \A c \in RunCalls : TellsOf(c)

LEMMA LastStays ==
  ASSUME trail' = trail
  PROVE  \A c \in Calls : LastStatus(c)' = LastStatus(c) /\ LastExists(c)' = LastExists(c)
  BY DEF LastStatus, LastExists, Own

LEMMA TellsMoves ==
  ASSUME RecordInv, TellsInv, NEW c \in Calls, Moves(c),
         FailClosed /\ c \in RunCalls => TellsOf(c)'
  PROVE  TellsInv'
  <1>1. /\ \A b \in Calls : LastExists(b)'
        /\ \A b \in Calls \ {c} : LastStatus(b)' = LastStatus(b)
    <2>1. CASE trail' = trail
      BY <2>1, LastStays DEF TellsInv
    <2>2. CASE trail' = Append(trail, [call |-> c, status |-> entry[c]])
      BY <2>2, LastWord DEF TellsInv, RecordInv
    <2> QED BY <2>1, <2>2 DEF Moves
  <1>2. ASSUME FailClosed, NEW b \in RunCalls, b # c PROVE TellsOf(b)'
    <2>1. TellsOf(b) /\ pc'[b] = pc[b] /\ outcome'[b] = outcome[b] /\ LastStatus(b)' = LastStatus(b)
      BY <1>1, <1>2 DEF TellsInv, Moves, Calls
    <2> QED BY <2>1 DEF TellsOf
  <1> QED BY <1>1, <1>2 DEF TellsInv

LEMMA StepTells ==
  ASSUME RecordInv, ConsentInv, TellsInv, NEW c \in Calls, CallStep(c)
  PROVE  TellsInv'
  <1> SUFFICES ASSUME FailClosed, c \in RunCalls PROVE TellsOf(c)'
    BY StepMoves, TellsMoves
  <1>1. TellsOf(c)
    BY DEF TellsInv
  <1>2. CASE RateLimited(c) \/ Declined(c)
    BY <1>2 DEF RateLimited, Declined, End, TellsOf, RecordInv, ConsentInv, LocalMaps
  <1>3. CASE RunEvaluate(c) \/ Answered(c) \/ Confirmed(c)
    <2>1. pc'[c] \in {"estimating", "auditing"} /\ pc[c] # "ended" /\ UNCHANGED outcome
      BY <1>3 DEF RunEvaluate, Answered, Confirmed, Await, AuditThen, RecordInv
    <2> QED BY <1>1, <2>1 DEF TellsOf
  <1>4. CASE \E cost \in Unknown .. Critical : Estimate(c, cost)
    <2>1. pc[c] # "ended" /\ \/ pc'[c] = "ended" /\ outcome'[c] = "raised"
                             \/ pc'[c] = "auditing" /\ UNCHANGED outcome
      BY <1>4 DEF Estimate, Await, AuditThen, End, RecordInv, ConsentInv, LocalMaps
    <2> QED BY <1>1, <2>1 DEF TellsOf
  <1>5. CASE ConfirmEvaluate(c)
    BY <1>5, OnePath DEF ConfirmEvaluate
  <1>6. CASE AuditWritten(c)
    <2>1. trail' = Append(trail, [call |-> c, status |-> entry[c]]) /\ pc[c] # "ended"
      BY <1>6 DEF AuditWritten
    <2>2. LastStatus(c)' = entry[c]
      BY <2>1, LastWord DEF TellsInv, RecordInv
    <2>3. \/ pc'[c] = "ended" /\ outcome'[c] = entry[c] /\ entry[c] \in {"denied", "error"}
          \/ pc'[c] = "waiting" /\ UNCHANGED outcome
          \/ pc'[c] = "executing" /\ UNCHANGED outcome /\ entry[c] \in Permissions
      BY <1>6 DEF AuditWritten, AfterRecord, Await, End, Permissions, RecordInv, ConsentInv, LocalMaps
    <2> QED BY <1>1, <2>1, <2>2, <2>3 DEF TellsOf
  <1>7. CASE AuditLost(c) \/ Cancelled(c)
    <2>1. pc'[c] = "ended" /\ outcome'[c] \in {"raised", "cancelled"}
      BY <1>7 DEF AuditLost, AfterLoss, Cancelled, End, RecordInv, ConsentInv, LocalMaps
    <2> QED BY <2>1 DEF TellsOf
  <1>8. CASE Executed(c) \/ ExecutionFails(c)
    <2>1. UNCHANGED trail /\ pc[c] = "executing"
      BY <1>8 DEF Executed, ExecutionFails
    <2>2. LastStatus(c)' \in Permissions
      BY <1>1, <2>1, LastStays DEF TellsOf
    <2>3. \/ pc'[c] = "ended" /\ outcome'[c] = "ok"
          \/ pc'[c] = "auditing" /\ UNCHANGED outcome
      BY <1>8 DEF Executed, ExecutionFails, Await, AuditThen, End, RecordInv, ConsentInv, LocalMaps
    <2> QED BY <1>1, <2>1, <2>2, <2>3 DEF TellsOf
  <1> QED BY <1>2, <1>3, <1>4, <1>5, <1>6, <1>7, <1>8 DEF CallStep

LEMMA WorldTells ==
  ASSUME TellsInv, UNCHANGED <<pc, outcome, trail>>
  PROVE  TellsInv'
  BY LastStays DEF TellsInv, TellsOf, Calls

\* With fail-closed auditing, what an agent was told of a read is what the trail
\* says of it last.
THEOREM TrailTells == Spec => []TrailTellsOutcome
  <1>1. Init => TellsInv
    BY DEF Init, TellsInv, TellsOf, LastExists, Own, Calls
  <1>2. RecordInv /\ ConsentInv /\ TellsInv /\ [Next]_vars => TellsInv'
    <2> SUFFICES ASSUME RecordInv, ConsentInv, TellsInv, [Next]_vars PROVE TellsInv'
      OBVIOUS
    <2>1. CASE \E c \in Calls : CallStep(c)
      BY <2>1, StepTells
    <2>2. CASE Reload \/ ClockAdvances \/ StoreStep \/ UNCHANGED vars
      BY <2>2, WorldTells DEF Reload, ClockAdvances, StoreStep, vars, local
    <2> QED BY <2>1, <2>2 DEF Next, RunStep, CallStep
  <1>3. TellsInv => TrailTellsOutcome
    BY DEF TellsInv, TellsOf, TrailTellsOutcome
  <1> QED BY RecordInductive, ConsentInductive, <1>1, <1>2, <1>3, PTL DEF Spec

----------------------------------------------------------------------------
(* The refinement of Governance.                                           *)

Authorised(c) == entry[c] \in Permissions \/ Recorded(c, Permissions)

\* A permission is being recorded, stands in the trail, or has come to nothing.
PermissionInv ==
    \A c \in Calls :
        entry[c] \in Permissions => pc[c] \in {"auditing", "ended"} \/ Recorded(c, Permissions)

\* What a step of one call may be, seen from Governance.
LEMMA PromiseMoves ==
  ASSUME RecordInv, NEW c \in Calls, Moves(c),
         pc[c] # "ended",
         \/ /\ UNCHANGED effects /\ (Recorded(c, Permissions)' <=> Recorded(c, Permissions))
            /\ (Authorised(c)' <=> Authorised(c)) \/ (Authorised(c)' /\ pc'[c] # "ended")
         \/ UNCHANGED effects /\ Authorised(c) /\ Recorded(c, Permissions)'
         \/ effects' = effects \union {c} /\ Recorded(c, Permissions) /\ UNCHANGED trail
  PROVE  [Promise!Next]_(Promise!vars)
  <1> DEFINE A == {b \in Calls : entry[b] \in Permissions \/ Recorded(b, Permissions)}
             R == {b \in Calls : Recorded(b, Permissions)}
             O == {b \in Calls : pc[b] = "ended"}
  <1>1. \A b \in Calls \ {c} :
           /\ Recorded(b, Permissions)' <=> Recorded(b, Permissions)
           /\ pc'[b] = pc[b] /\ entry'[b] = entry[b]
    <2>1. CASE trail' = trail
      BY <2>1 DEF Moves, Recorded
    <2>2. CASE trail' = Append(trail, [call |-> c, status |-> entry[c]])
      BY <2>2, AppendTells, TrailGrows DEF Moves, RecordInv
    <2> QED BY <2>1, <2>2 DEF Moves
  <1>2. O' = O \/ O' = O \union {c}
    BY <1>1
  <1>3. pc'[c] # "ended" => O' = O
    BY <1>1
  <1>4. CASE /\ UNCHANGED effects /\ (Recorded(c, Permissions)' <=> Recorded(c, Permissions))
             /\ (Authorised(c)' <=> Authorised(c)) \/ (Authorised(c)' /\ pc'[c] # "ended")
    <2>1. R' = R
      BY <1>1, <1>4
    <2>2. CASE Authorised(c)' <=> Authorised(c)
      <3>1. A' = A
        BY <1>1, <2>2 DEF Authorised
      <3>2. UNCHANGED Promise!vars \/ Promise!Close(c)
        BY <1>2, <1>4, <2>1, <3>1 DEF Promise!vars, Promise!Close
      <3> QED BY <3>2 DEF Promise!Next
    <2>3. CASE Authorised(c)' /\ pc'[c] # "ended"
      <3>1. A' = A \union {c}
        BY <1>1, <2>3 DEF Authorised
      <3>2. Promise!Authorise(c)
        BY <1>3, <1>4, <2>1, <2>3, <3>1 DEF Promise!Authorise
      <3> QED BY <3>2 DEF Promise!Next
    <2> QED BY <1>4, <2>2, <2>3
  <1>5. CASE UNCHANGED effects /\ Authorised(c) /\ Recorded(c, Permissions)'
    <2>1. A' = A /\ R' = R \union {c}
      BY <1>1, <1>5 DEF Authorised
    <2>2. Promise!Record(c)
      BY <1>2, <1>5, <2>1 DEF Promise!Record, Promise!MayEnd, Authorised
    <2> QED BY <2>2 DEF Promise!Next
  <1>6. CASE effects' = effects \union {c} /\ Recorded(c, Permissions) /\ UNCHANGED trail
    <2>1. Recorded(c, Permissions)'
      BY <1>6 DEF Recorded
    <2>2. A' = A /\ R' = R
      BY <1>1, <1>6, <2>1
    <2>3. Promise!Perform(c)
      BY <1>2, <1>6, <2>2 DEF Promise!Perform, Promise!MayEnd
    <2> QED BY <2>3 DEF Promise!Next
  <1> QED BY <1>4, <1>5, <1>6

\* A step of a call keeps the promise, and keeps track of its permission.
LEMMA StepPromises ==
  ASSUME FailClosed, RecordInv, RecordInv', ConsentInv, PermissionInv, NEW c \in Calls, CallStep(c)
  PROVE  PermissionInv' /\ [Promise!Next]_(Promise!vars)
  <1> DEFINE Kept == entry'[c] \in Permissions => pc'[c] \in {"auditing", "ended"} \/ Recorded(c, Permissions)'
  <1>1. Moves(c)
    BY StepMoves
  <1>2. \A b \in Calls : Recorded(b, Permissions) => Recorded(b, Permissions)'
    BY <1>1, TrailStays, TrailGrows DEF Moves, RecordInv
  <1>3. Kept => PermissionInv'
    BY <1>1, <1>2 DEF PermissionInv, Moves
  <1>4. pc[c] # "ended"
    BY DEF CallStep, RateLimited, RunEvaluate, Estimate, ConfirmEvaluate, Declined, Confirmed, Answered,
           AuditWritten, AuditLost, Executed, ExecutionFails, Cancelled
  <1>5. entry[c] \in Permissions => pc[c] = "auditing" \/ Recorded(c, Permissions)
    BY <1>4 DEF PermissionInv
  \* A new record is begun, or none, and nothing is written or done.
  <1>6. ASSUME UNCHANGED <<trail, effects>>, pc[c] # "auditing",
               \/ pc'[c] = "auditing" \/ entry'[c] = entry[c]
        PROVE  PermissionInv' /\ [Promise!Next]_(Promise!vars)
    <2>1. Recorded(c, Permissions)' <=> Recorded(c, Permissions)
      BY <1>6 DEF Recorded
    <2>2. Kept
      BY <1>5, <1>6, <2>1
    <2>3. (Authorised(c)' <=> Authorised(c)) \/ (Authorised(c)' /\ pc'[c] # "ended")
      BY <1>5, <1>6, <2>1 DEF Authorised
    <2> QED BY <1>1, <1>3, <1>4, <1>6, <2>1, <2>2, <2>3, PromiseMoves
  <1>7. CASE RateLimited(c) \/ RunEvaluate(c) \/ (\E cost \in Unknown .. Critical : Estimate(c, cost))
             \/ ConfirmEvaluate(c) \/ Declined(c) \/ Confirmed(c) \/ Answered(c)
    <2>1. UNCHANGED <<trail, effects>> /\ pc[c] # "auditing"
      BY <1>7 DEF RateLimited, RunEvaluate, Estimate, ConfirmEvaluate, Declined, Confirmed, Answered
    <2>2. pc'[c] = "auditing" \/ entry'[c] = entry[c]
      BY <1>7 DEF RateLimited, RunEvaluate, Estimate, ConfirmEvaluate, Declined, Confirmed, Answered,
                  AuditThen, Await, RecordInv
    <2> QED BY <1>6, <2>1, <2>2
  <1>8. CASE AuditWritten(c)
    <2> DEFINE r == [call |-> c, status |-> entry[c]]
    <2>1. UNCHANGED <<effects, entry>> /\ trail' = Append(trail, r) /\ r.call = c /\ r.status = entry[c]
      BY <1>8 DEF AuditWritten
    <2> HIDE DEF r
    <2>2. entry[c] \in Permissions => Recorded(c, Permissions)'
      BY <2>1, TrailGrows DEF RecordInv
    <2>3. entry[c] \notin Permissions => Recorded(c, Permissions)' <=> Recorded(c, Permissions)
      BY <1>2, <2>1, AppendTells DEF RecordInv, r
    <2>4. Kept
      BY <2>1, <2>2
    <2>5. CASE entry[c] \in Permissions
      BY <1>1, <1>3, <1>4, <2>1, <2>2, <2>4, <2>5, PromiseMoves DEF Authorised
    <2>6. CASE entry[c] \notin Permissions
      BY <1>1, <1>3, <1>4, <2>1, <2>3, <2>4, <2>6, PromiseMoves DEF Authorised
    <2> QED BY <2>5, <2>6
  <1>9. CASE AuditLost(c)
    <2>1. UNCHANGED <<effects, entry, trail>> /\ pc'[c] = "ended"
      BY <1>9 DEF AuditLost, AfterLoss, End, RecordInv
    <2>2. Recorded(c, Permissions)' <=> Recorded(c, Permissions)
      BY <2>1 DEF Recorded
    <2>3. Kept /\ (Authorised(c)' <=> Authorised(c))
      BY <2>1, <2>2 DEF Authorised
    <2> QED BY <1>1, <1>3, <1>4, <2>1, <2>2, <2>3, PromiseMoves
  <1>10. CASE Executed(c) \/ ExecutionFails(c)
    <2>1. UNCHANGED trail /\ pc[c] = "executing" /\ effects' \in {effects, effects \union {c}}
      BY <1>10 DEF Executed, ExecutionFails
    <2>2. Recorded(c, Permissions) /\ Recorded(c, Permissions)'
      BY <1>2, <2>1 DEF RecordInv, ExecutesRecorded
    <2>3. Kept /\ (Authorised(c)' <=> Authorised(c))
      BY <2>2 DEF Authorised
    <2> QED BY <1>1, <1>3, <1>4, <2>1, <2>2, <2>3, PromiseMoves
  <1>11. CASE Cancelled(c)
    <2> DEFINE r == [call |-> c, status |-> entry[c]]
    <2>1. UNCHANGED entry /\ pc'[c] = "ended"
      BY <1>11 DEF Cancelled, End, RecordInv
    <2>2. PermissionInv'
      BY <1>3, <2>1
    <2>3. CASE UNCHANGED <<trail, effects>>
      <3>1. Recorded(c, Permissions)' <=> Recorded(c, Permissions)
        BY <2>3 DEF Recorded
      <3> QED BY <1>1, <1>4, <2>1, <2>2, <2>3, <3>1, PromiseMoves DEF Authorised
    <2>4. CASE pc[c] = "executing" /\ UNCHANGED trail /\ effects' = effects \union {c}
      BY <1>1, <1>4, <2>2, <2>4, PromiseMoves DEF RecordInv, ExecutesRecorded
    <2>5. CASE pc[c] = "auditing" /\ trail' = Append(trail, r) /\ UNCHANGED effects
      <3>1. r.call = c /\ r.status = entry[c]
        OBVIOUS
      <3> HIDE DEF r
      <3>2. entry[c] \in Permissions => Recorded(c, Permissions)'
        BY <2>5, <3>1, TrailGrows DEF RecordInv
      <3>3. entry[c] \notin Permissions => Recorded(c, Permissions)' <=> Recorded(c, Permissions)
        BY <1>2, <2>5, AppendTells DEF RecordInv, r
      <3>4. CASE entry[c] \in Permissions
        BY <1>1, <1>4, <2>2, <2>5, <3>2, <3>4, PromiseMoves DEF Authorised
      <3>5. CASE entry[c] \notin Permissions
        BY <1>1, <1>4, <2>1, <2>2, <2>5, <3>3, <3>5, PromiseMoves DEF Authorised
      <3> QED BY <3>4, <3>5
    <2> QED BY <1>11, <2>3, <2>4, <2>5 DEF Cancelled
  <1> QED BY <1>7, <1>8, <1>9, <1>10, <1>11 DEF CallStep

LEMMA WorldPromises ==
  ASSUME PermissionInv, UNCHANGED <<pc, entry, trail, effects>>
  PROVE  PermissionInv' /\ UNCHANGED Promise!vars
  BY DEF PermissionInv, Recorded, Promise!vars

\* With fail-closed auditing the pipeline does what Governance promises: first
\* the permission, then its record, then the operation, and nothing after the
\* end of the call.
THEOREM PromiseKept == ASSUME FailClosed PROVE Spec => KeepsPromise
  <1>1. Init => PermissionInv /\ Promise!Init
    <2> SUFFICES ASSUME Init PROVE PermissionInv /\ Promise!Init
      OBVIOUS
    <2>1. \A c \in Calls : entry[c] \notin Permissions /\ ~Recorded(c, Permissions) /\ pc[c] # "ended"
      BY DEF Init, Permissions, Recorded
    <2> QED BY <2>1 DEF Init, PermissionInv, Promise!Init
  <1>2. RecordInv /\ RecordInv' /\ ConsentInv /\ PermissionInv /\ [Next]_vars
           => PermissionInv' /\ [Promise!Next]_(Promise!vars)
    <2> SUFFICES ASSUME RecordInv, RecordInv', ConsentInv, PermissionInv, [Next]_vars
                 PROVE  PermissionInv' /\ [Promise!Next]_(Promise!vars)
      OBVIOUS
    <2>1. CASE \E c \in Calls : CallStep(c)
      BY <2>1, StepPromises
    <2>2. CASE Reload \/ ClockAdvances \/ StoreStep \/ UNCHANGED vars
      BY <2>2, WorldPromises DEF Reload, ClockAdvances, StoreStep, vars, local
    <2> QED BY <2>1, <2>2 DEF Next, RunStep, CallStep
  <1> QED BY RecordInductive, ConsentInductive, <1>1, <1>2, PTL DEF Spec, KeepsPromise, Promise!Spec

----------------------------------------------------------------------------
(* The approval store by itself, for any requests, Timeout and PruneAge.   *)
(*                                                                         *)
(* None of its invariants is inductive alone.  StoreHolds adds what        *)
(* connects the four copies of a decision (the record, the event, the      *)
(* coroutine and the answer to the human): "approved" enters the record    *)
(* only through Resolve, which acknowledges it; a record becomes unpending *)
(* only through a step that sets the event, or in the hands of a waiter    *)
(* that has timed out already; and a waiter that sleeps has not answered.  *)

\* "approved" in the record means a human put it there.
ApprovedIsAcked == \A r \in RunCalls : status[r] = "approved" => acked[r] = "approved"

\* Only a waiter that woke up on its event or timed out has an answer.
AnswerNeedsWake ==
    \A r \in RunCalls : result[r] # "none" => waiter[r] \in {"woken", "timedout"}

\* Before create() there is no waiter; nothing is acknowledged before a record.
FreshIsIdle ==
    \A r \in RunCalls : status[r] = "none" => waiter[r] = "idle" /\ acked[r] = "none"

\* A pending request has not been acknowledged, and its event is not set.
PendingIsOpen ==
    \A r \in RunCalls : status[r] = "pending" => acked[r] = "none" /\ ~event[r]

\* An answered request is closed for good.
AnsweredIsClosed ==
    \A r \in RunCalls : waiter[r] \in {"woken", "timedout"} => status[r] \notin {"none", "pending"}

\* The event is set only by somebody who resolves the request.
EventNeedsDecision ==
    \A r \in RunCalls : event[r] => status[r] \notin {"none", "pending"}

StoreHolds ==
    /\ StoreTypeOK
    /\ ApprovedByHuman
    /\ AckedStands
    /\ NoLostWakeup
    /\ ApprovalLostOnlyToTimer
    /\ ApprovedIsAcked
    /\ AnswerNeedsWake
    /\ FreshIsIdle
    /\ PendingIsOpen
    /\ AnsweredIsClosed
    /\ EventNeedsDecision

----------------------------------------------------------------------------

\* The initial states satisfy the inductive invariant.
LEMMA StoreStarts == StoreInit => StoreHolds
  <1> SUFFICES ASSUME StoreInit PROVE StoreHolds
    OBVIOUS
  <1>1. StoreTypeOK
    <2>1. 0 \in 0 .. AgeCap
      BY StoreAssumption DEF StoreAssumption, AgeCap
    <2> QED
      BY <2>1, Zenon DEF StoreInit, StoreTypeOK
  <1>2. \A r \in RunCalls : status[r] = "none" /\ ~event[r] /\ waiter[r] = "idle"
                            /\ result[r] = "none" /\ acked[r] = "none"
    BY Zenon DEF StoreInit
  <1>3. ApprovedByHuman /\ AckedStands /\ NoLostWakeup /\ ApprovalLostOnlyToTimer
    BY <1>2 DEF ApprovedByHuman, AckedStands, Known, NoLostWakeup, ApprovalLostOnlyToTimer
  <1>4. ApprovedIsAcked /\ AnswerNeedsWake /\ FreshIsIdle /\ PendingIsOpen
        /\ AnsweredIsClosed /\ EventNeedsDecision
    BY <1>2 DEF ApprovedIsAcked, AnswerNeedsWake, FreshIsIdle, PendingIsOpen,
                AnsweredIsClosed, EventNeedsDecision
  <1> QED
    BY <1>1, <1>3, <1>4 DEF StoreHolds

\* Every step of the store, the waiters, the timer or the prune loop keeps it.
LEMMA StoreMoves == StoreHolds /\ [StoreNext]_storeVars => StoreHolds'
  <1> USE DEF StoreHolds, StoreTypeOK, Decisions, ApprovedByHuman, AckedStands, Known, NoLostWakeup,
          ApprovalLostOnlyToTimer, ApprovedIsAcked, AnswerNeedsWake, FreshIsIdle, PendingIsOpen,
          AnsweredIsClosed, EventNeedsDecision
  <1> SUFFICES ASSUME StoreHolds, [StoreNext]_storeVars PROVE StoreHolds'
    OBVIOUS
  <1>1. ASSUME NEW r \in RunCalls, CreateAndWait(r) PROVE StoreHolds'
    BY <1>1 DEF CreateAndWait
  <1>2. ASSUME NEW r \in RunCalls, NEW d \in Decisions, Resolve(r, d) PROVE StoreHolds'
    <2>1. StoreTypeOK'
      BY <1>2 DEF Resolve, Resolvable, Signal
    <2>2. (ApprovedByHuman /\ AckedStands /\ ApprovalLostOnlyToTimer /\ ApprovedIsAcked)'
      BY <1>2 DEF Resolve, Resolvable
    <2>3. (NoLostWakeup /\ PendingIsOpen /\ EventNeedsDecision)'
      <3>1. \A q \in RunCalls : event'[q] <=> event[q] \/ q = r
        BY <1>2, Zenon DEF Resolve, Signal
      <3> QED
        BY <1>2, <3>1 DEF Resolve, Resolvable
    <2>4. (AnswerNeedsWake /\ FreshIsIdle /\ AnsweredIsClosed)'
      BY <1>2 DEF Resolve, Resolvable
    <2> QED
      BY <2>1, <2>2, <2>3, <2>4
  <1>3. ASSUME NEW r \in RunCalls, TimerFires(r) PROVE StoreHolds'
    BY <1>3 DEF TimerFires
  <1>4. ASSUME NEW r \in RunCalls, WakeTimedOut(r) PROVE StoreHolds'
    BY <1>4 DEF WakeTimedOut, AfterTimeout
  <1>5. ASSUME NEW r \in RunCalls, WakeDecided(r) PROVE StoreHolds'
    BY <1>5 DEF WakeDecided, Verdict
  <1>6. ASSUME NEW r \in RunCalls, CallerCancelled(r) PROVE StoreHolds'
    BY <1>6 DEF CallerCancelled
  <1>7. ASSUME Prune PROVE StoreHolds'
    BY <1>7 DEF Prune, Prunable, Resolved
  <1>8. ASSUME Shutdown PROVE StoreHolds'
    BY <1>8 DEF Shutdown, ShutdownIds, ShutdownVerdict, Signal
  <1>9. ASSUME Tick PROVE StoreHolds'
    BY <1>9, StoreAssumption DEF StoreAssumption, Tick, AgeCap
  <1>10. ASSUME UNCHANGED storeVars PROVE StoreHolds'
    BY <1>10 DEF storeVars
  <1> QED
    BY <1>1, <1>2, <1>3, <1>4, <1>5, <1>6, <1>7, <1>8, <1>9, <1>10 DEF StoreNext

----------------------------------------------------------------------------

\* What is said of the store holds in each of its reachable states.
THEOREM StoreInductive == StoreSpec => []StoreHolds
  BY StoreStarts, StoreMoves, PTL DEF StoreSpec

\* Every reachable state is well typed.
THEOREM StoreTyped == StoreSpec => []StoreTypeOK
  <1>1. StoreHolds => StoreTypeOK
    BY DEF StoreHolds
  <1> QED
    BY <1>1, StoreInductive, PTL

\* No agent is told "approved" unless a human approved that request.
THEOREM HumanGate == StoreSpec => []ApprovedByHuman
  <1>1. StoreHolds => ApprovedByHuman
    BY DEF StoreHolds
  <1> QED
    BY <1>1, StoreInductive, PTL

\* Timer, prune loop and shutdown never overwrite an acknowledged decision.
THEOREM DecisionStands == StoreSpec => []AckedStands
  <1>1. StoreHolds => AckedStands
    BY DEF StoreHolds
  <1> QED
    BY <1>1, StoreInductive, PTL

\* No waiter sleeps through the step that resolved its request.
THEOREM WakeupsDelivered == StoreSpec => []NoLostWakeup
  <1>1. StoreHolds => NoLostWakeup
    BY DEF StoreHolds
  <1> QED
    BY <1>1, StoreInductive, PTL

\* An approval is withheld from a waiter that was not timed out only when the
\* record was pruned before it ran.
THEOREM ApprovalDelivered == StoreSpec => []ApprovalLostOnlyToTimer
  <1>1. StoreHolds => ApprovalLostOnlyToTimer
    BY DEF StoreHolds
  <1> QED
    BY <1>1, StoreInductive, PTL

\* After the call is answered the endpoint accepts no decision on its request.
THEOREM AnswerIsFinal == StoreSpec => NoDecisionAfterAnswer
  <1>1. StoreHolds /\ [StoreNext]_storeVars
           => [\A r \in RunCalls :
                  waiter[r] \in {"woken", "timedout"} => acked'[r] = acked[r]]_storeVars
    <2> SUFFICES ASSUME StoreHolds, StoreNext, NEW q \in RunCalls, waiter[q] \in {"woken", "timedout"}
                 PROVE  acked'[q] = acked[q]
      OBVIOUS
    <2>1. ASSUME NEW r \in RunCalls, NEW d \in Decisions, Resolve(r, d)
          PROVE  acked'[q] = acked[q]
      BY <2>1 DEF Resolve, Resolvable, StoreHolds, AnsweredIsClosed, StoreTypeOK
    <2> QED
      BY <2>1 DEF StoreNext, CreateAndWait, TimerFires, WakeTimedOut, WakeDecided, CallerCancelled,
                  Prune, Shutdown, Tick
  <1> QED
    BY <1>1, StoreInductive, PTL DEF StoreSpec, NoDecisionAfterAnswer

----------------------------------------------------------------------------

\* To the store the pipeline is one of its users: whatever calls, reloads,
\* failures and cancellations come, the store goes through a behaviour of its
\* own specification.
THEOREM PipelineUsesStore == Spec => StoreSpec
  <1>1. Init => StoreInit
    BY DEF Init
  <1>2. RecordInv /\ ConsentInv /\ [Next]_vars => [StoreNext]_storeVars
    <2> SUFFICES ASSUME RecordInv, ConsentInv, [Next]_vars PROVE [StoreNext]_storeVars
      BY DEF storeVars
    <2>1. ASSUME NEW c \in Calls, CallStep(c) PROVE [StoreNext]_storeVars
      BY <2>1, StepMoves DEF Moves
    <2>2. CASE Reload \/ ClockAdvances \/ StoreStep \/ UNCHANGED vars
      BY <2>2 DEF Reload, ClockAdvances, StoreStep, StoreNext, vars
    <2> QED BY <2>1, <2>2 DEF Next, RunStep, CallStep
  <1> QED BY RecordInductive, ConsentInductive, <1>1, <1>2, PTL DEF Spec, StoreSpec

\* So the gate holds inside the pipeline: a call of the run path is told
\* "approved" only by a human, what the endpoint acknowledged stands, nobody
\* sleeps through the answer, an approval is lost to the timer alone, and none is
\* accepted once the call is answered.
THEOREM GateInPipeline ==
  Spec => [](ApprovedByHuman /\ AckedStands /\ NoLostWakeup /\ ApprovalLostOnlyToTimer)
          /\ NoDecisionAfterAnswer
  BY PipelineUsesStore, HumanGate, DecisionStands, WakeupsDelivered, ApprovalDelivered, AnswerIsFinal, PTL

=============================================================================
