---------------------------- MODULE AuditLogger ----------------------------
(***************************************************************************)
(* The tamper-evident audit log: core/audit/logger.py (callers enqueue, a  *)
(* background flusher signs and writes batches, aclose stops it with a     *)
(* sentinel) and core/audit/verify.py (the offline verifier).              *)
(*                                                                         *)
(* A signature is HMAC(previous signature, line).  Each record is signed   *)
(* at most once, so a signature is named by its record: a line on disk is  *)
(* [rec, prev], and it carries the signature rec.                          *)
(*                                                                         *)
(* A step is a stretch of one coroutine between two awaits.  The constants *)
(* below bound the environment: how often an I/O call fails, how much of a *)
(* failed write may reach the file, how often the process dies.            *)
(***************************************************************************)
EXTENDS Integers, Sequences, SequencesExt

CONSTANTS
    Records,        \* audit records, each passed to log() once
    Flushers,       \* ids for flusher tasks
    NoTask,         \* _task is None
    Genesis,        \* _GENESIS
    Sentinel,       \* _SENTINEL
    FailClosed,     \* AuditLogger(fail_closed)
    PartialWrites,  \* a failed or interrupted write may leave some of its text
    PowerLoss,      \* a crash takes what the OS had not written back
    MaxFailures,    \* bound: I/O errors
    MaxRestarts,    \* bound: process deaths
    MaxCloses       \* bound: calls of aclose()

ASSUME LoggerAssumption ==
    /\ Genesis \notin Records
    /\ Sentinel \notin Records
    /\ "torn" \notin Records /\ "garbage" \notin Records
    /\ NoTask \notin Flushers
    /\ {FailClosed, PartialWrites, PowerLoss} \subseteq BOOLEAN
    /\ {MaxFailures, MaxRestarts, MaxCloses} \subseteq Nat

VARIABLES
    queue,     \* _queue
    task,      \* _task: the flusher the logger knows of
    fl,        \* each flusher coroutine: [pc, batch, stop, base]
    prev,      \* _prev_hash
    disk,      \* the lines of the log file
    call,      \* what each log() call has come to
    order,     \* the records in the order of their log() calls (history)
    closer,    \* the flusher aclose() awaits
    failures, restarts, closes

vars == <<queue, task, fl, prev, disk, call, order, closer, failures, restarts, closes>>

\* An unterminated fragment of a line, and a fragment the next write ran into.
Torn    == [rec |-> "torn", prev |-> "torn"]
Garbage == [rec |-> "garbage", prev |-> "garbage"]
Broken  == {Torn, Garbage}

Idle == [pc |-> "none", batch |-> <<>>, stop |-> FALSE, base |-> Genesis]

Hashes == Records \union {Genesis}
Lines  == [rec : Records, prev : Hashes]

TypeOK ==
    /\ queue \in Seq(Records \union {Sentinel})
    /\ task  \in Flushers \union {NoTask}
    /\ fl    \in [Flushers -> [pc : {"none", "get", "open", "write"}, batch : Seq(Records),
                               stop : BOOLEAN, base : Hashes]]
    /\ prev  \in Hashes
    /\ disk  \in Seq(Lines \union Broken)
    /\ call  \in [Records -> {"idle", "waiting", "ok", "failed", "died"}]
    /\ order \in Seq(Records)
    /\ closer \in Flushers \union {NoTask}
    /\ failures \in 0 .. MaxFailures
    /\ restarts \in 0 .. MaxRestarts
    /\ closes   \in 0 .. MaxCloses

Init ==
    /\ queue = <<>> /\ task = NoTask /\ fl = [f \in Flushers |-> Idle]
    /\ prev = Genesis /\ disk = <<>>
    /\ call = [r \in Records |-> "idle"] /\ order = <<>>
    /\ closer = NoTask
    /\ failures = 0 /\ restarts = 0 /\ closes = 0

----------------------------------------------------------------------------

Running(f) == fl[f].pc # "none"

NeedsFlusher == IF task = NoTask THEN TRUE ELSE ~Running(task)

\* _ensure_flusher(): a new task unless the known one still runs.
EnsureFlusher ==
    IF NeedsFlusher
    THEN \E f \in Flushers :
            /\ ~Running(f) /\ f # closer
            /\ task' = f
            /\ fl' = [fl EXCEPT ![f] = [Idle EXCEPT !.pc = "get"]]
    ELSE UNCHANGED <<task, fl>>

\* log(): the queue is unbounded, so the caller first sleeps on its own future.
Log(r) ==
    /\ call[r] = "idle"
    /\ EnsureFlusher
    /\ queue' = Append(queue, r)
    /\ call'  = [call EXCEPT ![r] = "waiting"]
    /\ order' = Append(order, r)
    /\ UNCHANGED <<prev, disk, closer, failures, restarts, closes>>

\* How many records stand before the first sentinel of the queue.
BatchLen(q) ==
    CHOOSE n \in 0 .. Len(q) :
        /\ \A i \in 1 .. n : q[i] # Sentinel
        /\ n < Len(q) => q[n + 1] = Sentinel

\* The flusher takes everything queued up to a sentinel; an empty batch is a
\* sentinel at the head, which ends the task.
TakeBatch(f) ==
    LET n    == BatchLen(queue)
        stop == n < Len(queue)
    IN  /\ fl[f].pc = "get"
        /\ queue # <<>>
        /\ queue' = SubSeq(queue, n + (IF stop THEN 2 ELSE 1), Len(queue))
        /\ fl' = [fl EXCEPT ![f] =
                     IF n = 0 THEN Idle
                     ELSE [@ EXCEPT !.pc = "open", !.batch = SubSeq(queue, 1, n), !.stop = stop]]
        /\ UNCHANGED <<task, prev, disk, call, order, closer, failures, restarts, closes>>

\* The handle is open: the batch is signed from the chain's current head.
SignBatch(f) ==
    /\ fl[f].pc = "open"
    /\ fl' = [fl EXCEPT ![f].pc = "write", ![f].base = prev]
    /\ UNCHANGED <<queue, task, prev, disk, call, order, closer, failures, restarts, closes>>

\* The signed lines of a batch whose first line chains to base.
Signed(base, batch) ==
    [i \in DOMAIN batch |->
        [rec |-> batch[i], prev |-> IF i = 1 THEN base ELSE batch[i - 1]]]

\* Appending text to the file: after a torn fragment the first line is lost in it.
AppendText(d, lines) ==
    IF lines # <<>> /\ d # <<>> /\ d[Len(d)] = Torn
    THEN SubSeq(d, 1, Len(d) - 1) \o <<Garbage>> \o Tail(lines)
    ELSE d \o lines

\* The chain's head after f's batch.
NewHead(f) == Last(fl[f].batch)

InBatch(f) == {fl[f].batch[i] : i \in DOMAIN fl[f].batch}

\* Mutant: the sentinel found behind a batch is forgotten.
Resume_NoStop(f) == fl' = [fl EXCEPT ![f] = [Idle EXCEPT !.pc = "get"]]

\* The flusher goes back to the queue, or ends if it has seen the sentinel.
Resume(f) ==
    fl' = [fl EXCEPT ![f] = IF @.stop THEN Idle ELSE [Idle EXCEPT !.pc = "get"]]

Answer(S, outcome) ==
    call' = [r \in Records |-> IF r \in S THEN outcome ELSE call[r]]

\* write() and flush() went through: commit the chain, resolve the futures.
WriteOk(f) ==
    /\ fl[f].pc = "write"
    /\ disk' = AppendText(disk, Signed(fl[f].base, fl[f].batch))
    /\ prev' = NewHead(f)
    /\ Answer(InBatch(f), "ok")
    /\ Resume(f)
    /\ UNCHANGED <<queue, task, order, closer, failures, restarts, closes>>

\* The file after the first k of these lines went through.
UpTo(d, lines, k) == AppendText(d, SubSeq(lines, 1, k))

\* An interrupted write ends at the end of some line, or within one.
Interrupted(d, lines) ==
    {UpTo(d, lines, k) : k \in 0 .. Len(lines)}
        \union (IF PartialWrites
                THEN {AppendText(UpTo(d, lines, k), <<Torn>>) : k \in 0 .. Len(lines) - 1}
                ELSE {})

\* Mutant: the failed batch is reported as written whatever fail_closed says.
FailureAnswer_Open == "ok"

\* Mutant: the except branch forgets the futures.
FailureAnswer_Forgotten == "waiting"

FailureAnswer == IF FailClosed THEN "failed" ELSE "ok"

HeadOnFailure(f) == prev

\* open(), write() or flush() raised.
WriteFails(f) ==
    /\ fl[f].pc \in {"open", "write"}
    /\ failures < MaxFailures
    /\ failures' = failures + 1
    /\ disk' \in (IF fl[f].pc = "write" /\ PartialWrites
                  THEN Interrupted(disk, Signed(fl[f].base, fl[f].batch)) ELSE {disk})
    /\ prev' = HeadOnFailure(f)
    /\ Answer(InBatch(f), FailureAnswer)
    /\ Resume(f)
    /\ UNCHANGED <<queue, task, order, closer, restarts, closes>>

----------------------------------------------------------------------------

\* aclose(): a running flusher gets the sentinel and is awaited.
CloseBegin ==
    /\ closer = NoTask /\ closes < MaxCloses
    /\ closes' = closes + 1
    /\ IF NeedsFlusher
       THEN UNCHANGED <<queue, closer>>
       ELSE queue' = Append(queue, Sentinel) /\ closer' = task
    /\ UNCHANGED <<task, fl, prev, disk, call, order, failures, restarts>>

\* The awaited task has ended and aclose() runs on.  A log() call may have come
\* first and started another flusher: setting _task to None forgets that one.
CloseEnd ==
    /\ closer # NoTask /\ ~Running(closer)
    /\ closer' = NoTask
    /\ task' = NoTask
    /\ UNCHANGED <<queue, fl, prev, disk, call, order, failures, restarts, closes>>

\* Mutant: every start begins a chain of its own.
SeedHash_Genesis(d) == Genesis

\* _load_last_hash(): the last line's signature, genesis if it cannot be read.
SeedHash(d) ==
    IF d = <<>> \/ d[Len(d)] \in Broken THEN Genesis ELSE d[Len(d)].rec

\* What is left of the file when the process dies.
AfterDeath ==
    LET writing == {f \in Flushers : fl[f].pc = "write"}
        landed  == {disk} \union
                   UNION {Interrupted(disk, Signed(fl[f].base, fl[f].batch)) : f \in writing}
    IN  IF PowerLoss THEN UNION {{SubSeq(d, 1, k) : k \in 0 .. Len(d)} : d \in landed} ELSE landed

\* The process dies and is started again: everything but the file is lost.
Restart ==
    /\ restarts < MaxRestarts
    /\ restarts' = restarts + 1
    /\ disk' \in AfterDeath
    /\ prev' = SeedHash(disk')
    /\ queue' = <<>> /\ task' = NoTask /\ fl' = [f \in Flushers |-> Idle]
    /\ Answer({r \in Records : call[r] = "waiting"}, "died")
    /\ closer' = NoTask
    /\ UNCHANGED <<order, failures, closes>>

Flush(f) == TakeBatch(f) \/ SignBatch(f) \/ WriteOk(f) \/ WriteFails(f)

Next ==
    \/ \E r \in Records : Log(r)
    \/ \E f \in Flushers : TakeBatch(f) \/ SignBatch(f) \/ WriteOk(f) \/ WriteFails(f)
    \/ CloseBegin
    \/ CloseEnd
    \/ Restart

\* A task that can run runs.  Nobody is obliged to log, to close or to crash.
Fairness == WF_vars(CloseEnd) /\ \A f \in Flushers : WF_vars(Flush(f))

Spec     == Init /\ [][Next]_vars
FairSpec == Spec /\ Fairness

----------------------------------------------------------------------------

\* verify_chain(): every line parses and chains to the one before it.
Verifies(d) ==
    \A i \in 1 .. Len(d) :
        d[i] \notin Broken /\ d[i].prev = (IF i = 1 THEN Genesis ELSE d[i - 1].rec)

OnDisk(r) == \E i \in DOMAIN disk : disk[i].rec = r

\* The file passes the offline verifier at every moment: batches, failed writes
\* and restarts leave one chain from genesis.
ChainVerifies == Verifies(disk)

\* One background flusher signs: no second one is at work.
SingleWriter ==
    \A f, g \in Flushers : Running(f) /\ Running(g) => f = g

OrderPreserved ==
    \A i, j \in DOMAIN disk : i < j =>
        \E k, l \in DOMAIN order : k < l /\ order[k] = disk[i].rec /\ order[l] = disk[j].rec

\* Callers are told the truth about the file.  Under fail_closed a log() call
\* that returned has its record there, across restarts; a record whose caller
\* was told of a failure is not there after all; and those that are there stand
\* in the order in which they were logged.
FileMatchesCalls ==
    /\ OrderPreserved
    /\ \A r \in Records :
          /\ FailClosed /\ call[r] = "ok" => OnDisk(r)
          /\ call[r] = "failed" => ~OnDisk(r)

\* A record the caller still waits for is in the queue or in a flusher's hands.
WaitingIsHeld ==
    \A r \in Records : call[r] = "waiting" =>
        r \in Range(queue) \/ \E f \in Flushers : r \in InBatch(f)

\* Nobody waits for ever on the log.
CallsReturn == \A r \in Records : call[r] = "waiting" ~> call[r] # "waiting"

\* aclose() comes back: somebody takes its sentinel and ends.
CloseReturns == closer # NoTask ~> closer = NoTask

=============================================================================
