------------------------- MODULE AuditLoggerProofs -------------------------
(***************************************************************************)
(* The audit file is one unbroken HMAC chain, for any number of records,   *)
(* failures, restarts and whatever suffix of the file a power failure      *)
(* takes, provided that a failed write leaves nothing (~PartialWrites) and *)
(* that aclose() is not called while callers still log (MaxCloses = 0).    *)
(* ChainVerifies fails in AuditLogger_chain with PartialWrites, and in     *)
(* AuditLogger_reopen: neither proviso can be dropped.  Without power      *)
(* failures the file is also what the callers were told it is.  That nobody*)
(* who waits is forgotten needs none of these provisos.                    *)
(***************************************************************************)
EXTENDS AuditLogger, SequenceTheorems, WellFoundedInduction, TLAPS

\* The file holds whole lines, chained, and prev is the last one's signature.
FileOK ==
    /\ disk \in Seq(Lines)
    /\ Verifies(disk)
    /\ prev = SeedHash(disk)

\* Nobody closes, so no sentinel is ever queued and no flusher has seen one.
NoClose ==
    /\ closes = 0 /\ closer = NoTask
    /\ queue \in Seq(Records)
    /\ \A f \in Flushers : ~fl[f].stop

\* Only the known task works, and what it is about to write chains to the file.
WriterOK ==
    \A f \in Flushers :
        /\ Running(f) => f = task
        /\ fl[f].batch \in Seq(Records)
        /\ fl[f].pc \in {"open", "write"} => fl[f].batch # <<>>
        /\ fl[f].pc = "write" => fl[f].base = prev

FlType == fl \in [Flushers -> [pc : {"none", "get", "open", "write"}, batch : Seq(Records),
                               stop : BOOLEAN, base : Hashes]]

ChainInv == FlType /\ FileOK /\ NoClose /\ WriterOK

----------------------------------------------------------------------------

\* A whole line is neither a fragment nor garbage.
LEMMA LinesAreWhole == \A x \in Lines : x \notin Broken
  BY LoggerAssumption DEF LoggerAssumption, Lines, Broken, Torn, Garbage

\* A prefix of a chained file is a chained file.
LEMMA PrefixVerifies ==
  ASSUME NEW d \in Seq(Lines), Verifies(d), NEW k \in 0 .. Len(d)
  PROVE  SubSeq(d, 1, k) \in Seq(Lines) /\ Verifies(SubSeq(d, 1, k))
  <1> DEFINE p == SubSeq(d, 1, k)
  <1>1. \A i \in 1 .. k : d[i] \in Lines
    BY ElementOfSeq
  <1>2. p \in Seq(Lines) /\ Len(p) = k /\ \A i \in 1 .. k : p[i] = d[i]
    BY <1>1, SubSeqProperties
  <1> HIDE DEF p
  <1>3. Verifies(p)
    <2> SUFFICES ASSUME NEW i \in 1 .. k
                 PROVE  p[i] \notin Broken /\ p[i].prev = (IF i = 1 THEN Genesis ELSE p[i - 1].rec)
      BY <1>2 DEF Verifies
    <2>1. p[i] = d[i] /\ (i # 1 => p[i - 1] = d[i - 1])
      BY <1>2
    <2>2. i \in 1 .. Len(d)
      BY LenProperties
    <2> QED
      BY <2>1, <2>2 DEF Verifies
  <1> QED
    BY <1>2, <1>3 DEF p

\* The signature the next line must chain to, in a file of whole lines.
LEMMA SeedOfLines ==
  ASSUME NEW d \in Seq(Lines)
  PROVE  SeedHash(d) = (IF d = <<>> THEN Genesis ELSE d[Len(d)].rec) /\ SeedHash(d) \in Hashes
  <1>1. CASE d = <<>>
    BY <1>1 DEF SeedHash, Hashes
  <1>2. CASE d # <<>>
    <2>1. d[Len(d)] \in Lines
      BY <1>2, EmptySeq, ElementOfSeq
    <2>2. d[Len(d)] \notin Broken
      BY <2>1, LinesAreWhole
    <2> QED
      BY <1>2, <2>1, <2>2 DEF SeedHash, Lines, Hashes
  <1> QED
    BY <1>1, <1>2

\* The lines signed for a batch are whole lines.
LEMMA SignedLines ==
  ASSUME NEW base \in Hashes, NEW batch \in Seq(Records)
  PROVE  /\ Signed(base, batch) \in Seq(Lines)
         /\ Len(Signed(base, batch)) = Len(batch)
  <1>1. Signed(base, batch) \in [1 .. Len(batch) -> Lines]
    BY DEF Signed, Lines, Hashes
  <1> QED
    BY <1>1

\* Whole lines written behind whole lines are only concatenated.
LEMMA AppendWhole ==
  ASSUME NEW d \in Seq(Lines), NEW l \in Seq(Lines)
  PROVE  AppendText(d, l) = d \o l
  <1>1. CASE d = <<>>
    BY <1>1 DEF AppendText
  <1>2. CASE d # <<>>
    <2>1. d[Len(d)] \in Lines
      BY <1>2, EmptySeq, ElementOfSeq
    <2> QED
      BY <2>1, LinesAreWhole DEF AppendText, Broken
  <1> QED
    BY <1>1, <1>2

\* Writing the first k lines of a batch signed from the head keeps the chain.
LEMMA AppendKeepsChain ==
  ASSUME NEW d \in Seq(Lines), Verifies(d),
         NEW batch \in Seq(Records), NEW k \in 0 .. Len(batch)
  PROVE  LET e == UpTo(d, Signed(SeedHash(d), batch), k)
         IN  /\ e \in Seq(Lines)
             /\ Verifies(e)
             /\ k > 0 => SeedHash(e) = batch[k]
             /\ Len(e) = Len(d) + k
             /\ \A i \in 1 .. Len(d) : e[i] = d[i]
             /\ \A i \in 1 .. k : e[Len(d) + i].rec = batch[i]
  <1> DEFINE base  == SeedHash(d)
             all   == Signed(base, batch)
             lines == SubSeq(all, 1, k)
             e     == UpTo(d, all, k)
  <1>1. base \in Hashes
    BY SeedOfLines
  <1>2. all \in Seq(Lines) /\ Len(all) = Len(batch)
    BY <1>1, SignedLines
  <1>3. /\ lines \in Seq(Lines) /\ Len(lines) = k
        /\ \A i \in 1 .. k : lines[i] = all[i]
    <2>1. \A i \in 1 .. k : all[i] \in Lines
      BY <1>2, ElementOfSeq
    <2> HIDE DEF all
    <2> QED
      BY <2>1, SubSeqProperties
  <1>4. \A i \in 1 .. k :
           lines[i].rec = batch[i] /\ lines[i].prev = IF i = 1 THEN base ELSE batch[i - 1]
    BY <1>3 DEF Signed
  <1>5. e = d \o lines
    BY <1>3, AppendWhole DEF UpTo
  <1> HIDE DEF lines, e, all
  <1>6. /\ e \in Seq(Lines) /\ Len(e) = Len(d) + k /\ Len(d) \in Nat
        /\ \A i \in 1 .. Len(e) : e[i] = IF i <= Len(d) THEN d[i] ELSE lines[i - Len(d)]
    <2>1. /\ d \o lines \in Seq(Lines)
          /\ Len(d \o lines) = Len(d) + Len(lines)
          /\ \A i \in 1 .. Len(d) + Len(lines) :
                (d \o lines)[i] = IF i <= Len(d) THEN d[i] ELSE lines[i - Len(d)]
      BY <1>3, ConcatProperties, Zenon
    <2>2. Len(d) \in Nat
      BY LenProperties
    <2> QED
      BY <2>1, <2>2, <1>3, <1>5
  <1>7. base = IF d = <<>> THEN Genesis ELSE d[Len(d)].rec
    BY SeedOfLines
  <1> HIDE DEF base
  <1>8. ASSUME NEW i \in 1 .. Len(e)
        PROVE  e[i] \notin Broken /\ e[i].prev = (IF i = 1 THEN Genesis ELSE e[i - 1].rec)
    <2>1. e[i] \notin Broken
      BY <1>6, LinesAreWhole, ElementOfSeq
    <2>2. CASE i <= Len(d)
      <3>1. e[i] = d[i] /\ (i > 1 => e[i - 1] = d[i - 1])
        BY <1>6, <2>2
      <3> QED
        BY <2>1, <2>2, <3>1, <1>6 DEF Verifies
    <2>3. CASE i = Len(d) + 1
      <3>1. e[i] = lines[1]
        BY <2>3, <1>6
      <3>2. e[i].prev = base
        BY <2>3, <3>1, <1>4, <1>6
      <3>3. CASE d = <<>>
        BY <2>1, <2>3, <3>2, <3>3, <1>7, EmptySeq
      <3>4. CASE d # <<>>
        <4>1. Len(d) > 0 /\ e[i - 1] = d[Len(d)]
          BY <2>3, <3>4, <1>6, EmptySeq
        <4> QED
          BY <2>1, <2>3, <3>2, <3>4, <4>1, <1>7
      <3> QED
        BY <3>3, <3>4
    <2>4. CASE i > Len(d) + 1
      <3> DEFINE j == i - Len(d)
      <3>1. j \in 2 .. k /\ j - 1 \in 1 .. k
        BY <2>4, <1>6
      <3>2. e[i] = lines[j] /\ e[i - 1] = lines[j - 1]
        BY <2>4, <1>6
      <3>3. lines[j].prev = batch[j - 1] /\ lines[j - 1].rec = batch[j - 1]
        <4> HIDE DEF j
        <4> QED
          BY <1>4, <3>1
      <3> QED
        BY <2>1, <2>4, <3>2, <3>3, <1>6
    <2> QED
      BY <2>2, <2>3, <2>4, <1>6
  <1>9. ASSUME k > 0 PROVE SeedHash(e) = batch[k]
    <2>1. e # <<>> /\ e[Len(e)] = lines[k]
      BY <1>6, <1>9, EmptySeq
    <2> QED
      BY <2>1, <1>4, <1>6, <1>9, SeedOfLines
  <1>10. Verifies(e)
    BY <1>8 DEF Verifies
  <1>11. \A i \in 1 .. Len(d) : e[i] = d[i]
    BY <1>6
  <1>12. ASSUME NEW i \in 1 .. k PROVE e[Len(d) + i].rec = batch[i]
    <2>1. e[Len(d) + i] = lines[i]
      BY <1>6
    <2> QED
      BY <1>4, <2>1
  <1> QED
    BY <1>6, <1>9, <1>10, <1>11, <1>12 DEF e, all, base

\* Without a sentinel the flusher takes the whole queue.
LEMMA WholeQueue ==
  ASSUME NEW q \in Seq(Records)
  PROVE  BatchLen(q) = Len(q)
  <1>1. \A i \in 1 .. Len(q) : q[i] # Sentinel
    BY LoggerAssumption, ElementOfSeq DEF LoggerAssumption
  <1>2. Len(q) \in Nat
    BY LenProperties
  <1> DEFINE P(n) == (\A i \in 1 .. n : q[i] # Sentinel) /\ (n < Len(q) => q[n + 1] = Sentinel)
  <1>3. P(Len(q)) /\ Len(q) \in 0 .. Len(q)
    BY <1>1, <1>2
  <1>4. \A n \in 0 .. Len(q) : P(n) => n = Len(q)
    BY <1>1, <1>2
  <1> QED
    BY <1>3, <1>4 DEF BatchLen

----------------------------------------------------------------------------

\* The initial states satisfy the inductive invariant.
LEMMA InitChain == Init => ChainInv
  <1> SUFFICES ASSUME Init PROVE ChainInv
    OBVIOUS
  <1>1. FlType
    BY Zenon, EmptySeq DEF Init, FlType, Idle, Hashes
  <1>2. FileOK
    BY EmptySeq DEF Init, FileOK, Verifies, SeedHash
  <1>3. NoClose /\ WriterOK
    BY EmptySeq DEF Init, NoClose, WriterOK, Running, Idle
  <1> QED
    BY <1>1, <1>2, <1>3 DEF ChainInv

\* A flusher that starts, or comes back to the queue, has nothing in its hands.
LEMMA FreshFlusher ==
  LET fresh == [Idle EXCEPT !.pc = "get"]
  IN  /\ fresh.pc = "get" /\ fresh.batch = <<>> /\ fresh.stop = FALSE
      /\ fresh \in [pc : {"none", "get", "open", "write"}, batch : Seq(Records),
                     stop : BOOLEAN, base : Hashes]
  BY EmptySeq DEF Idle, Hashes

\* A call of log() queues a record and wakes at most the one flusher.
LEMMA LogKeeps ==
  ASSUME ChainInv, NEW r \in Records, Log(r)
  PROVE  ChainInv'
  <1>1. queue' \in Seq(Records)
    BY AppendProperties DEF ChainInv, NoClose, Log
  <1>2. FileOK'
    BY DEF ChainInv, FileOK, Log
  <1>3. CASE ~NeedsFlusher
    <2>1. fl' = fl /\ task' = task
      BY <1>3 DEF Log, EnsureFlusher
    <2> QED
      BY <1>1, <1>2, <2>1 DEF ChainInv, FlType, NoClose, WriterOK, Running, FileOK, Log
  <1>4. CASE NeedsFlusher
    <2>1. PICK f \in Flushers :
             /\ task' = f
             /\ fl' = [fl EXCEPT ![f] = [Idle EXCEPT !.pc = "get"]]
      BY <1>4 DEF Log, EnsureFlusher
    <2>2. \A g \in Flushers : ~Running(g)
      BY <1>4, LoggerAssumption DEF ChainInv, WriterOK, NeedsFlusher, LoggerAssumption
    <2>3. \A g \in Flushers : fl'[g] = IF g = f THEN [Idle EXCEPT !.pc = "get"] ELSE fl[g]
      BY <2>1 DEF ChainInv, FlType
    <2>4. FlType'
      BY <2>1, FreshFlusher DEF ChainInv, FlType
    <2>5. NoClose'
      BY <1>1, <2>3, FreshFlusher DEF ChainInv, NoClose, Log
    <2>6. WriterOK'
      BY <2>1, <2>2, <2>3, FreshFlusher, EmptySeq DEF ChainInv, WriterOK, Running
    <2> QED
      BY <1>2, <2>4, <2>5, <2>6 DEF ChainInv
  <1> QED
    BY <1>3, <1>4

\* Without a sentinel the whole queue becomes the flusher's batch.
LEMMA TakesAll ==
  ASSUME ChainInv, NEW f \in Flushers, TakeBatch(f)
  PROVE  /\ queue \in Seq(Records) /\ queue # <<>> /\ queue' = <<>>
         /\ fl' = [fl EXCEPT ![f] = [@ EXCEPT !.pc = "open", !.batch = queue, !.stop = FALSE]]
         /\ \A g \in Flushers : g # f => fl'[g] = fl[g]
         /\ fl'[f].pc = "open" /\ fl'[f].batch = queue /\ fl'[f].stop = FALSE
  <1>1. queue \in Seq(Records) /\ queue # <<>> /\ BatchLen(queue) = Len(queue)
    BY WholeQueue DEF ChainInv, NoClose, TakeBatch
  <1>2. Len(queue) \in Nat \ {0}
    BY <1>1, EmptySeq
  <1>3. SubSeq(queue, 1, Len(queue)) = queue /\ SubSeq(queue, Len(queue) + 1, Len(queue)) = <<>>
    BY <1>1, <1>2, SubSeqFull, SubSeqEmpty
  <1>4. (BatchLen(queue) < Len(queue)) = FALSE /\ BatchLen(queue) # 0
    BY <1>1, <1>2
  <1>5. queue' = <<>>
    BY <1>1, <1>4, <1>3, Zenon DEF TakeBatch
  <1>6. fl' = [fl EXCEPT ![f] = [@ EXCEPT !.pc = "open", !.batch = queue, !.stop = FALSE]]
    BY <1>1, <1>4, <1>3, Zenon DEF TakeBatch
  <1> QED
    BY <1>1, <1>5, <1>6 DEF ChainInv, FlType

\* The flusher takes a batch, which without a sentinel is never empty.
LEMMA TakeKeeps ==
  ASSUME ChainInv, NEW f \in Flushers, TakeBatch(f)
  PROVE  ChainInv'
  <1>1. FlType'
    <2>1. queue \in Seq(Records)
      BY TakesAll
    <2>2. fl' = [fl EXCEPT ![f] = [@ EXCEPT !.pc = "open", !.batch = queue, !.stop = FALSE]]
      BY TakesAll, Zenon
    <2> QED
      BY <2>1, <2>2 DEF ChainInv, FlType
  <1>2. FileOK'
    BY DEF ChainInv, FileOK, TakeBatch
  <1>3. NoClose'
    BY TakesAll, EmptySeq DEF ChainInv, NoClose, TakeBatch
  <1>4. Running(f)
    BY DEF TakeBatch, Running
  <1>5. WriterOK'
    BY TakesAll, <1>4 DEF ChainInv, WriterOK, Running, TakeBatch
  <1> QED
    BY <1>1, <1>2, <1>3, <1>5 DEF ChainInv

\* The batch is signed from the head of the chain.
LEMMA SignKeeps ==
  ASSUME ChainInv, NEW f \in Flushers, SignBatch(f)
  PROVE  ChainInv'
  <1>1. prev \in Hashes
    BY SeedOfLines DEF ChainInv, FileOK
  <1>2. \A g \in Flushers :
           /\ g # f => fl'[g] = fl[g]
           /\ fl'[f].pc = "write" /\ fl'[f].base = prev
           /\ fl'[f].batch = fl[f].batch /\ fl'[f].stop = fl[f].stop
    BY DEF ChainInv, FlType, SignBatch
  <1>3. FlType'
    BY <1>1 DEF ChainInv, FlType, SignBatch
  <1>4. FileOK' /\ NoClose'
    BY <1>2 DEF ChainInv, FileOK, NoClose, SignBatch
  <1>5. WriterOK'
    BY <1>2 DEF ChainInv, WriterOK, Running, SignBatch
  <1> QED
    BY <1>3, <1>4, <1>5 DEF ChainInv

\* After a batch the flusher is back at the queue, with nothing in its hands.
LEMMA ResumeKeeps ==
  ASSUME ChainInv, NEW f \in Flushers, Running(f), Resume(f),
         UNCHANGED <<queue, task, closer, closes>>
  PROVE  FlType' /\ NoClose' /\ WriterOK'
  <1>1. fl' = [fl EXCEPT ![f] = [Idle EXCEPT !.pc = "get"]]
    BY DEF ChainInv, NoClose, Resume
  <1>2. FlType'
    BY <1>1, FreshFlusher DEF ChainInv, FlType
  <1>3. \A g \in Flushers : fl'[g] = IF g = f THEN [Idle EXCEPT !.pc = "get"] ELSE fl[g]
    BY <1>1 DEF ChainInv, FlType
  <1>4. \A g \in Flushers : g # f => ~Running(g)
    BY DEF ChainInv, WriterOK
  <1> QED
    BY <1>2, <1>3, <1>4, FreshFlusher, EmptySeq DEF ChainInv, NoClose, WriterOK, Running

\* A batch that went through extends the chain and moves its head.
LEMMA WriteOkKeeps ==
  ASSUME ChainInv, NEW f \in Flushers, WriteOk(f)
  PROVE  ChainInv'
  <1> DEFINE b == fl[f].batch
  <1>1. b \in Seq(Records) /\ b # <<>> /\ fl[f].base = SeedHash(disk)
    BY DEF ChainInv, WriterOK, FileOK, WriteOk
  <1>2. Len(b) \in 0 .. Len(b) /\ Len(b) > 0
    BY <1>1, EmptySeq
  <1>3. disk \in Seq(Lines) /\ Verifies(disk)
    BY DEF ChainInv, FileOK
  <1>4. Signed(SeedHash(disk), b) \in Seq(Lines) /\ Len(Signed(SeedHash(disk), b)) = Len(b)
    BY <1>1, <1>3, SeedOfLines, SignedLines
  <1>5. disk' = UpTo(disk, Signed(SeedHash(disk), b), Len(b))
    <2>1. SubSeq(Signed(SeedHash(disk), b), 1, Len(b)) = Signed(SeedHash(disk), b)
      BY <1>4, SubSeqFull
    <2> QED
      BY <1>1, <2>1 DEF WriteOk, UpTo
  <1>6. prev' = b[Len(b)]
    BY DEF WriteOk, NewHead, Last
  <1> HIDE DEF b
  <1>7. FileOK'
    BY <1>1, <1>2, <1>3, <1>5, <1>6, AppendKeepsChain DEF FileOK
  <1>8. Running(f) /\ Resume(f) /\ UNCHANGED <<queue, task, closer, closes>>
    BY DEF WriteOk, Running
  <1> QED
    BY <1>7, <1>8, ResumeKeeps DEF ChainInv

\* A write that failed and left nothing behind moves neither file nor head.
LEMMA WriteFailsKeeps ==
  ASSUME ~PartialWrites, ChainInv, NEW f \in Flushers, WriteFails(f)
  PROVE  ChainInv'
  <1>1. FileOK'
    BY DEF ChainInv, FileOK, WriteFails, HeadOnFailure
  <1>2. Running(f) /\ Resume(f) /\ UNCHANGED <<queue, task, closer, closes>>
    BY DEF WriteFails, Running
  <1> QED
    BY <1>1, <1>2, ResumeKeeps DEF ChainInv

\* Whatever whole lines a crash leaves are a chain, and the next process takes
\* its head from them.
LEMMA RestartKeeps ==
  ASSUME ~PartialWrites, ChainInv, Restart
  PROVE  ChainInv'
  <1> DEFINE Good(d) == d \in Seq(Lines) /\ Verifies(d)
             writing == {f \in Flushers : fl[f].pc = "write"}
             landed  == {disk} \union
                        UNION {Interrupted(disk, Signed(fl[f].base, fl[f].batch)) : f \in writing}
  <1>1. Good(disk)
    BY DEF ChainInv, FileOK
  <1>2. ASSUME NEW f \in writing, NEW d \in Interrupted(disk, Signed(fl[f].base, fl[f].batch))
        PROVE  Good(d)
    <2>1. fl[f].batch \in Seq(Records) /\ fl[f].base = SeedHash(disk)
      BY DEF ChainInv, WriterOK, FileOK
    <2>2. Len(Signed(SeedHash(disk), fl[f].batch)) = Len(fl[f].batch)
      BY <1>1, <2>1, SeedOfLines, SignedLines
    <2>3. PICK k \in 0 .. Len(fl[f].batch) : d = UpTo(disk, Signed(SeedHash(disk), fl[f].batch), k)
      BY <2>1, <2>2 DEF Interrupted
    <2> QED
      BY <1>1, <2>1, <2>3, AppendKeepsChain
  <1>3. \A d \in landed : Good(d)
    BY <1>1, <1>2
  <1>4. Good(disk')
    <2>1. disk' \in IF PowerLoss THEN UNION {{SubSeq(d, 1, k) : k \in 0 .. Len(d)} : d \in landed}
                    ELSE landed
      BY DEF Restart, AfterDeath
    <2> HIDE DEF landed
    <2>2. CASE PowerLoss
      <3>1. PICK d \in landed : \E k \in 0 .. Len(d) : disk' = SubSeq(d, 1, k)
        BY <2>1, <2>2
      <3> QED
        BY <3>1, <1>3, PrefixVerifies
    <2>3. CASE ~PowerLoss
      BY <2>1, <2>3, <1>3
    <2> QED
      BY <2>2, <2>3
  <1>5. FileOK'
    BY <1>4 DEF FileOK, Restart
  <1>6. fl' = [f \in Flushers |-> Idle] /\ queue' = <<>> /\ closer' = NoTask /\ closes' = closes
    BY DEF Restart
  <1>7. FlType'
    BY <1>6, EmptySeq DEF FlType, Idle, Hashes
  <1>8. NoClose' /\ WriterOK'
    BY <1>6, EmptySeq DEF ChainInv, NoClose, WriterOK, Running, Idle
  <1> QED
    BY <1>5, <1>7, <1>8 DEF ChainInv

\* Every step keeps the chain.
LEMMA NextChain ==
  ASSUME ~PartialWrites, MaxCloses = 0
  PROVE  ChainInv /\ [Next]_vars => ChainInv'
  <1> SUFFICES ASSUME ChainInv, [Next]_vars PROVE ChainInv'
    OBVIOUS
  <1>1. ASSUME NEW r \in Records, Log(r) PROVE ChainInv'
    BY <1>1, LogKeeps
  <1>2. ASSUME NEW f \in Flushers,
               TakeBatch(f) \/ SignBatch(f) \/ WriteOk(f) \/ WriteFails(f)
        PROVE  ChainInv'
    BY <1>2, TakeKeeps, SignKeeps, WriteOkKeeps, WriteFailsKeeps
  <1>3. ~CloseBegin /\ ~CloseEnd
    BY DEF ChainInv, NoClose, CloseBegin, CloseEnd
  <1>4. ASSUME Restart PROVE ChainInv'
    BY <1>4, RestartKeeps
  <1>5. ASSUME UNCHANGED vars PROVE ChainInv'
    BY <1>5 DEF vars, ChainInv, FlType, FileOK, NoClose, WriterOK, Running
  <1> QED
    BY <1>1, <1>2, <1>3, <1>4, <1>5 DEF Next

----------------------------------------------------------------------------

\* The inductive invariant holds in every reachable state.
LEMMA ChainInductive ==
  ASSUME ~PartialWrites, MaxCloses = 0
  PROVE  Spec => []ChainInv
  <1>1. ChainInv /\ [Next]_vars => ChainInv'
    BY NextChain
  <1> QED
    BY <1>1, InitChain, PTL DEF Spec

\* The log passes `guardmcp audit verify` at every moment, through failed
\* writes, crashes and restarts.
THEOREM ChainCorrect ==
  ASSUME ~PartialWrites, MaxCloses = 0
  PROVE  Spec => []ChainVerifies
  <1>1. ChainInv => ChainVerifies
    BY DEF ChainInv, FileOK, ChainVerifies
  <1> QED
    BY <1>1, ChainInductive, PTL

\* A single flusher signs, as the module's header says.
THEOREM OneWriter ==
  ASSUME ~PartialWrites, MaxCloses = 0
  PROVE  Spec => []SingleWriter
  <1>1. ChainInv => SingleWriter
    BY DEF ChainInv, WriterOK, SingleWriter
  <1> QED
    BY <1>1, ChainInductive, PTL

----------------------------------------------------------------------------
(* What the callers were told.                                             *)

\* x, or x and later y, stand in the sequence s.
Logged(s, x) == \E k \in 1 .. Len(s) : s[k] = x

Before(s, x, y) == \E k, l \in 1 .. Len(s) : k < l /\ s[k] = x /\ s[l] = y

\* f holds a batch.
InHand(f) == fl[f].pc \in {"open", "write"}

\* File, batch in hand and queue, in this order, are in the order of the calls.
StreamInv ==
    /\ order \in Seq(Records) /\ DOMAIN call = Records
    /\ \A k, l \in 1 .. Len(order) : order[k] = order[l] => k = l
    /\ \A k \in 1 .. Len(order) : call[order[k]] # "idle"
    /\ \A i \in 1 .. Len(disk) : Logged(order, disk[i].rec) /\ call[disk[i].rec] \in {"ok", "died"}
    /\ \A i, j \in 1 .. Len(disk) : i < j => Before(order, disk[i].rec, disk[j].rec)
    /\ \A i \in 1 .. Len(queue) : Logged(order, queue[i]) /\ call[queue[i]] = "waiting"
    /\ \A i, j \in 1 .. Len(queue) : i < j => Before(order, queue[i], queue[j])
    /\ \A i \in 1 .. Len(disk), j \in 1 .. Len(queue) : Before(order, disk[i].rec, queue[j])
    /\ \A f \in Flushers : InHand(f) =>
          LET b == fl[f].batch IN
          /\ \A i \in 1 .. Len(b) : Logged(order, b[i]) /\ call[b[i]] = "waiting"
          /\ \A i, j \in 1 .. Len(b) : i < j => Before(order, b[i], b[j])
          /\ \A i \in 1 .. Len(disk), j \in 1 .. Len(b) : Before(order, disk[i].rec, b[j])
          /\ \A i \in 1 .. Len(b), j \in 1 .. Len(queue) : Before(order, b[i], queue[j])

\* Who was told of a success under fail_closed has its record in the file.
ToldInv == FailClosed => \A r \in Records : call[r] = "ok" => OnDisk(r)

\* No record is logged twice, so none comes before itself.
LEMMA OnceLogged == StreamInv => \A x : ~Before(order, x, x)
  BY DEF StreamInv, Before

\* Nothing is logged yet, and nobody was told anything.
LEMMA InitStream == Init => StreamInv /\ ToldInv
  <1> SUFFICES ASSUME Init PROVE StreamInv /\ ToldInv
    OBVIOUS
  <1>1. Len(queue) = 0 /\ Len(disk) = 0 /\ Len(order) = 0 /\ order \in Seq(Records)
    BY EmptySeq DEF Init
  <1>2. \A f \in Flushers : ~InHand(f)
    BY DEF Init, InHand, Idle
  <1> QED BY <1>1, <1>2 DEF Init, StreamInv, ToldInv

\* What stands in the file, the queue and the order of the calls are records.
LEMMA AllRecords ==
  ASSUME ChainInv, StreamInv
  PROVE  /\ queue \in Seq(Records) /\ \A i \in 1 .. Len(queue) : queue[i] \in Records
         /\ disk \in Seq(Lines) /\ \A i \in 1 .. Len(disk) : disk[i].rec \in Records
         /\ order \in Seq(Records) /\ \A i \in 1 .. Len(order) : order[i] \in Records
  <1>1. queue \in Seq(Records) /\ disk \in Seq(Lines) /\ order \in Seq(Records)
    BY DEF ChainInv, NoClose, FileOK, StreamInv
  <1>2. \A i \in 1 .. Len(queue) : queue[i] \in Records
    BY <1>1, ElementOfSeq
  <1>3. \A i \in 1 .. Len(disk) : disk[i] \in Lines
    BY <1>1, ElementOfSeq
  <1>4. \A i \in 1 .. Len(order) : order[i] \in Records
    BY <1>1, ElementOfSeq
  <1> QED BY <1>1, <1>2, <1>3, <1>4 DEF Lines

\* A record is queued behind all that were logged.
LEMMA LogStreams ==
  ASSUME ChainInv, ChainInv', StreamInv, NEW r \in Records, Log(r)
  PROVE  StreamInv'
  <1> DEFINE n == Len(order)
             m == Len(queue)
  <1>1. n \in Nat /\ Len(order') = n + 1 /\ order'[n + 1] = r /\ (\A k \in 1 .. n : order'[k] = order[k])
        /\ order' \in Seq(Records)
    BY DEF Log, StreamInv
  <1>2. m \in Nat /\ Len(queue') = m + 1 /\ queue'[m + 1] = r /\ \A k \in 1 .. m : queue'[k] = queue[k]
    BY DEF Log, ChainInv, NoClose
  <1>3. /\ \A x : Logged(order, x) => Logged(order', x) /\ Before(order', x, r)
        /\ \A x, y : Before(order, x, y) => Before(order', x, y)
        /\ Logged(order', r)
    BY <1>1 DEF Logged, Before
  <1>4. DOMAIN call' = Records /\ call'[r] = "waiting" /\ (\A x : x # r => call'[x] = call[x]) /\ call[r] = "idle"
    BY DEF Log, StreamInv
  <1>5. \A f \in Flushers : InHand(f)' => InHand(f) /\ fl'[f] = fl[f]
    BY DEF Log, EnsureFlusher, InHand, Idle, ChainInv, FlType
  <1>6. disk' = disk
    BY DEF Log
  <1> HIDE DEF n, m
  <1>7. \A i \in 1 .. m + 1 : i = m + 1 \/ i \in 1 .. m
    BY <1>2
  <1>8. /\ \A i \in 1 .. Len(disk) : Logged(order', disk[i].rec) /\ call'[disk[i].rec] \in {"ok", "died"}
        /\ \A i, j \in 1 .. Len(disk) : i < j => Before(order', disk[i].rec, disk[j].rec)
    BY <1>3, <1>4 DEF StreamInv
  <1>9. /\ \A i \in 1 .. m + 1 : Logged(order', queue'[i]) /\ call'[queue'[i]] = "waiting"
        /\ \A i, j \in 1 .. m + 1 : i < j => Before(order', queue'[i], queue'[j])
        /\ \A i \in 1 .. Len(disk), j \in 1 .. m + 1 : Before(order', disk[i].rec, queue'[j])
    BY <1>2, <1>3, <1>4, <1>7 DEF StreamInv, m
  <1>10. ASSUME NEW f \in Flushers, InHand(f)
         PROVE  LET b == fl[f].batch IN
                /\ \A i \in 1 .. Len(b) : Logged(order', b[i]) /\ call'[b[i]] = "waiting"
                /\ \A i, j \in 1 .. Len(b) : i < j => Before(order', b[i], b[j])
                /\ \A i \in 1 .. Len(disk), j \in 1 .. Len(b) : Before(order', disk[i].rec, b[j])
                /\ \A i \in 1 .. Len(b), j \in 1 .. m + 1 : Before(order', b[i], queue'[j])
    BY <1>2, <1>3, <1>4, <1>7, <1>10 DEF StreamInv, m
  <1>11. /\ \A k, l \in 1 .. n + 1 : order'[k] = order'[l] => k = l
         /\ \A k \in 1 .. n + 1 : call'[order'[k]] # "idle"
    <2>1. \A k \in 1 .. n + 1 : k = n + 1 \/ k \in 1 .. n
      BY <1>1
    <2>2. /\ \A k, l \in 1 .. n : order[k] = order[l] => k = l
          /\ \A k \in 1 .. n : order[k] # r /\ call[order[k]] # "idle"
      BY <1>4 DEF StreamInv, n
    <2> QED BY <1>1, <1>4, <2>1, <2>2
  <1>12. ASSUME NEW f \in Flushers, InHand(f)'
         PROVE  LET b == fl'[f].batch IN
                /\ \A i \in 1 .. Len(b) : Logged(order', b[i]) /\ call'[b[i]] = "waiting"
                /\ \A i, j \in 1 .. Len(b) : i < j => Before(order', b[i], b[j])
                /\ \A i \in 1 .. Len(disk'), j \in 1 .. Len(b) : Before(order', disk'[i].rec, b[j])
                /\ \A i \in 1 .. Len(b), j \in 1 .. Len(queue') : Before(order', b[i], queue'[j])
    <2>1. InHand(f) /\ fl'[f] = fl[f]
      BY <1>5, <1>12
    <2> QED BY <1>2, <1>6, <1>10, <2>1
  <1>13. Len(order') = n + 1 /\ Len(queue') = m + 1
    BY <1>1, <1>2
  <1> HIDE DEF InHand
  <1> QED BY <1>1, <1>4, <1>6, <1>8, <1>9, <1>11, <1>12, <1>13 DEF StreamInv

\* The whole queue becomes the batch.
LEMMA TakeStreams ==
  ASSUME ChainInv, StreamInv, NEW f \in Flushers, TakeBatch(f)
  PROVE  StreamInv'
  <1>1. UNCHANGED <<order, call, disk>>
    BY DEF TakeBatch
  <1>2. \A x, y : (Logged(order', x) <=> Logged(order, x)) /\ (Before(order', x, y) <=> Before(order, x, y))
    BY <1>1 DEF Logged, Before
  <1>3. queue' = <<>> /\ fl'[f].batch = queue /\ \A g \in Flushers : g # f => fl'[g] = fl[g]
    BY TakesAll
  <1>4. \A g \in Flushers : g # f => ~InHand(g)
    BY DEF TakeBatch, ChainInv, WriterOK, Running, InHand
  <1>5. \A g \in Flushers : InHand(g)' => g = f
    BY <1>3, <1>4 DEF InHand
  <1>6. Len(queue') = 0
    BY <1>3, EmptySeq
  <1> QED BY <1>1, <1>2, <1>3, <1>5, <1>6 DEF StreamInv

\* Signing the batch in hand moves nothing.
LEMMA SignStreams ==
  ASSUME ChainInv, StreamInv, NEW f \in Flushers, SignBatch(f)
  PROVE  StreamInv'
  <1>1. UNCHANGED <<order, call, disk, queue>>
    BY DEF SignBatch
  <1>2. \A g \in Flushers : fl'[g].batch = fl[g].batch /\ (InHand(g)' => InHand(g))
    BY DEF SignBatch, ChainInv, FlType, InHand
  <1>3. ASSUME NEW g \in Flushers, InHand(g)'
        PROVE  LET b == fl'[g].batch IN
               /\ \A i \in 1 .. Len(b) : Logged(order', b[i]) /\ call'[b[i]] = "waiting"
               /\ \A i, j \in 1 .. Len(b) : i < j => Before(order', b[i], b[j])
               /\ \A i \in 1 .. Len(disk'), j \in 1 .. Len(b) : Before(order', disk'[i].rec, b[j])
               /\ \A i \in 1 .. Len(b), j \in 1 .. Len(queue') : Before(order', b[i], queue'[j])
    <2>1. InHand(g) /\ fl'[g].batch = fl[g].batch
      BY <1>2, <1>3
    <2>2. LET b == fl[g].batch IN
          /\ \A i \in 1 .. Len(b) : Logged(order, b[i]) /\ call[b[i]] = "waiting"
          /\ \A i, j \in 1 .. Len(b) : i < j => Before(order, b[i], b[j])
          /\ \A i \in 1 .. Len(disk), j \in 1 .. Len(b) : Before(order, disk[i].rec, b[j])
          /\ \A i \in 1 .. Len(b), j \in 1 .. Len(queue) : Before(order, b[i], queue[j])
      BY <2>1 DEF StreamInv
    <2> QED BY <1>1, <2>1, <2>2
  <1> QED BY <1>1, <1>3 DEF StreamInv

\* The batch in hand goes to the file, whole or, at a death, its first k records.
LEMMA DiskGrows ==
  ASSUME ChainInv, StreamInv, NEW f \in Flushers, fl[f].pc = "write",
         NEW k \in 0 .. Len(fl[f].batch),
         disk' = UpTo(disk, Signed(fl[f].base, fl[f].batch), k), UNCHANGED order
  PROVE  /\ \A i \in 1 .. Len(disk') : Logged(order', disk'[i].rec)
                /\ \/ \E j \in 1 .. Len(disk) : disk'[i].rec = disk[j].rec
                   \/ \E j \in 1 .. Len(fl[f].batch) : disk'[i].rec = fl[f].batch[j]
         /\ \A i, j \in 1 .. Len(disk') : i < j => Before(order', disk'[i].rec, disk'[j].rec)
         /\ \A i \in 1 .. Len(disk'), j \in 1 .. Len(queue) : Before(order', disk'[i].rec, queue[j])
         /\ \A j \in 1 .. Len(disk) : \E i \in 1 .. Len(disk') : disk'[i].rec = disk[j].rec
         /\ \A j \in 1 .. k : \E i \in 1 .. Len(disk') : disk'[i].rec = fl[f].batch[j]
  <1> DEFINE b == fl[f].batch
             n == Len(disk)
  <1>1. b \in Seq(Records) /\ fl[f].base = SeedHash(disk) /\ disk \in Seq(Lines) /\ Verifies(disk)
    BY DEF ChainInv, WriterOK, FileOK
  <1>2. /\ Len(disk') = n + k
        /\ \A i \in 1 .. n : disk'[i] = disk[i]
        /\ \A i \in 1 .. k : disk'[n + i].rec = b[i]
    <2> DEFINE e == UpTo(disk, Signed(SeedHash(disk), b), k)
    <2>1. disk' = e
      BY <1>1
    <2>2. /\ Len(e) = n + k
          /\ \A i \in 1 .. n : e[i] = disk[i]
          /\ \A i \in 1 .. k : e[n + i].rec = b[i]
      BY <1>1, AppendKeepsChain
    <2> HIDE DEF e
    <2> QED BY <2>1, <2>2
  <1>3. n \in Nat /\ k \in Nat /\ k <= Len(b) /\ Len(b) \in Nat
    BY <1>1
  <1>4. \A i \in 1 .. n + k : i \in 1 .. n \/ (i - n \in 1 .. k /\ i = n + (i - n) /\ i - n \in 1 .. Len(b))
    BY <1>3
  <1>5. \A x, y : (Logged(order', x) <=> Logged(order, x)) /\ (Before(order', x, y) <=> Before(order, x, y))
    BY DEF Logged, Before
  <1>6. InHand(f)
    BY DEF InHand
  <1>7. /\ \A i \in 1 .. n : Logged(order, disk[i].rec)
        /\ \A i, j \in 1 .. n : i < j => Before(order, disk[i].rec, disk[j].rec)
        /\ \A i \in 1 .. n, j \in 1 .. Len(queue) : Before(order, disk[i].rec, queue[j])
        /\ \A i \in 1 .. Len(b) : Logged(order, b[i])
        /\ \A i, j \in 1 .. Len(b) : i < j => Before(order, b[i], b[j])
        /\ \A i \in 1 .. n, j \in 1 .. Len(b) : Before(order, disk[i].rec, b[j])
        /\ \A i \in 1 .. Len(b), j \in 1 .. Len(queue) : Before(order, b[i], queue[j])
    BY <1>6 DEF StreamInv
  <1> HIDE DEF b, n
  <1>8. \A i \in 1 .. n + k :
           \/ i \in 1 .. n /\ disk'[i].rec = disk[i].rec
           \/ i > n /\ i - n \in 1 .. Len(b) /\ disk'[i].rec = b[i - n]
    BY <1>2, <1>3, <1>4
  <1>9. \A i, j \in 1 .. n + k : i < j => Before(order', disk'[i].rec, disk'[j].rec)
    <2> SUFFICES ASSUME NEW i \in 1 .. n + k, NEW j \in 1 .. n + k, i < j
                 PROVE  Before(order, disk'[i].rec, disk'[j].rec)
      BY <1>5
    <2>1. CASE i \in 1 .. n /\ disk'[i].rec = disk[i].rec
      BY <1>3, <1>7, <1>8, <2>1
    <2>2. CASE i > n /\ i - n \in 1 .. Len(b) /\ disk'[i].rec = b[i - n]
      <3>1. j > n /\ i - n < j - n
        BY <1>3, <2>2
      <3>2. j - n \in 1 .. Len(b) /\ disk'[j].rec = b[j - n]
        BY <1>3, <1>8, <3>1
      <3> QED BY <1>7, <2>2, <3>1, <3>2
    <2> QED BY <1>8, <2>1, <2>2
  <1>10. /\ \A i \in 1 .. n + k : Logged(order', disk'[i].rec)
         /\ \A i \in 1 .. n + k, j \in 1 .. Len(queue) : Before(order', disk'[i].rec, queue[j])
    BY <1>5, <1>7, <1>8
  <1>11. /\ \A j \in 1 .. n : j \in 1 .. n + k /\ disk'[j].rec = disk[j].rec
         /\ \A j \in 1 .. k : n + j \in 1 .. n + k /\ disk'[n + j].rec = b[j]
    BY <1>2, <1>3
  <1> QED BY <1>2, <1>8, <1>9, <1>10, <1>11 DEF b, n

\* A batch comes to its end, in the file or not.
LEMMA BatchStreams ==
  ASSUME ~PartialWrites, ChainInv, StreamInv, ToldInv, NEW f \in Flushers, WriteOk(f) \/ WriteFails(f)
  PROVE  StreamInv' /\ ToldInv'
  <1> DEFINE b == fl[f].batch
  <1>1. InHand(f) /\ UNCHANGED <<queue, order>> /\ Resume(f) /\ b \in Seq(Records)
    BY DEF WriteOk, WriteFails, InHand, ChainInv, WriterOK
  <1>2. \A g \in Flushers : ~InHand(g)'
    <2>1. \A g \in Flushers : g # f => fl'[g] = fl[g] /\ ~InHand(g)
      BY <1>1 DEF Resume, ChainInv, FlType, WriterOK, Running, InHand
    <2>2. fl'[f] = Idle \/ fl'[f] = [Idle EXCEPT !.pc = "get"]
      BY <1>1 DEF Resume, ChainInv, FlType
    <2> QED BY <2>1, <2>2 DEF InHand, Idle
  <1>3. InBatch(f) = {b[i] : i \in 1 .. Len(b)}
    BY <1>1 DEF InBatch
  <1>4. \A x \in InBatch(f) : call[x] = "waiting" /\ x \in Records
    BY <1>1, <1>3, ElementOfSeq DEF StreamInv
  <1>5. \A i \in 1 .. Len(queue) : queue[i] \notin InBatch(f)
    BY <1>1, <1>3, OnceLogged DEF StreamInv
  <1>6. \A i \in 1 .. Len(disk) : disk[i].rec \notin InBatch(f)
    BY <1>4 DEF StreamInv
  <1>7. DOMAIN call' = Records /\ \A x \in Records : x \notin InBatch(f) => call'[x] = call[x]
    BY DEF WriteOk, WriteFails, Answer, StreamInv
  <1>8. \A x \in InBatch(f) : call'[x] \in {"ok", "failed"} /\ (WriteOk(f) => call'[x] = "ok")
    BY <1>4 DEF WriteOk, WriteFails, Answer, FailureAnswer
  <1>9. \A x, y : (Logged(order', x) <=> Logged(order, x)) /\ (Before(order', x, y) <=> Before(order, x, y))
    BY <1>1 DEF Logged, Before
  <1>10. /\ queue \in Seq(Records) /\ \A i \in 1 .. Len(queue) : queue[i] \in Records
         /\ disk \in Seq(Lines) /\ \A i \in 1 .. Len(disk) : disk[i].rec \in Records
         /\ \A k \in 1 .. Len(order) : order[k] \in Records
    BY AllRecords
  <1>11. /\ \A i \in 1 .. Len(queue) : Logged(order', queue[i]) /\ call'[queue[i]] = "waiting"
         /\ \A i, j \in 1 .. Len(queue) : i < j => Before(order', queue[i], queue[j])
         /\ \A k \in 1 .. Len(order) : call'[order[k]] # "idle"
         /\ \A k, l \in 1 .. Len(order) : order[k] = order[l] => k = l
    <2>1. \A i \in 1 .. Len(queue) : Logged(order, queue[i]) /\ call[queue[i]] = "waiting"
      BY DEF StreamInv
    <2>2. \A i \in 1 .. Len(queue) : Logged(order', queue[i]) /\ call'[queue[i]] = "waiting"
      BY <1>5, <1>7, <1>9, <1>10, <2>1
    <2>3. \A i, j \in 1 .. Len(queue) : i < j => Before(order', queue[i], queue[j])
      BY <1>9 DEF StreamInv
    <2>4. \A k \in 1 .. Len(order) : call'[order[k]] # "idle"
      <3>1. \A k \in 1 .. Len(order) : call[order[k]] # "idle"
        BY DEF StreamInv
      <3> QED BY <1>7, <1>8, <1>10, <3>1
    <2> QED BY <2>2, <2>3, <2>4 DEF StreamInv
  <1>12. CASE WriteFails(f)
    <2>1. disk' = disk
      BY <1>12 DEF WriteFails
    <2>2. /\ \A i \in 1 .. Len(disk) : Logged(order', disk[i].rec) /\ call'[disk[i].rec] \in {"ok", "died"}
          /\ \A i, j \in 1 .. Len(disk) : i < j => Before(order', disk[i].rec, disk[j].rec)
          /\ \A i \in 1 .. Len(disk), j \in 1 .. Len(queue) : Before(order', disk[i].rec, queue[j])
      BY <1>6, <1>7, <1>9, <1>10 DEF StreamInv
    <2>3. StreamInv'
      BY <1>1, <1>2, <1>7, <1>11, <2>1, <2>2 DEF StreamInv
    <2>4. ToldInv'
      <3>1. FailClosed => \A x \in InBatch(f) : call'[x] = "failed"
        BY <1>4, <1>12 DEF WriteFails, Answer, FailureAnswer
      <3> QED BY <1>7, <2>1, <3>1 DEF ToldInv, OnDisk
    <2> QED BY <2>3, <2>4
  <1>13. CASE WriteOk(f)
    <2>1. b # <<>> /\ fl[f].base = SeedHash(disk) /\ fl[f].pc = "write"
      BY <1>13 DEF ChainInv, WriterOK, FileOK, WriteOk
    <2>2. disk' = UpTo(disk, Signed(fl[f].base, b), Len(b)) /\ Len(b) \in 0 .. Len(b)
      <3>1. Signed(fl[f].base, b) \in Seq(Lines) /\ Len(Signed(fl[f].base, b)) = Len(b)
        BY <1>1, <1>10, <2>1, SeedOfLines, SignedLines
      <3>2. SubSeq(Signed(fl[f].base, b), 1, Len(b)) = Signed(fl[f].base, b)
        BY <3>1, SubSeqFull
      <3>3. disk' = AppendText(disk, Signed(fl[f].base, b))
        BY <1>13 DEF WriteOk
      <3>4. Len(b) \in 0 .. Len(b)
        BY <1>1
      <3> QED BY <3>2, <3>3, <3>4 DEF UpTo
    <2>3. /\ \A i \in 1 .. Len(disk') : Logged(order', disk'[i].rec)
                /\ \/ \E j \in 1 .. Len(disk) : disk'[i].rec = disk[j].rec
                   \/ \E j \in 1 .. Len(b) : disk'[i].rec = b[j]
          /\ \A i, j \in 1 .. Len(disk') : i < j => Before(order', disk'[i].rec, disk'[j].rec)
          /\ \A i \in 1 .. Len(disk'), j \in 1 .. Len(queue) : Before(order', disk'[i].rec, queue[j])
          /\ \A j \in 1 .. Len(disk) : \E i \in 1 .. Len(disk') : disk'[i].rec = disk[j].rec
          /\ \A j \in 1 .. Len(b) : \E i \in 1 .. Len(disk') : disk'[i].rec = b[j]
      BY <1>1, <2>1, <2>2, DiskGrows
    <2>4. \A i \in 1 .. Len(disk) : call'[disk[i].rec] \in {"ok", "died"}
      BY <1>6, <1>7, <1>10 DEF StreamInv
    <2>5. \A i \in 1 .. Len(disk') : call'[disk'[i].rec] \in {"ok", "died"}
      <3>1. \A j \in 1 .. Len(b) : call'[b[j]] = "ok"
        BY <1>3, <1>8, <1>13
      <3> SUFFICES ASSUME NEW i \in 1 .. Len(disk') PROVE call'[disk'[i].rec] \in {"ok", "died"}
        OBVIOUS
      <3>2. \/ \E j \in 1 .. Len(disk) : disk'[i].rec = disk[j].rec
            \/ \E j \in 1 .. Len(b) : disk'[i].rec = b[j]
        BY <2>3
      <3>3. CASE \E j \in 1 .. Len(disk) : disk'[i].rec = disk[j].rec
        <4>1. PICK j \in 1 .. Len(disk) : disk'[i].rec = disk[j].rec
          BY <3>3
        <4> QED BY <2>4, <4>1
      <3>4. CASE \E j \in 1 .. Len(b) : disk'[i].rec = b[j]
        <4>1. PICK j \in 1 .. Len(b) : disk'[i].rec = b[j]
          BY <3>4
        <4> QED BY <3>1, <4>1
      <3> QED BY <3>2, <3>3, <3>4
    <2>6. StreamInv'
      BY <1>1, <1>2, <1>7, <1>11, <2>3, <2>5 DEF StreamInv
    <2>7. ToldInv'
      <3>1. disk' \in Seq(Lines)
        BY WriteOkKeeps, <1>13 DEF ChainInv, FileOK
      <3>2. DOMAIN disk = 1 .. Len(disk) /\ DOMAIN disk' = 1 .. Len(disk')
        BY <1>10, <3>1
      <3>3. \A x \in Records : OnDisk(x) => OnDisk(x)'
        BY <2>3, <3>2 DEF OnDisk
      <3>4. \A x \in InBatch(f) : OnDisk(x)'
        <4> SUFFICES ASSUME NEW x \in InBatch(f) PROVE \E i \in DOMAIN disk' : disk'[i].rec = x
          BY DEF OnDisk
        <4>1. PICK j \in 1 .. Len(b) : x = b[j]
          BY <1>3
        <4> QED BY <2>3, <3>2, <4>1
      <3> QED BY <1>7, <3>3, <3>4 DEF ToldInv
    <2> QED BY <2>6, <2>7
  <1> QED BY <1>12, <1>13

\* What reached the file before the process died belongs to calls that died.
LEMMA RestartStreams ==
  ASSUME ~PartialWrites, ~PowerLoss, ChainInv, StreamInv, ToldInv, Restart
  PROVE  StreamInv' /\ ToldInv'
  <1>1. order' = order /\ queue' = <<>> /\ fl' = [f \in Flushers |-> Idle]
    BY DEF Restart
  <1>2. \A g \in Flushers : ~InHand(g)'
    BY <1>1 DEF InHand, Idle
  <1>3. \A x, y : (Logged(order', x) <=> Logged(order, x)) /\ (Before(order', x, y) <=> Before(order, x, y))
    BY <1>1 DEF Logged, Before
  <1>4. /\ DOMAIN call' = Records
        /\ \A x \in Records : call'[x] = IF call[x] = "waiting" THEN "died" ELSE call[x]
    BY DEF Restart, Answer
  <1>5. Len(queue') = 0
    BY <1>1, EmptySeq
  <1>6. /\ disk \in Seq(Lines) /\ \A i \in 1 .. Len(disk) : disk[i].rec \in Records
        /\ \A k \in 1 .. Len(order) : order[k] \in Records
    BY AllRecords
  <1>7. /\ \A k \in 1 .. Len(order) : call'[order[k]] # "idle"
        /\ \A k, l \in 1 .. Len(order) : order[k] = order[l] => k = l
        /\ order \in Seq(Records)
    BY <1>4, <1>6 DEF StreamInv
  <1>8. \A i \in 1 .. Len(disk) : call'[disk[i].rec] \in {"ok", "died"}
    BY <1>4, <1>6 DEF StreamInv
  <1>9. \/ disk' = disk
        \/ \E f \in Flushers : /\ fl[f].pc = "write"
                                /\ \E k \in 0 .. Len(fl[f].batch) :
                                      disk' = UpTo(disk, Signed(fl[f].base, fl[f].batch), k)
    <2> DEFINE writing == {f \in Flushers : fl[f].pc = "write"}
    <2>1. CASE disk' = disk
      BY <2>1
    <2>2. CASE \E f \in writing : disk' \in Interrupted(disk, Signed(fl[f].base, fl[f].batch))
      <3>1. PICK f \in writing : disk' \in Interrupted(disk, Signed(fl[f].base, fl[f].batch))
        BY <2>2
      <3>2. fl[f].batch \in Seq(Records) /\ fl[f].base = SeedHash(disk)
        BY DEF ChainInv, WriterOK, FileOK
      <3>3. Len(Signed(fl[f].base, fl[f].batch)) = Len(fl[f].batch)
        BY <1>6, <3>2, SeedOfLines, SignedLines
      <3> QED BY <3>1, <3>3 DEF Interrupted
    <2> QED BY <2>1, <2>2 DEF Restart, AfterDeath
  <1>10. CASE disk' = disk
    <2>1. /\ \A i \in 1 .. Len(disk) : Logged(order', disk[i].rec)
          /\ \A i, j \in 1 .. Len(disk) : i < j => Before(order', disk[i].rec, disk[j].rec)
      BY <1>3 DEF StreamInv
    <2>2. StreamInv'
      BY <1>1, <1>2, <1>4, <1>5, <1>7, <1>8, <1>10, <2>1 DEF StreamInv
    <2>3. ToldInv'
      BY <1>4, <1>10 DEF ToldInv, OnDisk
    <2> QED BY <2>2, <2>3
  <1>11. ASSUME NEW f \in Flushers, fl[f].pc = "write", NEW k \in 0 .. Len(fl[f].batch),
                disk' = UpTo(disk, Signed(fl[f].base, fl[f].batch), k)
         PROVE  StreamInv' /\ ToldInv'
    <2> DEFINE b == fl[f].batch
    <2>1. /\ \A i \in 1 .. Len(disk') : Logged(order', disk'[i].rec)
                /\ \/ \E j \in 1 .. Len(disk) : disk'[i].rec = disk[j].rec
                   \/ \E j \in 1 .. Len(b) : disk'[i].rec = b[j]
          /\ \A i, j \in 1 .. Len(disk') : i < j => Before(order', disk'[i].rec, disk'[j].rec)
          /\ \A j \in 1 .. Len(disk) : \E i \in 1 .. Len(disk') : disk'[i].rec = disk[j].rec
      BY <1>1, <1>11, DiskGrows
    <2>2. InHand(f) /\ b \in Seq(Records)
      BY <1>11 DEF InHand, ChainInv, WriterOK
    <2>3. \A j \in 1 .. Len(b) : call'[b[j]] = "died"
      <3>1. \A j \in 1 .. Len(b) : b[j] \in Records
        BY <2>2, ElementOfSeq
      <3> QED BY <1>4, <2>2, <3>1 DEF StreamInv
    <2>4. \A i \in 1 .. Len(disk') : call'[disk'[i].rec] \in {"ok", "died"}
      BY <1>8, <2>1, <2>3
    <2>5. StreamInv'
      BY <1>1, <1>2, <1>4, <1>5, <1>7, <2>1, <2>4 DEF StreamInv
    <2>6. ToldInv'
      <3>1. disk' \in Seq(Lines)
        BY RestartKeeps DEF ChainInv, FileOK
      <3>2. DOMAIN disk = 1 .. Len(disk) /\ DOMAIN disk' = 1 .. Len(disk')
        BY <1>6, <3>1
      <3>3. \A x \in Records : OnDisk(x) => OnDisk(x)'
        BY <2>1, <3>2 DEF OnDisk
      <3> QED BY <1>4, <3>3 DEF ToldInv
    <2> QED BY <2>5, <2>6
  <1> QED BY <1>9, <1>10, <1>11

\* A step that leaves the file alone, and answers nobody, keeps what was told.
LEMMA ToldUnmoved ==
  ASSUME ToldInv, disk' = disk, DOMAIN call = Records,
         \A r \in Records : call'[r] = "ok" => call[r] = "ok"
  PROVE  ToldInv'
  BY DEF ToldInv, OnDisk

\* Every step keeps the stream and what the callers were told.
LEMMA NextTold ==
  ASSUME ~PartialWrites, MaxCloses = 0, ~PowerLoss
  PROVE  ChainInv /\ StreamInv /\ ToldInv /\ [Next]_vars => ChainInv' /\ StreamInv' /\ ToldInv'
  <1> SUFFICES ASSUME ChainInv, StreamInv, ToldInv, [Next]_vars PROVE ChainInv' /\ StreamInv' /\ ToldInv'
    OBVIOUS
  <1>1. ChainInv'
    BY NextChain
  <1>2. ASSUME NEW r \in Records, Log(r) PROVE StreamInv' /\ ToldInv'
    <2>1. disk' = disk /\ \A x \in Records : call'[x] = "ok" => call[x] = "ok"
      BY <1>2 DEF Log, StreamInv
    <2> QED BY <1>1, <1>2, <2>1, LogStreams, ToldUnmoved DEF StreamInv
  <1>3. ASSUME NEW f \in Flushers, TakeBatch(f) \/ SignBatch(f) PROVE StreamInv' /\ ToldInv'
    <2>1. disk' = disk /\ call' = call
      BY <1>3 DEF TakeBatch, SignBatch
    <2> QED BY <1>3, <2>1, TakeStreams, SignStreams, ToldUnmoved DEF StreamInv
  <1>4. ASSUME NEW f \in Flushers, WriteOk(f) \/ WriteFails(f) PROVE StreamInv' /\ ToldInv'
    BY <1>4, BatchStreams
  <1>5. ~CloseBegin /\ ~CloseEnd
    BY DEF ChainInv, NoClose, CloseBegin, CloseEnd
  <1>6. ASSUME Restart PROVE StreamInv' /\ ToldInv'
    BY <1>6, RestartStreams
  <1>7. ASSUME UNCHANGED vars PROVE StreamInv' /\ ToldInv'
    BY <1>7 DEF vars, StreamInv, ToldInv, InHand, OnDisk
  <1> QED BY <1>1, <1>2, <1>3, <1>4, <1>5, <1>6, <1>7 DEF Next

\* Callers are told the truth about the file: who returned under fail_closed has
\* its record there, who was told of a failure has not, and the file keeps the
\* order of the calls, through failed writes, crashes and restarts.
THEOREM FileTellsTruth ==
  ASSUME ~PartialWrites, MaxCloses = 0, ~PowerLoss
  PROVE  Spec => []FileMatchesCalls
  <1>1. ChainInv /\ StreamInv /\ ToldInv => FileMatchesCalls
    <2> SUFFICES ASSUME ChainInv, StreamInv, ToldInv PROVE FileMatchesCalls
      OBVIOUS
    <2>1. disk \in Seq(Lines) /\ DOMAIN disk = 1 .. Len(disk) /\ DOMAIN order = 1 .. Len(order)
      BY DEF ChainInv, FileOK, StreamInv
    <2>2. OrderPreserved
      <3>1. \A i, j \in 1 .. Len(disk) : i < j => Before(order, disk[i].rec, disk[j].rec)
        BY DEF StreamInv
      <3>2. ASSUME NEW i \in 1 .. Len(disk), NEW j \in 1 .. Len(disk), i < j
            PROVE  \E k, l \in DOMAIN order : k < l /\ order[k] = disk[i].rec /\ order[l] = disk[j].rec
        <4>1. Before(order, disk[i].rec, disk[j].rec)
          BY <3>1, <3>2
        <4> QED BY <2>1, <4>1 DEF Before
      <3> QED BY <2>1, <3>2 DEF OrderPreserved
    <2>3. \A r \in Records : call[r] = "failed" => ~OnDisk(r)
      BY <2>1 DEF StreamInv, OnDisk
    <2> QED BY <2>2, <2>3 DEF FileMatchesCalls, ToldInv
  <1>2. ChainInv /\ StreamInv /\ ToldInv /\ [Next]_vars => (ChainInv /\ StreamInv /\ ToldInv)'
    BY NextTold
  <1>3. Init => ChainInv /\ StreamInv /\ ToldInv
    BY InitChain, InitStream
  <1> QED BY <1>1, <1>2, <1>3, PTL DEF Spec

----------------------------------------------------------------------------
(* Nobody who waits is forgotten, aclose() and torn writes included.        *)

Texts == Lines \union Broken

\* A batch is held from its taking to its end, and only then.
HeldInv ==
    /\ TypeOK
    /\ \A f \in Flushers : fl[f].batch # <<>> <=> InHand(f)
    /\ WaitingIsHeld

\* The text appended to a file of lines and fragments gives one.
LEMMA AppendTyped ==
  ASSUME NEW d \in Seq(Texts), NEW l \in Seq(Texts)
  PROVE  AppendText(d, l) \in Seq(Texts)
  <1>1. CASE l # <<>> /\ d # <<>> /\ d[Len(d)] = Torn
    <2>1. Len(d) \in Nat \ {0} /\ \A i \in 1 .. Len(d) : d[i] \in Texts
      BY <1>1, EmptySeq, ElementOfSeq
    <2>2. SubSeq(d, 1, Len(d) - 1) \in Seq(Texts)
      BY <2>1, SubSeqProperties
    <2>3. Tail(l) \in Seq(Texts)
      BY <1>1, HeadTailProperties
    <2>4. <<Garbage>> \in Seq(Texts)
      BY DEF Texts, Broken
    <2>5. AppendText(d, l) = SubSeq(d, 1, Len(d) - 1) \o <<Garbage>> \o Tail(l)
      BY <1>1, Zenon DEF AppendText
    <2> QED
      BY <2>2, <2>3, <2>4, <2>5, ConcatProperties
  <1>2. CASE ~(l # <<>> /\ d # <<>> /\ d[Len(d)] = Torn)
    <2>1. AppendText(d, l) = d \o l
      BY <1>2, Zenon DEF AppendText
    <2> QED
      BY <2>1, ConcatProperties
  <1> QED
    BY <1>1, <1>2

\* A prefix of a file is a file.
LEMMA PrefixTyped ==
  ASSUME NEW d \in Seq(Texts), NEW k \in 0 .. Len(d)
  PROVE  SubSeq(d, 1, k) \in Seq(Texts)
  <1>1. \A i \in 1 .. k : d[i] \in Texts
    BY ElementOfSeq
  <1> QED
    BY <1>1, SubSeqProperties

\* Whatever an interrupted write leaves is a file.
LEMMA InterruptedTyped ==
  ASSUME NEW d \in Seq(Texts), NEW l \in Seq(Texts), NEW e \in Interrupted(d, l)
  PROVE  e \in Seq(Texts)
  <1>1. \A k \in 0 .. Len(l) : UpTo(d, l, k) \in Seq(Texts)
    BY PrefixTyped, AppendTyped DEF UpTo
  <1>2. <<Torn>> \in Seq(Texts)
    BY DEF Texts, Broken
  <1>3. \A k \in 0 .. Len(l) - 1 : AppendText(UpTo(d, l, k), <<Torn>>) \in Seq(Texts)
    <2>1. \A k \in 0 .. Len(l) - 1 : UpTo(d, l, k) \in Seq(Texts)
      BY <1>1
    <2> QED
      BY <1>2, <2>1, AppendTyped
  <1> QED
    BY <1>1, <1>3 DEF Interrupted

\* What a flusher signs is text.
LEMMA SignedTyped ==
  ASSUME TypeOK, NEW f \in Flushers
  PROVE  Signed(fl[f].base, fl[f].batch) \in Seq(Texts)
  <1>1. Signed(fl[f].base, fl[f].batch) \in Seq(Lines)
    BY SignedLines DEF TypeOK
  <1> QED
    BY <1>1 DEF Texts

\* The signature a start takes from a file is one.
LEMMA SeedTyped ==
  ASSUME NEW d \in Seq(Texts)
  PROVE  SeedHash(d) \in Hashes
  <1>1. CASE d = <<>>
    BY <1>1 DEF SeedHash, Hashes
  <1>2. CASE d # <<>>
    <2>1. d[Len(d)] \in Texts
      BY <1>2, EmptySeq, ElementOfSeq
    <2> QED
      BY <1>2, <2>1 DEF SeedHash, Hashes, Texts, Lines
  <1> QED
    BY <1>1, <1>2

\* Nobody waits at the start.
LEMMA InitHeld == Init => HeldInv
  <1> SUFFICES ASSUME Init PROVE HeldInv
    OBVIOUS
  <1>1. <<>> \in Seq(Records) /\ <<>> \in Seq(Records \union {Sentinel}) /\ <<>> \in Seq(Lines \union Broken)
    BY EmptySeq
  <1>2. TypeOK
    <2>1. fl \in [Flushers -> [pc : {"none", "get", "open", "write"}, batch : Seq(Records),
                               stop : BOOLEAN, base : Hashes]]
      BY <1>1 DEF Init, Idle, Hashes
    <2> QED
      BY <1>1, <2>1, LoggerAssumption DEF Init, TypeOK, Hashes, LoggerAssumption
  <1>3. \A f \in Flushers : fl[f].batch = <<>> /\ fl[f].pc = "none"
    BY DEF Init, Idle
  <1> QED
    BY <1>2, <1>3 DEF Init, HeldInv, InHand, WaitingIsHeld

\* The flusher that log() starts, if any, held nothing, and the record is queued.
LEMMA LogHolds ==
  ASSUME HeldInv, NEW r \in Records, Log(r)
  PROVE  HeldInv'
  <1>1. /\ queue' \in Seq(Records \union {Sentinel}) /\ Len(queue') = Len(queue) + 1 /\ Len(queue) \in Nat
        /\ queue'[Len(queue) + 1] = r /\ \A i \in 1 .. Len(queue) : queue'[i] = queue[i]
    BY DEF HeldInv, TypeOK, Log
  <1>2. /\ call' \in [Records -> {"idle", "waiting", "ok", "failed", "died"}]
        /\ \A x \in Records : x # r => call'[x] = call[x]
        /\ order' \in Seq(Records)
    BY DEF HeldInv, TypeOK, Log
  <1>3. /\ fl' \in [Flushers -> [pc : {"none", "get", "open", "write"}, batch : Seq(Records),
                                  stop : BOOLEAN, base : Hashes]]
        /\ task' \in Flushers \union {NoTask}
        /\ \A f \in Flushers : fl'[f] = fl[f] \/ (fl[f].pc = "none" /\ fl'[f].pc = "get" /\ fl'[f].batch = <<>>)
    <2>1. CASE NeedsFlusher
      <3>1. PICK f \in Flushers : /\ ~Running(f) /\ task' = f
                                  /\ fl' = [fl EXCEPT ![f] = [Idle EXCEPT !.pc = "get"]]
        BY <2>1 DEF Log, EnsureFlusher
      <3> QED
        BY <3>1, FreshFlusher DEF HeldInv, TypeOK, Running
    <2>2. CASE ~NeedsFlusher
      BY <2>2 DEF Log, EnsureFlusher, HeldInv, TypeOK
    <2> QED
      BY <2>1, <2>2
  <1>4. TypeOK'
    BY <1>1, <1>2, <1>3 DEF HeldInv, TypeOK, Log
  <1>5. \A f \in Flushers : (fl'[f].batch # <<>> <=> InHand(f)') /\ (InHand(f) => fl'[f] = fl[f])
    BY <1>3 DEF HeldInv, InHand
  <1>6. Range(queue) \subseteq Range(queue)' /\ r \in Range(queue)'
    <2>1. DOMAIN queue = 1 .. Len(queue) /\ DOMAIN queue' = 1 .. Len(queue) + 1
      BY <1>1 DEF HeldInv, TypeOK
    <2> QED
      BY <1>1, <2>1 DEF Range
  <1>7. \A f \in Flushers : InBatch(f) \subseteq InBatch(f)'
    <2> SUFFICES ASSUME NEW f \in Flushers, NEW x \in InBatch(f) PROVE x \in InBatch(f)'
      OBVIOUS
    <2>1. fl[f].batch # <<>>
      BY EmptySeq DEF InBatch
    <2>2. fl'[f] = fl[f]
      BY <1>5, <2>1 DEF HeldInv
    <2> QED
      BY <2>2 DEF InBatch
  <1>8. WaitingIsHeld'
    BY <1>2, <1>6, <1>7 DEF HeldInv, WaitingIsHeld
  <1> QED
    BY <1>4, <1>5, <1>8 DEF HeldInv

\* How far a batch reaches.
LEMMA BatchReach ==
  ASSUME NEW q \in Seq(Records \union {Sentinel})
  PROVE  /\ BatchLen(q) \in 0 .. Len(q)
         /\ \A i \in 1 .. BatchLen(q) : q[i] \in Records
         /\ BatchLen(q) < Len(q) => q[BatchLen(q) + 1] = Sentinel
  <1> DEFINE P(n) == (\A i \in 1 .. n : q[i] # Sentinel) /\ (n < Len(q) => q[n + 1] = Sentinel)
  <1>1. \E n \in 0 .. Len(q) : P(n)
    <2>1. CASE \A i \in 1 .. Len(q) : q[i] # Sentinel
      BY <2>1
    <2>2. CASE \E i \in 1 .. Len(q) : q[i] = Sentinel
      <3> DEFINE S == {i \in 1 .. Len(q) : q[i] = Sentinel}
      <3>1. S \subseteq Nat /\ S # {}
        BY <2>2
      <3> HIDE DEF S
      <3>2. PICK m \in S : \A i \in S : <<i, m>> \notin OpToRel(<, Nat)
        BY <3>1, WFMin, NatLessThanWellFounded, Zenon
      <3>4. \A i \in S : ~(i < m)
        BY <3>1, <3>2, Zenon DEF OpToRel
      <3> USE DEF S
      <3>3. m - 1 \in 0 .. Len(q) /\ P(m - 1)
        BY <3>4
      <3> QED
        BY <3>3
    <2> QED
      BY <2>1, <2>2
  <1>2. BatchLen(q) \in 0 .. Len(q) /\ P(BatchLen(q))
    BY <1>1 DEF BatchLen
  <1> QED
    BY <1>2, ElementOfSeq

\* Every record of the queue is then in the batch or still queued.
LEMMA TakeHolds ==
  ASSUME HeldInv, NEW f \in Flushers, TakeBatch(f)
  PROVE  HeldInv'
  <1> DEFINE n == BatchLen(queue)
             k == IF n < Len(queue) THEN 2 ELSE 1
             b == SubSeq(queue, 1, n)
  <1>1. queue \in Seq(Records \union {Sentinel}) /\ queue # <<>> /\ Len(queue) \in Nat \ {0}
    BY EmptySeq DEF HeldInv, TypeOK, TakeBatch
  <1>2. /\ n \in 0 .. Len(queue) /\ \A i \in 1 .. n : queue[i] \in Records
        /\ n < Len(queue) => queue[n + 1] = Sentinel
    BY <1>1, BatchReach
  <1>3. /\ fl' = [fl EXCEPT ![f] = IF n = 0 THEN Idle
                     ELSE [@ EXCEPT !.pc = "open", !.batch = b, !.stop = n < Len(queue)]]
        /\ queue' = SubSeq(queue, n + k, Len(queue))
        /\ UNCHANGED <<task, prev, disk, call, order, closer, failures, restarts, closes>>
    BY Zenon DEF TakeBatch
  <1> HIDE DEF n
  <1>4. b \in Seq(Records) /\ Len(b) = n /\ \A i \in 1 .. n : b[i] = queue[i]
    BY <1>1, <1>2, SubSeqProperties
  <1>5. /\ queue' \in Seq(Records \union {Sentinel})
        /\ Len(queue') = Len(queue) - n - k + 1
        /\ \A i \in 1 .. Len(queue') : queue'[i] = queue[n + k - 1 + i]
    <2>1. \A i \in 1 .. Len(queue) : queue[i] \in Records \union {Sentinel}
      BY <1>1, ElementOfSeq
    <2>2. n + k \in 1 .. Len(queue) + 1
      BY <1>1, <1>2
    <2>3. \A i \in n + k .. Len(queue) : queue[i] \in Records \union {Sentinel}
      BY <2>1, <2>2
    <2>4. queue' = SubSeq(queue, n + k, Len(queue))
      BY <1>3
    <2>5. n \in Nat /\ k \in Nat
      BY <1>2
    <2> HIDE DEF k
    <2> DEFINE m == n + k
    <2>6. m \in 1 .. Len(queue) + 1 /\ (\A i \in m .. Len(queue) : queue[i] \in Records \union {Sentinel})
      BY <2>2, <2>3
    <2>7. queue' = SubSeq(queue, m, Len(queue))
      BY <2>4
    <2> HIDE DEF m
    <2>8. /\ queue' \in Seq(Records \union {Sentinel})
          /\ Len(queue') = IF m <= Len(queue) THEN Len(queue) - m + 1 ELSE 0
          /\ \A i \in 1 .. Len(queue) - m + 1 : queue'[i] = queue[m + i - 1]
      BY <1>1, <2>6, <2>7, SubSeqProperties
    <2>9. Len(queue') = Len(queue) - m + 1 /\ m = n + k
      BY <1>1, <2>6, <2>8 DEF m
    <2>10. \A i \in 1 .. Len(queue') : m + i - 1 = n + k - 1 + i
      BY <1>1, <2>5, <2>9
    <2>11. \A i \in 1 .. Len(queue') : queue'[i] = queue[n + k - 1 + i]
      BY <2>8, <2>9, <2>10
    <2> QED
      BY <1>1, <2>5, <2>8, <2>9, <2>11
  <1> HIDE DEF b
  <1>6. fl[f].pc = "get" /\ fl[f].batch = <<>> /\ fl \in [Flushers -> [pc : {"none", "get", "open", "write"},
                               batch : Seq(Records), stop : BOOLEAN, base : Hashes]]
    BY DEF TakeBatch, HeldInv, InHand, TypeOK
  <1>7. Idle \in [pc : {"none", "get", "open", "write"}, batch : Seq(Records), stop : BOOLEAN, base : Hashes]
    BY EmptySeq DEF Idle, Hashes
  <1>8. /\ fl' \in [Flushers -> [pc : {"none", "get", "open", "write"}, batch : Seq(Records),
                                  stop : BOOLEAN, base : Hashes]]
        /\ \A g \in Flushers : g # f => fl'[g] = fl[g]
        /\ n = 0 => fl'[f].batch = <<>> /\ fl'[f].pc = "none"
        /\ n # 0 => fl'[f].batch = b /\ fl'[f].pc = "open"
    <2>1. CASE n = 0
      <3>1. fl' = [fl EXCEPT ![f] = Idle] /\ Idle.batch = <<>> /\ Idle.pc = "none"
        BY <1>3, <2>1 DEF Idle
      <3> QED
        BY <1>6, <1>7, <2>1, <3>1
    <2>2. CASE n # 0
      <3>1. fl' = [fl EXCEPT ![f] = [@ EXCEPT !.pc = "open", !.batch = b, !.stop = n < Len(queue)]]
        BY <1>3, <2>2, Zenon
      <3>2. (n < Len(queue)) \in BOOLEAN
        BY <1>1, <1>2
      <3> QED
        BY <1>4, <1>6, <2>2, <3>1, <3>2
    <2> QED
      BY <2>1, <2>2
  <1>9. TypeOK'
    BY <1>3, <1>5, <1>8 DEF HeldInv, TypeOK
  <1>10. n # 0 => b # <<>>
    BY <1>2, <1>4, EmptySeq
  <1>11. \A g \in Flushers : fl'[g].batch # <<>> <=> InHand(g)'
    BY <1>8, <1>10 DEF HeldInv, InHand
  <1>12. ASSUME NEW r \in Records, r \in Range(queue)
         PROVE  r \in Range(queue)' \/ r \in InBatch(f)'
    <2>1. PICK i \in 1 .. Len(queue) : queue[i] = r
      BY <1>1, <1>12 DEF Range
    <2>2. CASE i <= n
      <3>1. n # 0 /\ fl'[f].batch = b /\ i \in 1 .. n
        BY <1>2, <1>8, <2>1, <2>2
      <3>2. DOMAIN b = 1 .. n /\ b[i] = r
        BY <1>4, <2>1, <3>1
      <3> QED
        BY <3>1, <3>2 DEF InBatch
    <2>3. CASE i > n
      <3>1. r # Sentinel
        BY LoggerAssumption DEF LoggerAssumption
      <3>2. i - (n + k - 1) \in 1 .. Len(queue')
        BY <1>1, <1>2, <1>5, <2>1, <2>3, <3>1
      <3>3. queue'[i - (n + k - 1)] = r
        <4>1. n + k - 1 + (i - (n + k - 1)) = i
          BY <1>1, <1>2, <2>1
        <4> QED
          BY <1>5, <2>1, <3>2, <4>1
      <3> QED
        BY <1>5, <3>2, <3>3 DEF Range
    <2> QED
      BY <1>1, <1>2, <2>1, <2>2, <2>3
  <1>13. \A g \in Flushers : InBatch(g) \subseteq InBatch(g)'
    <2>1. InBatch(f) = {}
      BY <1>6, EmptySeq DEF InBatch
    <2> QED
      BY <1>8, <2>1 DEF InBatch
  <1>14. WaitingIsHeld'
    <2> SUFFICES ASSUME NEW r \in Records, call[r] = "waiting"
                 PROVE  r \in Range(queue)' \/ \E g \in Flushers : r \in InBatch(g)'
      BY <1>3 DEF WaitingIsHeld
    <2> QED
      BY <1>12, <1>13 DEF HeldInv, WaitingIsHeld
  <1> QED
    BY <1>9, <1>11, <1>14 DEF HeldInv

\* A signed batch is still the same batch.
LEMMA SignHolds ==
  ASSUME HeldInv, NEW f \in Flushers, SignBatch(f)
  PROVE  HeldInv'
  <1>1. fl' = [fl EXCEPT ![f].pc = "write", ![f].base = prev]
        /\ UNCHANGED <<queue, task, prev, disk, call, order, closer, failures, restarts, closes>>
    BY DEF SignBatch
  <1>2. TypeOK'
    BY <1>1 DEF HeldInv, TypeOK
  <1>3. \A g \in Flushers : fl'[g].batch = fl[g].batch /\ (InHand(g)' <=> InHand(g))
    BY <1>1 DEF HeldInv, TypeOK, SignBatch, InHand
  <1>4. \A g \in Flushers : InBatch(g)' = InBatch(g)
    BY <1>3 DEF InBatch
  <1>5. WaitingIsHeld'
    BY <1>1, <1>4 DEF HeldInv, WaitingIsHeld
  <1> QED
    BY <1>2, <1>3, <1>5 DEF HeldInv

\* Whoever waited on a batch that has ended waits no more.
LEMMA EndHolds ==
  ASSUME HeldInv, NEW f \in Flushers, WriteOk(f) \/ WriteFails(f)
  PROVE  HeldInv'
  <1>1. InHand(f) /\ fl[f].batch \in Seq(Records) /\ fl[f].batch # <<>>
    BY DEF WriteOk, WriteFails, InHand, HeldInv, TypeOK
  <1>2. UNCHANGED <<queue, task, order, closer, restarts, closes>> /\ failures' \in 0 .. MaxFailures
    BY LoggerAssumption DEF WriteOk, WriteFails, HeldInv, TypeOK, LoggerAssumption
  <1>3. /\ call' \in [Records -> {"idle", "waiting", "ok", "failed", "died"}]
        /\ \A r \in Records : call'[r] = "waiting" => call[r] = "waiting" /\ r \notin InBatch(f)
    BY DEF WriteOk, WriteFails, Answer, FailureAnswer, HeldInv, TypeOK
  <1>4. /\ fl' \in [Flushers -> [pc : {"none", "get", "open", "write"}, batch : Seq(Records),
                                  stop : BOOLEAN, base : Hashes]]
        /\ \A g \in Flushers : g # f => fl'[g] = fl[g]
        /\ fl'[f].batch = <<>> /\ fl'[f].pc \in {"none", "get"}
    <2>1. Resume(f)
      BY DEF WriteOk, WriteFails
    <2>2. Idle \in [pc : {"none", "get", "open", "write"}, batch : Seq(Records), stop : BOOLEAN, base : Hashes]
      BY EmptySeq DEF Idle, Hashes
    <2>3. PICK v \in {Idle, [Idle EXCEPT !.pc = "get"]} : fl' = [fl EXCEPT ![f] = v]
      BY <2>1 DEF Resume, HeldInv, TypeOK
    <2>4. /\ v \in [pc : {"none", "get", "open", "write"}, batch : Seq(Records), stop : BOOLEAN, base : Hashes]
          /\ v.batch = <<>> /\ v.pc \in {"none", "get"}
      BY <2>2, FreshFlusher DEF Idle
    <2> QED
      BY <2>3, <2>4 DEF HeldInv, TypeOK
  <1>5. disk \in Seq(Texts) /\ Signed(fl[f].base, fl[f].batch) \in Seq(Texts)
    BY SignedTyped DEF HeldInv, TypeOK, Texts
  <1>6. disk' \in Seq(Texts) /\ prev' \in Hashes
    <2>1. CASE WriteOk(f)
      <3>1. Len(fl[f].batch) \in 1 .. Len(fl[f].batch)
        BY <1>1, EmptySeq
      <3>2. Last(fl[f].batch) \in Records
        BY <1>1, <3>1, ElementOfSeq DEF Last
      <3> QED
        BY <1>5, <2>1, <3>2, AppendTyped DEF WriteOk, NewHead, Hashes
    <2>2. CASE WriteFails(f)
      BY <1>5, <2>2, InterruptedTyped DEF WriteFails, HeadOnFailure, HeldInv, TypeOK
    <2> QED
      BY <2>1, <2>2
  <1>7. TypeOK'
    BY <1>2, <1>3, <1>4, <1>6 DEF HeldInv, TypeOK, Texts
  <1>8. \A g \in Flushers : fl'[g].batch # <<>> <=> InHand(g)'
    BY <1>4 DEF HeldInv, InHand
  <1>9. \A g \in Flushers : g # f => InBatch(g)' = InBatch(g)
    BY <1>4 DEF InBatch
  <1>10. WaitingIsHeld'
    BY <1>2, <1>3, <1>9 DEF HeldInv, WaitingIsHeld
  <1> QED
    BY <1>7, <1>8, <1>10 DEF HeldInv

\* aclose() puts its sentinel behind what is queued.
LEMMA CloseHolds ==
  ASSUME HeldInv, CloseBegin \/ CloseEnd
  PROVE  HeldInv'
  <1>1. UNCHANGED <<fl, prev, disk, call, order, failures, restarts>>
    BY DEF CloseBegin, CloseEnd
  <1>2. queue \in Seq(Records \union {Sentinel}) /\ (queue' = queue \/ queue' = Append(queue, Sentinel))
    BY DEF HeldInv, TypeOK, CloseBegin, CloseEnd
  <1>3. queue' \in Seq(Records \union {Sentinel}) /\ Range(queue) \subseteq Range(queue)'
    <2>1. CASE queue' = queue
      BY <1>2, <2>1
    <2>2. CASE queue' = Append(queue, Sentinel)
      <3>1. /\ queue' \in Seq(Records \union {Sentinel}) /\ Len(queue') = Len(queue) + 1
            /\ \A i \in 1 .. Len(queue) : queue'[i] = queue[i]
        BY <1>2, <2>2, AppendProperties
      <3>2. DOMAIN queue = 1 .. Len(queue) /\ DOMAIN queue' = 1 .. Len(queue) + 1 /\ Len(queue) \in Nat
        BY <1>2, <3>1
      <3> QED
        BY <3>1, <3>2 DEF Range
    <2> QED
      BY <1>2, <2>1, <2>2
  <1>4. task' \in Flushers \union {NoTask} /\ closer' \in Flushers \union {NoTask} /\ closes' \in 0 .. MaxCloses
    BY LoggerAssumption DEF HeldInv, TypeOK, CloseBegin, CloseEnd, NeedsFlusher, LoggerAssumption
  <1>5. TypeOK'
    BY <1>1, <1>3, <1>4 DEF HeldInv, TypeOK
  <1>6. \A g \in Flushers : InBatch(g)' = InBatch(g) /\ (InHand(g)' <=> InHand(g))
    BY <1>1 DEF InBatch, InHand
  <1>7. WaitingIsHeld'
    BY <1>1, <1>3, <1>6 DEF HeldInv, WaitingIsHeld
  <1> QED
    BY <1>1, <1>5, <1>6, <1>7 DEF HeldInv

\* After a death nobody waits.
LEMMA RestartHolds ==
  ASSUME HeldInv, Restart
  PROVE  HeldInv'
  <1> DEFINE landed == {disk} \union UNION {Interrupted(disk, Signed(fl[f].base, fl[f].batch)) :
                                            f \in {g \in Flushers : fl[g].pc = "write"}}
  <1>1. disk \in Seq(Texts)
    BY DEF HeldInv, TypeOK, Texts
  <1>2. \A d \in landed : d \in Seq(Texts)
    BY <1>1, SignedTyped, InterruptedTyped DEF HeldInv
  <1>3. disk' \in IF PowerLoss THEN UNION {{SubSeq(d, 1, k) : k \in 0 .. Len(d)} : d \in landed} ELSE landed
    BY DEF Restart, AfterDeath
  <1> HIDE DEF landed
  <1>4. disk' \in Seq(Texts)
    <2>1. CASE PowerLoss
      <3>1. PICK d \in landed : \E k \in 0 .. Len(d) : disk' = SubSeq(d, 1, k)
        BY <1>3, <2>1
      <3> QED
        BY <1>2, <3>1, PrefixTyped
    <2>2. CASE ~PowerLoss
      BY <1>2, <1>3, <2>2
    <2> QED
      BY <2>1, <2>2
  <1>5. prev' \in Hashes
    BY <1>4, SeedTyped DEF Restart
  <1>6. /\ call' \in [Records -> {"idle", "waiting", "ok", "failed", "died"}]
        /\ \A r \in Records : call'[r] # "waiting"
    BY DEF Restart, Answer, HeldInv, TypeOK
  <1>7. /\ fl' \in [Flushers -> [pc : {"none", "get", "open", "write"}, batch : Seq(Records),
                                  stop : BOOLEAN, base : Hashes]]
        /\ \A g \in Flushers : fl'[g].batch = <<>> /\ fl'[g].pc = "none"
    BY EmptySeq DEF Restart, Idle, Hashes
  <1>8. queue' = <<>> /\ task' = NoTask /\ closer' = NoTask /\ UNCHANGED <<order, failures, closes>>
        /\ restarts' \in 0 .. MaxRestarts
    BY LoggerAssumption DEF Restart, HeldInv, TypeOK, LoggerAssumption
  <1>9. <<>> \in Seq(Records \union {Sentinel})
    BY EmptySeq
  <1>10. TypeOK'
    BY <1>4, <1>5, <1>6, <1>7, <1>8, <1>9 DEF HeldInv, TypeOK, Texts
  <1> QED
    BY <1>6, <1>7, <1>10 DEF HeldInv, InHand, WaitingIsHeld

\* The state keeps its type, and whoever waits is held.
LEMMA HeldInductive == Spec => []HeldInv
  <1>1. HeldInv /\ [Next]_vars => HeldInv'
    <2> SUFFICES ASSUME HeldInv, [Next]_vars PROVE HeldInv'
      OBVIOUS
    <2>1. ASSUME NEW r \in Records, Log(r) PROVE HeldInv'
      BY <2>1, LogHolds
    <2>2. ASSUME NEW f \in Flushers, TakeBatch(f) \/ SignBatch(f) \/ WriteOk(f) \/ WriteFails(f)
          PROVE  HeldInv'
      BY <2>2, TakeHolds, SignHolds, EndHolds
    <2>3. ASSUME UNCHANGED vars PROVE HeldInv'
      BY <2>3 DEF vars, HeldInv, TypeOK, InHand, WaitingIsHeld, InBatch
    <2> QED
      BY <2>1, <2>2, <2>3, CloseHolds, RestartHolds DEF Next
  <1> QED
    BY <1>1, InitHeld, PTL DEF Spec

\* No caller is forgotten: while a log() call waits, its record is queued or in a
\* flusher's hands, also when aclose() races it, a write is torn or the power fails.
THEOREM NobodyForgotten == Spec => []WaitingIsHeld
  <1>1. HeldInv => WaitingIsHeld
    BY DEF HeldInv
  <1> QED
    BY <1>1, HeldInductive, PTL

\* The logger's state keeps its type.
THEOREM TypeCorrect == Spec => []TypeOK
  <1>1. HeldInv => TypeOK
    BY DEF HeldInv
  <1> QED
    BY <1>1, HeldInductive, PTL

=============================================================================
