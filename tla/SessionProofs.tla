---------------------------- MODULE SessionProofs ----------------------------
(***************************************************************************)
(* What a session's calls meet before a plugin answers them: how often an  *)
(* agent may call, and on which connection and database a call works.      *)
(*                                                                         *)
(* The limiter (core/ratelimit/limiter.py), for any agents, burst, rate    *)
(* and size of the map.  The argument is an account: what an agent could   *)
(* still draw now, and what it drew since its i-th admitted call, together *)
(* never exceed the burst and what has flowed in since that call.  A check *)
(* moves tokens from one side to the other, time adds to both at most what *)
(* it adds to the bound, and the sweep takes away full buckets only, which *)
(* come back full.                                                         *)
(*                                                                         *)
(* The session: a call reads where it was sent, for any calls, connections,*)
(* databases, policies and reloads.  The session a request starts from is  *)
(* never changed by another, so a call that gets as far as a backend works *)
(* on the default connection and on the database of its own argument, and  *)
(* it has an audit line that says "allowed".  What it answers was permitted*)
(* by a version of the policy that was in force while it ran.              *)
(***************************************************************************)
EXTENDS Connections, RateLimiter, SequenceTheorems, TLAPS

----------------------------------------------------------------------------
(* The limiter.                                                            *)

\* What k calls cost.
Cost(k) == k * Grain

\* What agent a could draw at this moment.
Avail(a) == Refilled(BucketOf(a))

\* No bucket was refilled in the future.
LastInPast == \A a \in DOMAIN buckets : buckets[a].last <= now

\* The account of every agent since each of its admitted calls.
Account ==
    \A a \in Agents : \A i \in DOMAIN admitted[a] :
        Cost(Len(admitted[a]) - i + 1) + Avail(a) <= Full + now - admitted[a][i]

Held ==
    \A a \in Agents : \A i, j \in DOMAIN admitted[a] :
        i <= j => Cost(j - i + 1) <= Full + admitted[a][j] - admitted[a][i]

RateInv == LimiterTypeOK /\ LastInPast /\ Account /\ Held

----------------------------------------------------------------------------

LEMMA FullIsNat == Full \in Nat /\ Grain \in Nat /\ Grain > 0
  BY LimiterAssumption, Z3 DEF LimiterAssumption, Full

\* One more call costs one more token.
LEMMA OneMore ==
  /\ \A n \in Int : Cost(n + 1) = Cost(n) + Grain /\ Cost(n) \in Int
  /\ Cost(0) = 0
  BY LimiterAssumption, Z3 DEF LimiterAssumption, Cost

\* What flows into a bucket never exceeds the burst, and time and it agree.
LEMMA RefillBounds ==
  ASSUME LimiterTypeOK, LastInPast, NEW a \in Agents
  PROVE  Avail(a) \in 0 .. Full
  <1>1. CASE a \in DOMAIN buckets
    BY <1>1, FullIsNat DEF LimiterTypeOK, LastInPast, Avail, BucketOf, Refilled
  <1>2. CASE a \notin DOMAIN buckets
    BY <1>2, FullIsNat DEF LimiterTypeOK, Avail, BucketOf, Refilled
  <1> QED BY <1>1, <1>2

\* The sweep takes full buckets only, and not the one that was just checked.
LEMMA SweepKeeps ==
  ASSUME NEW m, NEW a \in DOMAIN m, ~Evictable(m[a])
  PROVE  a \in DOMAIN Sweep(m) /\ Sweep(m)[a] = m[a]
  BY DEF Sweep

LEMMA SweepTakes ==
  ASSUME NEW m
  PROVE  /\ DOMAIN Sweep(m) \subseteq DOMAIN m
         /\ \A a \in DOMAIN Sweep(m) : Sweep(m)[a] = m[a]
         /\ \A a \in DOMAIN m \ DOMAIN Sweep(m) : Evictable(m[a])
  BY DEF Sweep

----------------------------------------------------------------------------

LEMMA InitRate == LimiterInit => RateInv
  <1> SUFFICES ASSUME LimiterInit PROVE RateInv
    OBVIOUS
  <1>1. LimiterTypeOK /\ LastInPast
    BY LimiterAssumption, FullIsNat DEF LimiterAssumption, LimiterInit, LimiterTypeOK, LastInPast
  <1>2. Account /\ Held
    BY DEF LimiterInit, Account, Held
  <1> QED BY <1>1, <1>2 DEF RateInv

LEMMA TickRate ==
  ASSUME RateInv, Tick
  PROVE  RateInv'
  <1> USE FullIsNat, LimiterAssumption DEF LimiterAssumption
  <1>1. LimiterTypeOK' /\ LastInPast'
    <2>1. now' = now + 1 /\ now' \in 0 .. MaxNow /\ UNCHANGED <<buckets, admitted, refused>>
      BY DEF RateInv, LimiterTypeOK, Tick
    <2>2. LimiterTypeOK'
      BY <2>1 DEF RateInv, LimiterTypeOK
    <2>3. LastInPast'
      BY <2>1 DEF RateInv, LimiterTypeOK, LastInPast
    <2> QED BY <2>2, <2>3
  <1>2. Account'
    <2> SUFFICES ASSUME NEW a \in Agents, NEW i \in DOMAIN admitted[a]
                 PROVE  Cost(Len(admitted[a]) - i + 1) + Avail(a)'
                           <= Full + now' - admitted[a][i]
      BY DEF Account, Tick
    <2>1. Avail(a)' <= Avail(a) + 1 /\ Avail(a)' \in Int
      <3>1. CASE a \in DOMAIN buckets
        BY <3>1 DEF RateInv, LimiterTypeOK, LastInPast, Avail, BucketOf, Refilled, Tick
      <3>2. CASE a \notin DOMAIN buckets
        BY <3>2 DEF RateInv, LimiterTypeOK, Avail, BucketOf, Refilled, Tick
      <3> QED BY <3>1, <3>2
    <2>2. Cost(Len(admitted[a]) - i + 1) + Avail(a) <= Full + now - admitted[a][i]
      BY DEF RateInv, Account
    <2>3. Avail(a) \in Int
      BY RefillBounds DEF RateInv
    <2>4. Len(admitted[a]) - i + 1 \in Int /\ admitted[a][i] \in Int /\ now \in Int
      BY DEF RateInv, LimiterTypeOK
    <2>5. Cost(Len(admitted[a]) - i + 1) \in Int
      BY <2>4, OneMore
    <2>6. now' = now + 1
      BY DEF Tick
    <2> DEFINE drawn == Cost(Len(admitted[a]) - i + 1)
               since == admitted[a][i]
    <2>7. drawn \in Int /\ since \in Int /\ drawn + Avail(a) <= Full + now - since
      BY <2>2, <2>4, <2>5
    <2>8. now \in Int
      BY <2>4
    <2> HIDE DEF drawn, since
    <2>9. drawn + Avail(a)' <= Full + (now + 1) - since
      BY <2>1, <2>3, <2>7, <2>8
    <2> QED BY <2>6, <2>9 DEF drawn, since
  <1>3. Held'
    BY DEF RateInv, Held, Tick
  <1> QED BY <1>1, <1>2, <1>3 DEF RateInv

----------------------------------------------------------------------------

\* A check of agent a.
LEMMA CheckRate ==
  ASSUME RateInv, NEW a \in Agents, Check(a)
  PROVE  RateInv'
  <1> USE FullIsNat, LimiterAssumption DEF LimiterAssumption
  <1> DEFINE t  == Refilled(BucketOf(a))
             ok == t >= Grain
             b  == [tokens |-> IF ok THEN t - Grain ELSE t, last |-> now]
             m  == [x \in DOMAIN buckets \union {a} |-> IF x = a THEN b ELSE buckets[x]]
  <1>1. /\ buckets' = Sweep(m)
        /\ admitted' = IF ok THEN [admitted EXCEPT ![a] = Append(@, now)] ELSE admitted
        /\ refused' = IF ok THEN refused \ {a} ELSE refused \union {a}
        /\ now' = now
    BY DEF Check
  <1>2. t \in 0 .. Full
    BY RefillBounds DEF RateInv, Avail
  <1>3. /\ b \in [tokens : 0 .. Full, last : 0 .. MaxNow]
        /\ b.last = now /\ b.tokens = IF ok THEN t - Grain ELSE t
        /\ ~Evictable(b)
    BY <1>2 DEF RateInv, LimiterTypeOK, Evictable
  <1>4. /\ DOMAIN m = DOMAIN buckets \union {a} /\ m[a] = b
        /\ \A x \in DOMAIN buckets \ {a} : m[x] = buckets[x]
    OBVIOUS
  <1> HIDE DEF t, ok, b, m
  <1>5. /\ DOMAIN buckets' \subseteq DOMAIN m
        /\ \A x \in DOMAIN buckets' : buckets'[x] = m[x]
        /\ \A x \in DOMAIN m \ DOMAIN buckets' : Evictable(m[x])
    BY <1>1, SweepTakes
  <1>6. a \in DOMAIN buckets' /\ buckets'[a] = b
    BY <1>3, <1>4, <1>5
  <1>7. LimiterTypeOK' /\ LastInPast'
    <2>1. DOMAIN buckets' \subseteq Agents
      BY <1>4, <1>5 DEF RateInv, LimiterTypeOK
    <2>2. \A x \in DOMAIN buckets' :
             buckets'[x] \in [tokens : 0 .. Full, last : 0 .. MaxNow] /\ buckets'[x].last <= now
      BY <1>3, <1>4, <1>5 DEF RateInv, LimiterTypeOK, LastInPast
    <2>3. admitted' \in [Agents -> Seq(0 .. MaxNow)] /\ refused' \subseteq Agents
      BY <1>1 DEF RateInv, LimiterTypeOK
    <2> QED BY <1>1, <2>1, <2>2, <2>3 DEF RateInv, LimiterTypeOK, LastInPast
  <1>8. Avail(a)' = IF ok THEN t - Grain ELSE t
    BY <1>1, <1>2, <1>3, <1>6 DEF Avail, BucketOf, Refilled, RateInv, LimiterTypeOK
  <1>9. \A x \in Agents \ {a} : Avail(x)' = Avail(x)
    <2> SUFFICES ASSUME NEW x \in Agents \ {a} PROVE Avail(x)' = Avail(x)
      OBVIOUS
    <2>1. CASE x \in DOMAIN buckets'
      BY <2>1, <1>1, <1>4, <1>5 DEF Avail, BucketOf, Refilled
    <2>2. CASE x \notin DOMAIN buckets' /\ x \notin DOMAIN buckets
      BY <2>2, <1>1 DEF Avail, BucketOf, Refilled
    <2>3. CASE x \notin DOMAIN buckets' /\ x \in DOMAIN buckets
      <3>1. buckets[x].tokens >= Full /\ buckets[x].tokens \in 0 .. Full /\ now - buckets[x].last >= 0
            /\ buckets[x].last \in Int /\ now \in Int
        BY <2>3, <1>4, <1>5 DEF Evictable, RateInv, LimiterTypeOK, LastInPast
      <3>2. Avail(x) = Full
        BY <3>1, <2>3 DEF Avail, BucketOf, Refilled
      <3>3. Avail(x)' = Full
        BY <3>1, <2>3, <1>1 DEF Avail, BucketOf, Refilled
      <3> QED BY <3>2, <3>3
    <2> QED BY <2>1, <2>2, <2>3
  <1>10. CASE ~ok
    BY <1>1, <1>7, <1>8, <1>9, <1>10 DEF RateInv, Account, Held, Avail, t
  <1>11. CASE ok
    <2>1. /\ admitted' = [admitted EXCEPT ![a] = Append(@, now)]
          /\ Avail(a)' = t - Grain /\ Avail(a) = t /\ t >= Grain
      BY <1>1, <1>8, <1>11 DEF Avail, t, ok
    <2> DEFINE old == admitted[a]
               n   == Len(old)
    <2>2. /\ old \in Seq(0 .. MaxNow) /\ n \in Nat /\ DOMAIN old = 1 .. n
          /\ admitted'[a] = Append(old, now) /\ Len(admitted'[a]) = n + 1
          /\ DOMAIN admitted'[a] = 1 .. n + 1
          /\ \A i \in 1 .. n : admitted'[a][i] = old[i] /\ old[i] \in 0 .. MaxNow
          /\ admitted'[a][n + 1] = now
      BY <2>1 DEF RateInv, LimiterTypeOK
    <2>3. \A x \in Agents \ {a} : admitted'[x] = admitted[x]
      BY <2>1 DEF RateInv, LimiterTypeOK
    <2> HIDE DEF old, n
    <2>4. now \in Int /\ t \in Int /\ Full \in Int
      BY <1>2 DEF RateInv, LimiterTypeOK
    <2>5. \A i \in 1 .. n + 1 : Cost(n + 1 - i + 1) + (t - Grain) <= Full + now - admitted'[a][i]
      <3> SUFFICES ASSUME NEW i \in 1 .. n + 1
                   PROVE  Cost(n + 1 - i + 1) + (t - Grain) <= Full + now - admitted'[a][i]
        OBVIOUS
      <3>0. n \in Nat /\ i \in Int
        BY <2>2
      <3>1. /\ Cost(n + 1 - i + 1) = Cost(n - i + 1) + Grain
            /\ Cost(n - i + 1) \in Int
        <4>1. n - i + 1 \in Int /\ n + 1 - i + 1 = (n - i + 1) + 1
          BY <3>0
        <4> QED BY <4>1, OneMore
      <3>2. CASE i \in 1 .. n
        <4>1. Cost(n - i + 1) + t <= Full + now - old[i]
          BY <3>2, <2>1, <2>2 DEF RateInv, Account, old, n
        <4> DEFINE drawn == Cost(n - i + 1)
                   cost  == Cost(n + 1 - i + 1)
        <4>2. drawn \in Int /\ cost = drawn + Grain /\ drawn + t <= Full + now - old[i]
          BY <3>1, <4>1
        <4>3. old[i] \in Int /\ admitted'[a][i] = old[i]
          BY <3>2, <2>2
        <4> HIDE DEF drawn, cost
        <4>4. cost + (t - Grain) <= Full + now - admitted'[a][i]
          BY <2>4, <4>2, <4>3
        <4> QED BY <4>4 DEF cost
      <3>3. CASE i = n + 1
        <4>1. n - i + 1 = 0 /\ Cost(0) = 0
          BY <3>3, <3>0, OneMore
        <4> DEFINE cost == Cost(n + 1 - i + 1)
        <4>2. cost = Grain
          BY <4>1, <3>1
        <4>3. admitted'[a][i] = now
          BY <3>3, <2>2
        <4> HIDE DEF cost
        <4>4. cost + (t - Grain) <= Full + now - admitted'[a][i]
          BY <4>2, <4>3, <2>4, <1>2
        <4> QED BY <4>4 DEF cost
      <3> QED BY <3>2, <3>3, <3>0
    <2>6. Account'
      <3> SUFFICES ASSUME NEW x \in Agents, NEW i \in DOMAIN admitted'[x]
                   PROVE  Cost(Len(admitted'[x]) - i + 1) + Avail(x)'
                             <= Full + now' - admitted'[x][i]
        BY DEF Account
      <3>1. CASE x = a
        <4>1. i \in 1 .. n + 1
          BY <3>1, <2>2
        <4>2. Cost(n + 1 - i + 1) + (t - Grain) <= Full + now - admitted'[a][i]
          BY <4>1, <2>5
        <4>3. Len(admitted'[x]) = n + 1 /\ now' = now /\ Avail(x)' = t - Grain
          BY <3>1, <2>1, <2>2, <1>1
        <4> HIDE DEF t
        <4>4. Cost(Len(admitted'[x]) - i + 1) = Cost(n + 1 - i + 1)
          <5>1. n \in Int /\ i \in Int
            BY <4>1, <2>2
          <5> DEFINE k == Len(admitted'[x])
          <5>2. k = n + 1
            BY <4>3
          <5> HIDE DEF k
          <5>3. Cost(k - i + 1) = Cost(n + 1 - i + 1)
            BY <5>1, <5>2
          <5> QED BY <5>3 DEF k
        <4>5. admitted'[x][i] = admitted'[a][i]
          BY <3>1
        <4> QED BY <4>2, <4>3, <4>4, <4>5
      <3>2. CASE x # a
        BY <3>2, <2>3, <1>1, <1>9 DEF RateInv, Account
      <3> QED BY <3>1, <3>2
    <2>7. Held'
      <3> SUFFICES ASSUME NEW x \in Agents, NEW i \in DOMAIN admitted'[x],
                          NEW j \in DOMAIN admitted'[x], i <= j
                   PROVE  Cost(j - i + 1) <= Full + admitted'[x][j] - admitted'[x][i]
        BY DEF Held
      <3>1. CASE x # a
        BY <3>1, <2>3 DEF RateInv, Held
      <3>2. CASE x = a /\ j \in 1 .. n
        <4>1. i \in 1 .. n
          BY <3>2, <2>2
        <4>2. Cost(j - i + 1) <= Full + old[j] - old[i]
          BY <3>2, <4>1, <2>2 DEF RateInv, Held, old
        <4> QED BY <4>1, <4>2, <3>2, <2>2
      <3>3. CASE x = a /\ j = n + 1
        <4>1. i \in 1 .. n + 1
          BY <3>3, <2>2
        <4>2. Cost(n + 1 - i + 1) + (t - Grain) <= Full + now - admitted'[a][i]
          BY <4>1, <2>5
        <4>3. n + 1 - i + 1 \in Int /\ Cost(n + 1 - i + 1) \in Int
          BY <4>1, <2>2, OneMore
        <4>4. admitted'[a][i] \in Int
          BY <4>1, <2>2, <2>4
        <4>5. t >= Grain
          BY <2>1
        <4> DEFINE cost  == Cost(n + 1 - i + 1)
                   since == admitted'[a][i]
        <4> HIDE DEF cost, since
        <4>6. cost \in Int /\ since \in Int /\ cost + (t - Grain) <= Full + now - since
          BY <4>2, <4>3, <4>4 DEF cost, since
        <4>7. cost <= Full + now - since
          BY <4>5, <4>6, <2>4
        <4>8. admitted'[a][j] = now
          BY <3>3, <2>2
        <4>9. Cost(j - i + 1) = cost
          <5>1. n \in Int /\ i \in Int /\ j = n + 1
            BY <4>1, <2>2, <3>3
          <5>2. Cost(j - i + 1) = Cost(n + 1 - i + 1)
            BY <5>1
          <5> QED BY <5>2 DEF cost
        <4>10. admitted'[x][i] = since
          BY <3>3 DEF since
        <4>11. admitted'[x][j] = now
          BY <3>3, <4>8
        <4> QED BY <4>7, <4>9, <4>10, <4>11
      <3> QED BY <3>1, <3>2, <3>3, <2>2
    <2> QED BY <1>7, <2>6, <2>7 DEF RateInv
  <1> QED BY <1>10, <1>11

----------------------------------------------------------------------------

THEOREM RateInductive == LimiterSpec => []RateInv
  <1>1. RateInv /\ [LimiterNext]_limiterVars => RateInv'
    <2> SUFFICES ASSUME RateInv, [LimiterNext]_limiterVars PROVE RateInv'
      OBVIOUS
    <2>1. CASE Tick
      BY <2>1, TickRate
    <2>2. ASSUME NEW a \in Agents, Check(a) PROVE RateInv'
      BY <2>2, CheckRate
    <2>3. CASE UNCHANGED limiterVars
      BY <2>3 DEF limiterVars, RateInv, LimiterTypeOK, LastInPast, Account, Held, Avail, BucketOf, Refilled
    <2> QED BY <2>1, <2>2, <2>3 DEF LimiterNext
  <1> QED BY InitRate, <1>1, PTL DEF LimiterSpec

\* The limiter's state keeps its type: no bucket goes below nothing or above
\* the burst.
THEOREM BucketsInRange == LimiterSpec => []LimiterTypeOK
  <1>1. RateInv => LimiterTypeOK
    BY DEF RateInv
  <1> QED BY RateInductive, <1>1, PTL

\* For any burst, rate and sweep: no stretch of time between two admitted calls
\* of an agent holds more of its calls than burst and rate allow together.
THEOREM RateIsHeld == LimiterSpec => []RateHeld
  <1>1. RateInv => RateHeld
    BY DEF RateInv, Held, RateHeld, Cost
  <1> QED BY RateInductive, <1>1, PTL

----------------------------------------------------------------------------
(* Polling.                                                                *)

LastAdmitted(a) == admitted[a][Len(admitted[a])]

\* What has flowed in since an agent's last admitted call is still in its
\* bucket, up to the burst; and who was refused has less than a token in it.
PollInv ==
    Burst > 0 =>
        \A a \in DOMAIN buckets :
            /\ admitted[a] # <<>> =>
                  \/ buckets[a].tokens >= Full
                  \/ buckets[a].tokens >= buckets[a].last - LastAdmitted(a)
            /\ a \in refused => buckets[a].tokens < Grain

\* A burst of at least one token fills a bucket with at least one.
LEMMA FullBuysOne == Burst > 0 => Full >= Grain
  BY LimiterAssumption, Z3 DEF LimiterAssumption, Full

LEMMA LastIsTime ==
  ASSUME RateInv, NEW a \in Agents, admitted[a] # <<>>
  PROVE  LastAdmitted(a) \in Int
  <1>1. admitted[a] \in Seq(0 .. MaxNow)
    BY DEF RateInv, LimiterTypeOK
  <1> DEFINE s == admitted[a]
  <1> HIDE DEF s
  <1>2. s \in Seq(0 .. MaxNow) /\ s # <<>>
    BY <1>1 DEF s
  <1>3. Len(s) \in 1 .. Len(s)
    BY <1>2
  <1>4. s[Len(s)] \in 0 .. MaxNow
    BY <1>2, <1>3, ElementOfSeq
  <1> QED BY <1>4 DEF LastAdmitted, s

LEMMA CheckPolls ==
  ASSUME RateInv, PollInv, NEW a \in Agents, Check(a)
  PROVE  PollInv'
  <1> USE FullIsNat
  <1> SUFFICES ASSUME Burst > 0, NEW x \in DOMAIN buckets'
               PROVE  /\ admitted'[x] # <<>> =>
                            \/ buckets'[x].tokens >= Full
                            \/ buckets'[x].tokens >= buckets'[x].last - LastAdmitted(x)'
                      /\ x \in refused' => buckets'[x].tokens < Grain
    BY DEF PollInv
  <1> DEFINE t  == Refilled(BucketOf(a))
             ok == t >= Grain
             b  == [tokens |-> IF ok THEN t - Grain ELSE t, last |-> now]
             m  == [y \in DOMAIN buckets \union {a} |-> IF y = a THEN b ELSE buckets[y]]
  <1>1. /\ buckets' = Sweep(m)
        /\ admitted' = IF ok THEN [admitted EXCEPT ![a] = Append(@, now)] ELSE admitted
        /\ refused' = IF ok THEN refused \ {a} ELSE refused \union {a}
    BY DEF Check
  <1>2. t \in 0 .. Full /\ now \in Int /\ admitted \in [Agents -> Seq(0 .. MaxNow)]
    BY RefillBounds DEF RateInv, LimiterTypeOK, Avail
  <1>3. DOMAIN buckets' \subseteq DOMAIN m /\ buckets'[x] = m[x]
    BY <1>1, SweepTakes
  <1>4. CASE x # a
    <2>1. x \in DOMAIN buckets /\ buckets'[x] = buckets[x]
      BY <1>3, <1>4
    <2>2. admitted'[x] = admitted[x] /\ (x \in refused' <=> x \in refused)
      BY <1>1, <1>2, <1>4, <2>1 DEF RateInv, LimiterTypeOK
    <2> QED BY <2>1, <2>2 DEF PollInv, LastAdmitted
  <1>5. CASE x = a /\ ok
    <2>1. buckets'[x].tokens = t - Grain /\ buckets'[x].last = now /\ x \notin refused'
      BY <1>1, <1>3, <1>5
    <2>2. admitted'[x] = Append(admitted[a], now) /\ admitted[a] \in Seq(0 .. MaxNow)
      BY <1>1, <1>2, <1>5
    <2> HIDE DEF t
    <2>3. LastAdmitted(x)' = now
      BY <2>2 DEF LastAdmitted
    <2> QED BY <1>2, <1>5, <2>1, <2>3
  <1>6. CASE x = a /\ ~ok
    <2>1. buckets'[x].tokens = t /\ buckets'[x].last = now /\ t < Grain
      BY <1>2, <1>3, <1>6
    <2>2. admitted'[x] = admitted[a]
      BY <1>1, <1>6
    <2>3. a \in DOMAIN buckets
      BY <1>2, <1>6, FullBuysOne DEF BucketOf, Refilled
    <2>4. ASSUME admitted[a] # <<>>
          PROVE  t >= now - LastAdmitted(a)
      <3>1. /\ buckets[a].tokens \in 0 .. Full /\ buckets[a].last \in Int /\ buckets[a].last <= now
            /\ LastAdmitted(a) \in Int
        BY <2>3, <2>4, LastIsTime DEF RateInv, LimiterTypeOK, LastInPast
      <3>2. t = IF buckets[a].tokens + (now - buckets[a].last) > Full THEN Full
                ELSE buckets[a].tokens + (now - buckets[a].last)
        BY <2>3 DEF BucketOf, Refilled
      <3>3. t < Full
        BY <1>2, <2>1, FullBuysOne
      <3>4. \/ buckets[a].tokens >= Full
            \/ buckets[a].tokens >= buckets[a].last - LastAdmitted(a)
        BY <2>3, <2>4 DEF PollInv
      <3> DEFINE k == buckets[a].tokens
                 l == buckets[a].last
                 e == LastAdmitted(a)
      <3> HIDE DEF t, k, l, e
      <3>5. /\ k \in Int /\ l \in Int /\ e \in Int /\ now \in Int /\ Full \in Int
            /\ t = IF k + (now - l) > Full THEN Full ELSE k + (now - l)
            /\ t < Full /\ l <= now /\ (k >= Full \/ k >= l - e)
        BY <1>2, <3>1, <3>2, <3>3, <3>4 DEF k, l, e
      <3>6. t >= now - e
        BY <3>5
      <3> QED BY <3>6 DEF e
    <2> QED BY <1>6, <2>1, <2>2, <2>4 DEF LastAdmitted
  <1> QED BY <1>4, <1>5, <1>6

\* For any burst of at least one token, any rate and any sweep: who keeps asking
\* is refused only while its last admitted call is less than a token's time ago.
THEOREM PollingNeverStarves == LimiterSpec => []PollingDoesNotStarve
  <1>1. LimiterInit => PollInv
    BY DEF LimiterInit, PollInv
  <1>2. RateInv /\ PollInv /\ [LimiterNext]_limiterVars => PollInv'
    <2> SUFFICES ASSUME RateInv, PollInv, [LimiterNext]_limiterVars PROVE PollInv'
      OBVIOUS
    <2>1. CASE Tick \/ UNCHANGED limiterVars
      BY <2>1 DEF Tick, limiterVars, PollInv, LastAdmitted
    <2>2. ASSUME NEW a \in Agents, Check(a) PROVE PollInv'
      BY <2>2, CheckPolls
    <2> QED BY <2>1, <2>2 DEF LimiterNext
  <1>3. RateInv /\ PollInv => PollingDoesNotStarve
    <2> SUFFICES ASSUME RateInv, PollInv, Burst > 0, NEW a \in Agents,
                        a \in refused, a \in DOMAIN buckets, admitted[a] # <<>>
                 PROVE  buckets[a].last - LastAdmitted(a) < Grain
      BY DEF PollingDoesNotStarve, LastAdmitted
    <2>1. buckets[a].tokens \in 0 .. Full /\ buckets[a].last \in Int /\ LastAdmitted(a) \in Int
      BY LastIsTime DEF RateInv, LimiterTypeOK
    <2>2. buckets[a].tokens < Grain /\ (\/ buckets[a].tokens >= Full
                                       \/ buckets[a].tokens >= buckets[a].last - LastAdmitted(a))
      BY DEF PollInv
    <2> QED BY <2>1, <2>2, FullIsNat, FullBuysOne
  <1> QED BY RateInductive, <1>1, <1>2, <1>3, PTL DEF LimiterSpec

----------------------------------------------------------------------------
(* The session.                                                            *)

Phases == {"idle", "record", "backend", "stats", "edges", "done"}

\* The handler is past its audit line and not at its end.
AtBackend == {"backend", "stats", "edges"}

Typed ==
    /\ pc \in [Calls -> Phases]
    /\ DOMAIN ask = Calls /\ DOMAIN ctx = Calls /\ DOMAIN target = Calls /\ DOMAIN verdict = Calls

\* What the session hands to a request is what it began with.
SessionIsFresh == session = Fresh

\* The database of a call comes from its own argument.
Targeted == \A c \in Calls : pc[c] # "idle" => target[c] \in {ask[c].db, NoDb}

\* Only a switch may leave the default connection, and it reads nothing.
OnDefault ==
    \A c \in Calls :
        /\ pc[c] = "record" /\ ask[c].tool \notin {"switch", "use"} => ctx[c].conn = Default
        /\ pc[c] \in AtBackend => ctx[c].conn = Default

Permitted == \A c \in Calls : pc[c] \in AtBackend => c \in trail /\ verdict[c] = "allowed"

ReadersHaveBegun == \A r \in reads : r[1] \in Calls /\ pc[r[1]] # "idle"

ReadInv ==
    Typed /\ SessionIsFresh /\ Targeted /\ OnDefault /\ Permitted /\ ReadersHaveBegun
    /\ Confined /\ ReadsAreRecorded

----------------------------------------------------------------------------

LEMMA InitReads == Init => ReadInv
  BY DEF Init, ReadInv, Typed, Phases, AtBackend, SessionIsFresh, Targeted, OnDefault, Permitted,
         ReadersHaveBegun, Confined, ReadsAreRecorded

LEMMA BeginKeeps ==
  ASSUME ReadInv, NEW c \in Calls, NEW a \in Asks, Begin(c, a)
  PROVE  ReadInv'
  <1> DEFINE db  == IF a.tool \in {"switch", "use", "databases"} THEN NoDb ELSE ResolveDatabase(session, a.db)
             own == IF Permits(policy, a, db) /\ a.tool = "switch" THEN [session EXCEPT !.conn = a.name] ELSE session
             v   == IF Permits(policy, a, db) THEN "allowed" ELSE "denied"
  <1>1. /\ pc[c] = "idle" /\ pc' = [pc EXCEPT ![c] = "record"]
        /\ ask' = [ask EXCEPT ![c] = a] /\ target' = [target EXCEPT ![c] = db]
        /\ ctx' = [ctx EXCEPT ![c] = own] /\ verdict' = [verdict EXCEPT ![c] = v]
        /\ session' = session /\ UNCHANGED <<trail, reads>>
    BY DEF Begin, AfterSet
  <1>2. db \in {a.db, NoDb}
    <2>1. Default \in Registered
      BY ConnectionsAssumption
    <2>2. session.conn = Default /\ session.dbs[Default] = NoDb
      BY <2>1 DEF ReadInv, SessionIsFresh, Fresh
    <2> QED BY <2>2 DEF ResolveDatabase
  <1>3. a.tool \notin {"switch", "use"} => own.conn = Default
    BY DEF ReadInv, SessionIsFresh, Fresh
  <1> HIDE DEF db, own, v
  <1>4. Typed' /\ SessionIsFresh'
    BY <1>1 DEF ReadInv, Typed, Phases, SessionIsFresh, Fresh
  <1>5. Targeted' /\ OnDefault' /\ Permitted'
    BY <1>1, <1>2, <1>3 DEF ReadInv, Typed, Targeted, OnDefault, Permitted, AtBackend
  <1>6. \A r \in reads : r[1] \in Calls /\ r[1] # c
    BY <1>1 DEF ReadInv, ReadersHaveBegun
  <1>7. ReadersHaveBegun' /\ Confined' /\ ReadsAreRecorded'
    BY <1>1, <1>6 DEF ReadInv, Typed, ReadersHaveBegun, Confined, ReadsAreRecorded, Opened
  <1> QED BY <1>4, <1>5, <1>7 DEF ReadInv

LEMMA RecordKeeps ==
  ASSUME ReadInv, NEW c \in Calls, Record(c) \/ RecordLost(c)
  PROVE  ReadInv'
  <1>1. pc[c] = "record" /\ session' = session /\ UNCHANGED <<ask, target, verdict, reads>> /\ trail \subseteq trail'
    BY DEF Record, RecordLost, AfterSet
  <1>2. \/ pc' = [pc EXCEPT ![c] = "done"]
        \/ /\ pc' = [pc EXCEPT ![c] = "backend"] /\ ask[c].tool \notin {"switch", "use"}
           /\ verdict[c] = "allowed" /\ c \in trail' /\ ctx' = [ctx EXCEPT ![c] = ctx[c]]
    BY DEF Record, RecordLost
  <1>3. DOMAIN ctx' = Calls /\ \A d \in Calls \ {c} : ctx'[d] = ctx[d]
    BY DEF ReadInv, Typed, Record, RecordLost
  <1>4. Typed' /\ SessionIsFresh'
    BY <1>1, <1>2, <1>3 DEF ReadInv, Typed, Phases, SessionIsFresh, Fresh
  <1>5. Targeted' /\ OnDefault' /\ Permitted'
    BY <1>1, <1>2, <1>3 DEF ReadInv, Typed, Targeted, OnDefault, Permitted, AtBackend
  <1>6. ReadersHaveBegun' /\ Confined' /\ ReadsAreRecorded'
    BY <1>1, <1>2 DEF ReadInv, Typed, ReadersHaveBegun, Confined, ReadsAreRecorded, Opened
  <1> QED BY <1>4, <1>5, <1>6 DEF ReadInv

----------------------------------------------------------------------------

\* The databases a call at its backend may ask.
Places(c) == {Opened(Default, ask[c].db), Home[Default]}

\* Such a call reads there and goes on, or ends.
LEMMA ReadingKeeps ==
  ASSUME ReadInv, NEW c \in Calls, pc[c] \in AtBackend,
         NEW w \in {"stats", "edges", "done"}, pc' = [pc EXCEPT ![c] = w],
         NEW D, D \subseteq Places(c), reads' = reads \union {<<c, ctx[c].conn, d>> : d \in D},
         Rest(c)
  PROVE  ReadInv'
  <1>1. /\ ctx[c].conn = Default /\ c \in trail /\ verdict[c] = "allowed" /\ pc[c] # "idle"
        /\ UNCHANGED <<session, ask, ctx, target, verdict, trail>>
    BY DEF ReadInv, OnDefault, Permitted, AtBackend, Rest
  <1>2. Typed' /\ SessionIsFresh'
    BY <1>1 DEF ReadInv, Typed, Phases, SessionIsFresh, Fresh
  <1>3. Targeted' /\ OnDefault' /\ Permitted'
    BY <1>1 DEF ReadInv, Typed, Targeted, OnDefault, Permitted, AtBackend
  <1>4. \A r \in reads' : r \in reads \/ \E d \in D : r = <<c, Default, d>>
    BY <1>1
  <1>5. ReadersHaveBegun' /\ ReadsAreRecorded'
    BY <1>1, <1>4 DEF ReadInv, Typed, ReadersHaveBegun, ReadsAreRecorded
  <1>6. Confined'
    BY <1>1, <1>4 DEF ReadInv, Confined, Opened, Places
  <1> QED BY <1>2, <1>3, <1>5, <1>6 DEF ReadInv

LEMMA HereIsPlace ==
  ASSUME ReadInv, NEW c \in Calls, pc[c] \in AtBackend
  PROVE  Here(c) \in Places(c) /\ Home[ctx[c].conn] \in Places(c)
  <1>1. ctx[c].conn = Default /\ target[c] \in {ask[c].db, NoDb}
    BY DEF ReadInv, OnDefault, Targeted, AtBackend
  <1> QED BY <1>1 DEF Here, Opened, Places

LEMMA BackendKeeps ==
  ASSUME ReadInv, NEW c \in Calls,
         \/ AdapterRefuses(c) \/ ListCollections(c) \/ Find(c) \/ ListDatabases(c)
         \/ Sample(c) \/ Stats(c) \/ Edges(c)
  PROVE  ReadInv'
  <1>1. pc[c] \in AtBackend
    BY DEF AdapterRefuses, ListCollections, Find, ListDatabases, Sample, Stats, Edges, Serves, AtBackend
  <1>2. Rest(c) /\ \E w \in {"stats", "edges", "done"} : pc' = [pc EXCEPT ![c] = w]
    BY DEF AdapterRefuses, ListCollections, Find, ListDatabases, Sample, Stats, Edges
  <1>3. \E D : D \subseteq Places(c) /\ reads' = reads \union {<<c, ctx[c].conn, d>> : d \in D}
    <2>1. CASE AdapterRefuses(c)
      <3>1. {} \subseteq Places(c) /\ reads' = reads \union {<<c, ctx[c].conn, d>> : d \in {}}
        BY <2>1 DEF AdapterRefuses
      <3> QED BY <3>1
    <2>2. CASE ListCollections(c) \/ Find(c) \/ Sample(c) \/ Stats(c)
      <3>1. reads' = reads \union {<<c, ctx[c].conn, d>> : d \in {Here(c)}}
        BY <2>2 DEF ListCollections, Find, Sample, Stats, Reading
      <3>2. {Here(c)} \subseteq Places(c)
        BY <1>1, HereIsPlace
      <3> QED BY <3>1, <3>2
    <2>3. CASE ListDatabases(c)
      <3>1. reads' = reads \union {<<c, ctx[c].conn, d>> : d \in {Home[ctx[c].conn]}}
        BY <2>3 DEF ListDatabases, Reading
      <3>2. {Home[ctx[c].conn]} \subseteq Places(c)
        BY <1>1, HereIsPlace
      <3> QED BY <3>1, <3>2
    <2>4. CASE Edges(c)
      <3>1. PICK K : reads' = reads \union
              {<<c, ctx[c].conn, d>> : d \in {Here(c)} \union {Home[ctx[c].conn] : k \in K}}
        BY <2>4 DEF Edges, Reading
      <3>2. {Here(c)} \union {Home[ctx[c].conn] : k \in K} \subseteq Places(c)
        BY <1>1, HereIsPlace
      <3> QED BY <3>1, <3>2
    <2> QED BY <2>1, <2>2, <2>3, <2>4
  <1> QED BY <1>1, <1>2, <1>3, ReadingKeeps

LEMMA OthersKeep ==
  ASSUME ReadInv, UNCHANGED <<session, pc, ask, ctx, target, verdict, trail, reads>>
  PROVE  ReadInv'
  BY DEF ReadInv, Typed, SessionIsFresh, Fresh, Targeted, OnDefault, Permitted, ReadersHaveBegun,
         Confined, ReadsAreRecorded, Opened

----------------------------------------------------------------------------

\* Every step keeps what is known of the reads.
LEMMA NextReads == ReadInv /\ [Next]_vars => ReadInv'
  <1> SUFFICES ASSUME ReadInv, [Next]_vars PROVE ReadInv'
    OBVIOUS
  <1>1. ASSUME NEW c \in Calls, NEW a \in Asks, Begin(c, a) PROVE ReadInv'
    BY <1>1, BeginKeeps
  <1>2. ASSUME NEW c \in Calls, Record(c) \/ RecordLost(c) PROVE ReadInv'
    BY <1>2, RecordKeeps
  <1>3. ASSUME NEW c \in Calls,
               \/ AdapterRefuses(c) \/ ListCollections(c) \/ Find(c) \/ ListDatabases(c)
               \/ Sample(c) \/ Stats(c) \/ Edges(c)
        PROVE  ReadInv'
    BY <1>3, BackendKeeps
  <1>4. ASSUME NEW p \in Policies \union {NoPolicy}, Reload(p) PROVE ReadInv'
    BY <1>4, OthersKeep DEF Reload
  <1>5. CASE UNCHANGED vars
    BY <1>5, OthersKeep DEF vars
  <1> QED BY <1>1, <1>2, <1>3, <1>4, <1>5 DEF Next

\* Whatever other requests switch, name or list meanwhile, and whatever is
\* reloaded: a backend is read only for a call with a line that says "allowed",
\* and only on the default connection in the database that call itself named.
THEOREM ReadsGoverned == Spec => []ReadsAreGoverned
  <1>1. ReadInv => ReadsAreGoverned
    BY DEF ReadInv, ReadsAreGoverned
  <1> QED BY InitReads, NextReads, <1>1, PTL DEF Spec

----------------------------------------------------------------------------
(* What the answers name.                                                  *)

\* x may be shown to c under version p of the policy.
Shows(p, c, x) ==
    \/ p = NoPolicy /\ ask[c].tool = "databases"
    \/ /\ p # NoPolicy
       /\ CASE x \in Databases -> DatabasePermitted(p, x)
            [] x \in Fields -> /\ CollectionPermitted(ask[c].coll, ScopeFor(p, target[c]))
                               /\ x \notin MaskFieldsFor(p, ask[c].coll, target[c])
            [] OTHER -> CollectionPermitted(x, ScopeFor(p, target[c]))

\* While c runs, the version in force and the one it read last are among those
\* it has seen; on its way to the backend it goes by one that permits it.
Backed(c) ==
    /\ pc[c] = "idle" => shown[c] = {}
    /\ pc[c] # "idle" => ask[c].db \in Databases \union {NoDb}
    /\ pc[c] \notin {"idle", "done"} => policy \in seen[c] /\ held[c] \in seen[c]
    /\ pc[c] = "record" /\ verdict[c] = "allowed" => Permits(held[c], ask[c], target[c])
    /\ pc[c] = "backend" => Permits(held[c], ask[c], target[c])
    /\ \A x \in shown[c] : \E p \in seen[c] : Shows(p, c, x)

ShownInv ==
    /\ DOMAIN held = Calls /\ DOMAIN seen = Calls /\ DOMAIN shown = Calls
    /\ \A c \in Calls : Backed(c)

\* At the start nothing is shown.
LEMMA InitShown == Init => ShownInv
  BY DEF Init, ShownInv, Backed

\* A call that begins is judged by the policy in force.
LEMMA BeginBacks ==
  ASSUME ReadInv, ShownInv, NEW c \in Calls, NEW a \in Asks, Begin(c, a)
  PROVE  ShownInv'
  <1> DEFINE db == IF a.tool \in {"switch", "use", "databases"} THEN NoDb ELSE ResolveDatabase(session, a.db)
             v  == IF Permits(policy, a, db) THEN "allowed" ELSE "denied"
  <1>1. /\ pc[c] = "idle" /\ pc' = [pc EXCEPT ![c] = "record"]
        /\ ask' = [ask EXCEPT ![c] = a] /\ target' = [target EXCEPT ![c] = db]
        /\ held' = [held EXCEPT ![c] = policy] /\ verdict' = [verdict EXCEPT ![c] = v]
        /\ seen' = [seen EXCEPT ![c] = {policy}] /\ UNCHANGED <<policy, shown>>
    BY DEF Begin
  <1>2. a.db \in Databases \union {NoDb}
    BY DEF Asks
  <1>3. v = "allowed" => Permits(policy, a, db)
    OBVIOUS
  <1> HIDE DEF db, v
  <1>4. \A e \in Calls \ {c} : Backed(e)'
    BY <1>1 DEF ReadInv, Typed, ShownInv, Backed, Shows
  <1>5. Backed(c)'
    BY <1>1, <1>2, <1>3 DEF ReadInv, Typed, ShownInv, Backed
  <1> QED BY <1>1, <1>4, <1>5 DEF ShownInv

\* A line, written or lost, changes nothing of it.
LEMMA RecordBacks ==
  ASSUME ReadInv, ShownInv, NEW c \in Calls, Record(c) \/ RecordLost(c)
  PROVE  ShownInv'
  <1>1. /\ pc[c] = "record" /\ UNCHANGED <<policy, ask, target, held, verdict, shown, seen>>
        /\ \/ pc' = [pc EXCEPT ![c] = "done"]
           \/ pc' = [pc EXCEPT ![c] = "backend"] /\ verdict[c] = "allowed"
    BY DEF Record, RecordLost
  <1>2. \A e \in Calls : Backed(e)'
    BY <1>1 DEF ReadInv, Typed, ShownInv, Backed, Shows
  <1> QED BY <1>1, <1>2 DEF ShownInv

\* A find that is allowed has a policy that permits its collection.
LEMMA AllowedFind ==
  ASSUME NEW p, NEW k, NEW db, MayRead(p, "find", k, db)
  PROVE  p # NoPolicy /\ CollectionPermitted(k, ScopeFor(p, db))
  <1> DEFINE req == [coll |-> k, action |-> "find", db |-> db, unscoped |-> FALSE, refs |-> {}, uses |-> {}]
  <1>1. Evaluate(p, req, 0).status = "allowed"
    BY DEF MayRead
  <1>2. req.coll = k /\ req.db = db /\ req.action = "find"
    OBVIOUS
  <1> HIDE DEF req
  <1>3. p # NoPolicy /\ EngineDecision(p, req, Classify(req)).status = "allowed"
    BY <1>1 DEF Evaluate
  <1>4. ~Forbidden(p, req)
    BY <1>3 DEF EngineDecision
  <1> QED BY <1>2, <1>3, <1>4 DEF Forbidden, DbLevelActions

\* What is listed of a database are names of collections.
LEMMA VisibleNames ==
  ASSUME ReadInv, ShownInv, NEW c \in Calls, pc[c] \in AtBackend, NEW p, p # NoPolicy,
         NEW x \in Visible(p, c)
  PROVE  Shows(p, c, x)
  <1>1. ctx[c].conn = Default /\ Here(c) \in Places(c)
    BY HereIsPlace DEF ReadInv, OnDefault
  <1>2. ask[c].db \in Databases \union {NoDb}
    BY DEF ShownInv, Backed, AtBackend
  <1>3. Default \in Registered /\ Here(c) \in Databases
    BY <1>1, <1>2, ConnectionsAssumption DEF Places, Opened
  <1>4. x \in Stored[Default][Here(c)] /\ CollectionPermitted(x, ScopeFor(p, target[c]))
    BY <1>1 DEF Visible
  <1>5. x \notin Databases /\ x \notin Fields
    BY <1>3, <1>4, NamesAreTold
  <1> QED BY <1>4, <1>5 DEF Shows

\* Fields are shown of a permitted collection, without the masked ones.
LEMMA UnmaskedFields ==
  ASSUME NEW c, NEW p, p # NoPolicy, CollectionPermitted(ask[c].coll, ScopeFor(p, target[c])),
         NEW x \in Fields \ MaskFieldsFor(p, ask[c].coll, target[c])
  PROVE  Shows(p, c, x)
  BY NamesAreTold DEF Shows

\* A step at the backend that shows more shows what a version it has seen permits.
LEMMA AnswerBacks ==
  ASSUME ReadInv, ShownInv, NEW c \in Calls, pc[c] \in AtBackend, Rest(c),
         NEW w \in {"stats", "edges", "done"}, pc' = [pc EXCEPT ![c] = w],
         NEW S, DOMAIN shown' = Calls, shown'[c] = S, \A e \in Calls \ {c} : shown'[e] = shown[e],
         \A x \in S : x \in shown[c] \/ \E p \in seen[c] : Shows(p, c, x),
         held' = held \/ held' = [held EXCEPT ![c] = policy]
  PROVE  ShownInv'
  <1>1. UNCHANGED <<policy, ask, target, verdict, seen>>
    BY DEF Rest
  <1>2. \A e \in Calls : \A p, x : Shows(p, e, x)' <=> Shows(p, e, x)
    BY <1>1 DEF Shows
  <1>3. \A e \in Calls \ {c} : pc'[e] = pc[e] /\ held'[e] = held[e] /\ shown'[e] = shown[e]
    BY DEF ReadInv, Typed, ShownInv
  <1>4. pc'[c] = w /\ shown'[c] = S /\ held'[c] \in {held[c], policy}
    BY DEF ReadInv, Typed, ShownInv
  <1>5. \A x \in S : \E p \in seen[c] : Shows(p, c, x)
    BY DEF ShownInv, Backed
  <1> HIDE DEF Shows
  <1>6. \A e \in Calls \ {c} : Backed(e)'
    BY <1>1, <1>2, <1>3 DEF ShownInv, Backed
  <1>7. Backed(c)'
    BY <1>1, <1>2, <1>4, <1>5 DEF ShownInv, Backed, AtBackend
  <1>8. DOMAIN held' = Calls /\ DOMAIN seen' = Calls /\ DOMAIN shown' = Calls
    BY <1>1 DEF ShownInv
  <1> QED BY <1>6, <1>7, <1>8 DEF ShownInv

\* Each of the backend's steps is one of those.
LEMMA BackendBacks ==
  ASSUME ReadInv, ShownInv, NEW c \in Calls,
         \/ AdapterRefuses(c) \/ ListCollections(c) \/ Find(c) \/ ListDatabases(c)
         \/ Sample(c) \/ Stats(c) \/ Edges(c)
  PROVE  ShownInv'
  <1>1. pc[c] \in AtBackend /\ Rest(c) /\ DOMAIN shown = Calls
    BY DEF AdapterRefuses, ListCollections, Find, ListDatabases, Sample, Stats, Edges, Serves, AtBackend, ShownInv
  <1>2. policy \in seen[c] /\ held[c] \in seen[c] /\ (pc[c] = "backend" => Permits(held[c], ask[c], target[c]))
    BY <1>1 DEF ShownInv, Backed, AtBackend
  <1>3. CASE AdapterRefuses(c) \/ Stats(c)
    <2>1. /\ shown' = shown /\ (held' = held \/ held' = [held EXCEPT ![c] = policy])
          /\ \E w \in {"stats", "edges", "done"} : pc' = [pc EXCEPT ![c] = w]
      BY <1>1, <1>3 DEF AdapterRefuses, Stats
    <2> QED BY <1>1, <2>1, AnswerBacks
  <1>4. CASE ListCollections(c)
    <2>1. shown' = [shown EXCEPT ![c] = Visible(held[c], c)] /\ held' = held /\ pc' = [pc EXCEPT ![c] = "done"]
          /\ ask[c].tool = "collections" /\ pc[c] = "backend"
      BY <1>4 DEF ListCollections, Serves
    <2>2. held[c] # NoPolicy
      BY <1>2, <2>1 DEF Permits
    <2>3. \A x \in Visible(held[c], c) : Shows(held[c], c, x)
      BY <1>1, <2>2, VisibleNames
    <2> QED BY <1>1, <1>2, <2>1, <2>3, AnswerBacks
  <1>5. CASE Find(c) \/ Sample(c)
    <2> DEFINE S == Fields \ MaskFieldsFor(held[c], ask[c].coll, target[c])
    <2>1. /\ held' = held /\ ask[c].tool \in {"find", "describe"} /\ pc[c] = "backend"
          /\ \E w \in {"stats", "edges", "done"} : pc' = [pc EXCEPT ![c] = w]
          /\ shown' = [shown EXCEPT ![c] = S] \/ shown' = [shown EXCEPT ![c] = {}]
      BY <1>5 DEF Find, Sample, Serves
    <2>2. held[c] # NoPolicy /\ CollectionPermitted(ask[c].coll, ScopeFor(held[c], target[c]))
      BY <1>2, <2>1, AllowedFind DEF Permits
    <2>3. \A x \in S : Shows(held[c], c, x)
      BY <2>2, UnmaskedFields
    <2> HIDE DEF S
    <2> QED BY <1>1, <1>2, <2>1, <2>3, AnswerBacks
  <1>6. CASE ListDatabases(c)
    <2> DEFINE S == {d \in Databases : policy = NoPolicy \/ DatabasePermitted(policy, d)}
    <2>1. /\ shown' = [shown EXCEPT ![c] = S] /\ held' = [held EXCEPT ![c] = policy]
          /\ pc' = [pc EXCEPT ![c] = "done"] /\ ask[c].tool = "databases"
      BY <1>6 DEF ListDatabases
    <2>2. ASSUME NEW x \in S PROVE Shows(policy, c, x)
      <3>1. x \in Databases /\ (policy = NoPolicy \/ DatabasePermitted(policy, x))
        OBVIOUS
      <3> QED BY <2>1, <3>1, NamesAreTold DEF Shows
    <2> HIDE DEF S
    <2> QED BY <1>1, <1>2, <2>1, <2>2, AnswerBacks
  <1>7. CASE Edges(c)
    <2> DEFINE S == shown[c] \union (IF held[c] = NoPolicy THEN {} ELSE Visible(held[c], c))
    <2>1. shown' = [shown EXCEPT ![c] = S] /\ held' = held /\ pc' = [pc EXCEPT ![c] = "done"]
      BY <1>1, <1>7 DEF Edges
    <2>2. \A x \in S : x \in shown[c] \/ Shows(held[c], c, x)
      BY <1>1, VisibleNames
    <2> HIDE DEF S
    <2> QED BY <1>1, <1>2, <2>1, <2>2, AnswerBacks
  <1> QED BY <1>3, <1>4, <1>5, <1>6, <1>7

\* A version that comes into force is seen by the calls that run.
LEMMA ReloadBacks ==
  ASSUME ShownInv, NEW q, Reload(q)
  PROVE  ShownInv'
  <1>1. /\ UNCHANGED <<pc, ask, target, held, verdict, shown>> /\ policy' = q
        /\ seen' = [c \in Calls |-> IF pc[c] \in {"idle", "done"} THEN seen[c] ELSE seen[c] \union {q}]
    BY DEF Reload
  <1>2. \A c \in Calls : \A p, x : Shows(p, c, x)' <=> Shows(p, c, x)
    BY <1>1 DEF Shows
  <1>3. \A c \in Calls : Backed(c)'
    BY <1>1, <1>2 DEF ShownInv, Backed
  <1> QED BY <1>1, <1>3 DEF ShownInv

\* Everything an answer names was permitted by one version of the policy that
\* was in force during the call, whatever is reloaded at its awaits.
THEOREM AnswersGoverned == Spec => []ShownWasPermitted
  <1>1. ReadInv /\ ShownInv /\ [Next]_vars => ShownInv'
    <2> SUFFICES ASSUME ReadInv, ShownInv, [Next]_vars PROVE ShownInv'
      OBVIOUS
    <2>1. ASSUME UNCHANGED vars PROVE ShownInv'
      BY <2>1 DEF vars, ShownInv, Backed, Shows
    <2> QED BY <2>1, BeginBacks, RecordBacks, BackendBacks, ReloadBacks DEF Next
  <1>2. ShownInv => ShownWasPermitted
    BY DEF ShownInv, Backed, Shows, ShownWasPermitted
  <1> QED BY InitReads, NextReads, InitShown, <1>1, <1>2, PTL DEF Spec

=============================================================================
