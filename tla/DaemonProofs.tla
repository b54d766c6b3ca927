---------------------------- MODULE DaemonProofs ----------------------------
(***************************************************************************)
(* Proofs about the daemon: its queue, for any set of calls and ticks, any *)
(* cap and any number of crashes; the lock that keeps it single, for any   *)
(* number of processes; and the ingestion of triggers, for any number of   *)
(* events and keys, and every bound of the index.                          *)
(*                                                                         *)
(* Whatever ticks overlap, an id waits only before it is claimed and is    *)
(* claimed from the head (QueueInv).  What overlap costs is shown by the   *)
(* second half: while no two ticks are ever in flight together, the        *)
(* replayed log names every interrupted claim (SerialInv), which is what   *)
(* the recovery at start-up relies on.                                     *)
(*                                                                         *)
(* The lock: with starts and stops that do not overlap, and deaths         *)
(* anywhere, the two files keep at most one daemon running and on record   *)
(* (LockInv).                                                              *)
(*                                                                         *)
(* Triggers: SkipsAreDuplicates and UnloggedDied hold however the ingests  *)
(* overlap (SkipInv, LoggedInv); the last two theorems are about ingests   *)
(* one at a time (InTurnInv).                                              *)
(***************************************************************************)
EXTENDS DaemonQueue, DaemonLock, TriggerIngest, FiniteSetTheorems, SequenceTheorems, TLAPS

(* Ids in the log, or carried by a tick or the recovery, were drawn for an *)
(* accepted call; later draws are therefore fresh.                         *)
Drawn == {id \in Ids : call[JobOf(id)] = "accepted" /\ id[2] <= latest[JobOf(id)]}

AllDrawn ==
  /\ \A i \in 1..Len(pending) : pending[i] \in Drawn
  /\ started \union finished \subseteq Drawn
  /\ processing # None => processing \in started
  /\ orphan # None => orphan \in started
  /\ \A t \in Ticks : next[t] # None => next[t] \in Drawn

Distinct(s) == \A i, k \in 1..Len(s) : s[i] = s[k] => i = k

(* A tick works only while the daemon is up; past its start op its id is   *)
(* in the log as started, and before that the id is the head of the queue  *)
(* unless another tick has claimed it meanwhile.                           *)
TicksTrackHead ==
  /\ phase # "up" => \A t \in Ticks : tick[t] = "idle"
  /\ \A t \in Ticks :
       tick[t] \in {"running", "handled"} => next[t] \in started
  /\ \A t \in Ticks : tick[t] = "claiming" /\ next[t] \notin started =>
       pending # <<>> /\ next[t] = Head(pending)

QueueInv ==
  /\ TypeOK
  /\ AllDrawn
  /\ Distinct(pending)
  /\ ClaimedNeverWaits
  /\ TicksTrackHead

(* Steps of a call before its append; they touch nothing but its state.    *)
Considers(c) == EnqueueCheck(c) \/ ScheduleCheck(c) \/ FallDue(c) \/ Withdraw(c)
-----------------------------------------------------------------------------
(* RemoveFirst on a list without duplicates removes the element, keeps the *)
(* others once each, and takes the head off when the element is the head.  *)
LEMMA RemoveAtFacts ==
  ASSUME NEW S, NEW s \in Seq(S), NEW k \in 1..Len(s)
  PROVE  /\ RemoveAt(s, k) \in Seq(S)
         /\ Len(RemoveAt(s, k)) = Len(s) - 1
         /\ \A i \in 1..(Len(s) - 1) :
              RemoveAt(s, k)[i] = IF i < k THEN s[i] ELSE s[i + 1]
<1> DEFINE front == SubSeq(s, 1, k - 1)
           back == SubSeq(s, k + 1, Len(s))
<1>1. /\ front \in Seq(S) /\ Len(front) = k - 1
      /\ \A i \in 1..(k - 1) : front[i] = s[i]
  OBVIOUS
<1>2. /\ back \in Seq(S) /\ Len(back) = Len(s) - k
      /\ \A i \in 1..(Len(s) - k) : back[i] = s[k + i]
  OBVIOUS
<1>3. RemoveAt(s, k) = front \o back
  BY DEF RemoveAt
<1> HIDE DEF front, back
<1>4. /\ front \o back \in Seq(S)
      /\ Len(front \o back) = Len(s) - 1
  BY <1>1, <1>2
<1>5. ASSUME NEW i \in 1..(Len(s) - 1)
      PROVE  (front \o back)[i] = IF i < k THEN s[i] ELSE s[i + 1]
  <2>1. CASE i < k
    BY <2>1, <1>1, <1>2
  <2>2. CASE ~(i < k)
    <3>1. (front \o back)[i] = back[i - (k - 1)]
      BY <2>2, <1>1, <1>2
    <3>2. i - (k - 1) \in 1..(Len(s) - k) /\ k + (i - (k - 1)) = i + 1
      BY <2>2
    <3> QED BY <3>1, <3>2, <2>2, <1>2
  <2> QED BY <2>1, <2>2
<1>6. QED
  BY <1>3, <1>4, <1>5

(* Removing an element that is there leaves the others.                    *)
LEMMA RemoveFirstPresent ==
  ASSUME NEW S, NEW s \in Seq(S), Distinct(s), NEW k \in 1..Len(s)
  PROVE  RemoveFirst(s, s[k]) = RemoveAt(s, k)
<1>1. {i \in 1..Len(s) : s[i] = s[k]} = {k}
  BY DEF Distinct
<1>2. SelectInSeq(s, LAMBDA v : v = s[k]) = k
  <2>1. Min({k}) = k
    BY DEF Min
  <2> QED
    BY <1>1, <2>1 DEF SelectInSeq
<1>3. QED
  BY <1>2 DEF RemoveFirst

(* What removing an element does to a sequence without repetitions.        *)
LEMMA RemoveFirstFacts ==
  ASSUME NEW S, NEW s \in Seq(S), Distinct(s), NEW e
  PROVE  LET r == RemoveFirst(s, e) IN
         /\ r \in Seq(S)
         /\ Distinct(r)
         /\ \A i \in 1..Len(r) : r[i] # e /\ \E j \in 1..Len(s) : r[i] = s[j]
         /\ (\A i \in 1..Len(s) : s[i] # e) => r = s
<1>1. CASE \A i \in 1..Len(s) : s[i] # e
  BY <1>1 DEF RemoveFirst
<1>2. CASE \E k \in 1..Len(s) : s[k] = e
  <2>1. PICK k \in 1..Len(s) : s[k] = e
    BY <1>2
  <2> DEFINE r == RemoveAt(s, k)
  <2>2. RemoveFirst(s, e) = r
    BY <2>1, RemoveFirstPresent
  <2>3. /\ r \in Seq(S)
        /\ Len(r) = Len(s) - 1
        /\ \A i \in 1..(Len(s) - 1) :
             r[i] = IF i < k THEN s[i] ELSE s[i + 1]
    BY RemoveAtFacts
  <2> HIDE DEF r
  <2>4. \A i \in 1..Len(r) : r[i] # e /\ \E j \in 1..Len(s) : r[i] = s[j]
    <3> SUFFICES ASSUME NEW i \in 1..Len(r)
                 PROVE  \E j \in 1..Len(s) : r[i] = s[j] /\ j # k
      BY <2>1 DEF Distinct
    <3>1. CASE i < k
      BY <3>1, <2>3
    <3>2. CASE ~(i < k)
      <4>1. r[i] = s[i + 1] /\ i + 1 \in 1..Len(s) /\ i + 1 # k
        BY <3>2, <2>3
      <4> QED BY <4>1
    <3> QED BY <3>1, <3>2
  <2>5. Distinct(r)
    <3> SUFFICES ASSUME NEW i \in 1..Len(r), NEW j \in 1..Len(r), r[i] = r[j]
                 PROVE  i = j
      BY DEF Distinct
    <3> DEFINE up(n) == IF n < k THEN n ELSE n + 1
    <3>1. r[i] = s[up(i)] /\ r[j] = s[up(j)]
      BY <2>3
    <3>2. up(i) \in 1..Len(s) /\ up(j) \in 1..Len(s)
      BY <2>3
    <3>3. up(i) = up(j)
      BY <3>1, <3>2 DEF Distinct
    <3> QED BY <3>3
  <2> QED
    BY <1>2, <2>2, <2>3, <2>4, <2>5
<1>3. QED
  BY <1>1, <1>2
-----------------------------------------------------------------------------
(* A start or finish takes its id out of the list and disturbs nothing     *)
(* else: the rest stays drawn, distinct and unclaimed.                     *)
LEMMA RemovalKeepsList ==
  ASSUME QueueInv, NEW id \in Ids, pending' = RemoveFirst(pending, id)
  PROVE  /\ pending' \in Seq(Ids)
         /\ Distinct(pending)'
         /\ \A i \in 1..Len(pending') :
              /\ pending'[i] # id
              /\ pending'[i] \in Drawn
              /\ pending'[i] \notin started \union finished
         /\ id \in started => pending' = pending
<1>1. /\ pending \in Seq(Ids)
      /\ Distinct(pending)
  BY DEF QueueInv, TypeOK
<1> DEFINE r == RemoveFirst(pending, id)
<1>2. /\ r \in Seq(Ids)
      /\ Distinct(r)
      /\ \A i \in 1..Len(r) : r[i] # id /\ \E j \in 1..Len(pending) : r[i] = pending[j]
      /\ (\A i \in 1..Len(pending) : pending[i] # id) => r = pending
  BY <1>1, RemoveFirstFacts
<1>3. Distinct(pending)'
  BY <1>2 DEF Distinct
<1>4. \A j \in 1..Len(pending) :
        pending[j] \in Drawn /\ pending[j] \notin started \union finished
  BY DEF QueueInv, AllDrawn, ClaimedNeverWaits
<1> HIDE DEF r
<1>5. \A i \in 1..Len(r) : r[i] \in Drawn /\ r[i] \notin started \union finished
  BY <1>2, <1>4
<1>6. pending' = r
  BY DEF r
<1>7. ASSUME id \in started PROVE pending' = pending
  BY <1>2, <1>4, <1>6, <1>7
<1> QED
  BY <1>2, <1>3, <1>5, <1>6, <1>7

(* Appending an id that was never drawn keeps the list distinct and        *)
(* unclaimed, and keeps its head.                                          *)
LEMMA AppendKeepsList ==
  ASSUME QueueInv, NEW id \in Ids, id \notin Drawn, pending' = Append(pending, id)
  PROVE  /\ pending' \in Seq(Ids)
         /\ Distinct(pending)'
         /\ \A i \in 1..Len(pending') :
              /\ pending'[i] = id \/ pending'[i] \in Drawn
              /\ pending'[i] \notin started \union finished
         /\ pending # <<>> => pending' # <<>> /\ Head(pending') = Head(pending)
<1>1. /\ pending \in Seq(Ids)
      /\ Distinct(pending)
      /\ id \notin started \union finished
      /\ \A j \in 1..Len(pending) :
           pending[j] \in Drawn /\ pending[j] \notin started \union finished
  BY DEF QueueInv, TypeOK, AllDrawn, ClaimedNeverWaits
<1>2. /\ Len(pending') = Len(pending) + 1
      /\ \A i \in 1..Len(pending) : pending'[i] = pending[i]
      /\ pending'[Len(pending) + 1] = id
      /\ pending' \in Seq(Ids)
      /\ pending # <<>> => pending' # <<>> /\ Head(pending') = Head(pending)
  BY <1>1
<1>3. \A i \in 1..Len(pending') : i \in 1..Len(pending) \/ i = Len(pending) + 1
  BY <1>1, <1>2
<1>4. \A i \in 1..Len(pending) : pending[i] # id
  BY <1>1
<1>5. Distinct(pending)'
  BY <1>1, <1>2, <1>3, <1>4 DEF Distinct
<1>6. \A i \in 1..Len(pending') :
        /\ pending'[i] = id \/ pending'[i] \in Drawn
        /\ pending'[i] \notin started \union finished
  BY <1>1, <1>2, <1>3
<1> QED
  BY <1>2, <1>5, <1>6

(* QueueInv holds at the start.                                            *)
LEMMA InitQueueInv == Init => QueueInv
BY QueueAssumption
   DEF Init, QueueInv, TypeOK, AllDrawn, Distinct, ClaimedNeverWaits,
       TicksTrackHead, Ids

(* What such a step does.                                                  *)
LEMMA ConsidersFacts ==
  ASSUME TypeOK, NEW c \in Calls, Considers(c)
  PROVE  /\ UNCHANGED <<log, latest, daemon, worker, world>>
         /\ call' \in [Calls -> {"new", "due", "checked", "refused", "accepted", "dropped"}]
         /\ \A d \in Calls : call[d] = "accepted" => call'[d] = "accepted"
BY DEF TypeOK, Considers, EnqueueCheck, ScheduleCheck, FallDue, Withdraw

(* Producers keep QueueInv.                                                *)
LEMMA EnqueueKeepsInv ==
  ASSUME QueueInv, NEW c \in Calls, Considers(c) \/ EnqueueAppend(c)
  PROVE  QueueInv'
<1> USE DEF log, producers, daemon, worker, world, Ids, JobOf
<1>1. CASE Considers(c)
  <2>0. /\ UNCHANGED <<log, latest, daemon, worker, world>>
        /\ call' \in [Calls -> {"new", "due", "checked", "refused", "accepted", "dropped"}]
        /\ \A d \in Calls : call[d] = "accepted" => call'[d] = "accepted"
    BY <1>1, ConsidersFacts DEF QueueInv
  <2>1. TypeOK'
    BY <2>0 DEF QueueInv, TypeOK
  <2>2. AllDrawn'
    BY <2>0 DEF QueueInv, TypeOK, AllDrawn, Drawn
  <2>3. Distinct(pending)' /\ ClaimedNeverWaits' /\ TicksTrackHead'
    BY <2>0 DEF QueueInv, Distinct, ClaimedNeverWaits, TicksTrackHead
  <2> QED
    BY <2>1, <2>2, <2>3 DEF QueueInv
<1>2. CASE EnqueueAppend(c)
  <2> DEFINE id == <<c, 0>>
  <2>1. id \in Ids /\ id \notin Drawn
    BY <1>2 DEF EnqueueAppend, Drawn
  <2>2. pending' = Append(pending, id) /\ UNCHANGED <<processing, started, finished>>
    BY <1>2 DEF EnqueueAppend, AppendEnqueue
  <2>3. /\ pending' \in Seq(Ids)
        /\ Distinct(pending)'
        /\ \A i \in 1..Len(pending') :
             /\ pending'[i] = id \/ pending'[i] \in Drawn
             /\ pending'[i] \notin started \union finished
        /\ pending # <<>> => pending' # <<>> /\ Head(pending') = Head(pending)
    BY <2>1, <2>2, AppendKeepsList
  <2>4. TypeOK'
    BY <1>2, <2>2, <2>3 DEF QueueInv, TypeOK, EnqueueAppend
  <2>5. Drawn \subseteq Drawn'
    BY <1>2 DEF QueueInv, TypeOK, Drawn, EnqueueAppend
  <2>6. id \in Drawn'
    BY <1>2 DEF QueueInv, TypeOK, Drawn, EnqueueAppend
  <2>7. AllDrawn'
    <3>1. \A i \in 1..Len(pending') : pending'[i] \in Drawn'
      BY <2>3, <2>5, <2>6
    <3>2. (started \union finished)' \subseteq Drawn'
      BY <2>2, <2>5 DEF QueueInv, TypeOK, AllDrawn
    <3>3. \A t \in Ticks : next'[t] # None => next'[t] \in Drawn'
      BY <1>2, <2>5 DEF QueueInv, TypeOK, AllDrawn, EnqueueAppend
    <3> QED
      BY <1>2, <2>2, <3>1, <3>2, <3>3 DEF QueueInv, AllDrawn, EnqueueAppend
  <2>8. ClaimedNeverWaits'
    BY <2>2, <2>3 DEF ClaimedNeverWaits
  <2>9. TicksTrackHead'
    BY <1>2, <2>2, <2>3 DEF QueueInv, TicksTrackHead, EnqueueAppend
  <2> QED
    BY <2>3, <2>4, <2>7, <2>8, <2>9 DEF QueueInv
<1> QED
  BY <1>1, <1>2

(* Recovery keeps QueueInv.                                                *)
LEMMA RecoverKeepsInv ==
  ASSUME QueueInv, Recover
  PROVE  QueueInv'
<1> USE DEF log, producers, daemon, worker, world, Ids, JobOf
<1>1. CASE Boot
  <2>1. TypeOK'
    BY <1>1, QueueAssumption DEF QueueInv, TypeOK, Boot
  <2>2. AllDrawn'
    BY <1>1 DEF QueueInv, TypeOK, AllDrawn, Drawn, Boot
  <2>3. Distinct(pending)' /\ ClaimedNeverWaits' /\ TicksTrackHead'
    BY <1>1 DEF QueueInv, Boot, Distinct, ClaimedNeverWaits, TicksTrackHead
  <2> QED
    BY <2>1, <2>2, <2>3 DEF QueueInv
<1>2. CASE RecoverFinish
  <2>1. orphan \in Ids /\ orphan \in started
    BY <1>2 DEF QueueInv, TypeOK, AllDrawn, RecoverFinish
  <2>2. /\ pending' = pending
        /\ processing' \in {processing, None}
        /\ started' = started
        /\ finished' = finished \union {orphan}
    BY <1>2, <2>1, RemovalKeepsList DEF RecoverFinish, AppendFinish
  <2>3. TypeOK'
    BY <1>2, <2>1, <2>2 DEF QueueInv, TypeOK, RecoverFinish
  <2>4. AllDrawn'
    BY <1>2, <2>1, <2>2 DEF QueueInv, TypeOK, AllDrawn, Drawn, RecoverFinish
  <2>5. Distinct(pending)' /\ ClaimedNeverWaits' /\ TicksTrackHead'
    BY <1>2, <2>1, <2>2
       DEF QueueInv, RecoverFinish, Distinct, ClaimedNeverWaits, TicksTrackHead
  <2> QED
    BY <2>3, <2>4, <2>5 DEF QueueInv
<1>3. CASE RecoverRequeue
  <2> DEFINE job == JobOf(orphan)
             id == <<job, latest[job] + 1>>
  <2>1. /\ orphan \in Ids
        /\ job \in Calls
        /\ latest[job] \in Nat
        /\ orphan \in Drawn
    BY <1>3 DEF QueueInv, TypeOK, AllDrawn, RecoverRequeue
  <2>2. id \in Ids /\ id \notin Drawn
    BY <2>1 DEF Drawn
  <2>3. /\ pending' = Append(pending, id)
        /\ UNCHANGED <<processing, started, finished>>
        /\ latest' = [latest EXCEPT ![job] = latest[job] + 1]
    BY <1>3 DEF RecoverRequeue, AppendEnqueue
  <2>4. /\ pending' \in Seq(Ids)
        /\ Distinct(pending)'
        /\ \A i \in 1..Len(pending') :
             /\ pending'[i] = id \/ pending'[i] \in Drawn
             /\ pending'[i] \notin started \union finished
        /\ pending # <<>> => pending' # <<>> /\ Head(pending') = Head(pending)
    BY <2>2, <2>3, AppendKeepsList
  <2>5. TypeOK'
    BY <1>3, <2>1, <2>3, <2>4 DEF QueueInv, TypeOK, RecoverRequeue
  <2>6. Drawn \subseteq Drawn'
    BY <1>3, <2>1, <2>3 DEF QueueInv, TypeOK, Drawn, RecoverRequeue
  <2>7. id \in Drawn'
    BY <1>3, <2>1, <2>3 DEF QueueInv, TypeOK, Drawn, RecoverRequeue
  <2>8. AllDrawn'
    <3>1. \A i \in 1..Len(pending') : pending'[i] \in Drawn'
      BY <2>4, <2>6, <2>7
    <3>2. (started \union finished)' \subseteq Drawn'
      BY <2>3, <2>6 DEF QueueInv, TypeOK, AllDrawn
    <3>3. \A t \in Ticks : next'[t] # None => next'[t] \in Drawn'
      BY <1>3, <2>6 DEF QueueInv, TypeOK, AllDrawn, RecoverRequeue
    <3> QED
      BY <1>3, <2>3, <3>1, <3>2, <3>3 DEF QueueInv, AllDrawn, RecoverRequeue
  <2>9. ClaimedNeverWaits'
    BY <2>3, <2>4 DEF ClaimedNeverWaits
  <2>10. TicksTrackHead'
    BY <1>3, <2>3, <2>4 DEF QueueInv, TicksTrackHead, RecoverRequeue
  <2> QED
    BY <2>4, <2>5, <2>8, <2>9, <2>10 DEF QueueInv
<1> QED
  BY <1>1, <1>2, <1>3 DEF Recover

(* Ticks keep QueueInv.                                                    *)
LEMMA TickKeepsInv ==
  ASSUME QueueInv, NEW t \in Ticks, Tick(t)
  PROVE  QueueInv'
<1> USE DEF log, producers, daemon, worker, world, Ids
<1>1. CASE TickRead(t)
  <2>1. /\ Head(pending) \in Ids
        /\ 1 \in 1..Len(pending)
        /\ Head(pending) = pending[1]
    BY <1>1 DEF QueueInv, TypeOK, TickRead, MayTick
  <2>2. Head(pending) \in Drawn /\ Head(pending) # None
    BY <2>1, QueueAssumption DEF QueueInv, AllDrawn
  <2>3. TypeOK'
    BY <1>1, <2>1, <2>2 DEF QueueInv, TypeOK, TickRead, MayTick
  <2>4. AllDrawn'
    BY <1>1, <2>2 DEF QueueInv, TypeOK, AllDrawn, Drawn, TickRead, MayTick
  <2>5. Distinct(pending)' /\ ClaimedNeverWaits'
    BY <1>1 DEF QueueInv, TickRead, MayTick, Distinct, ClaimedNeverWaits
  <2>6. TicksTrackHead'
    BY <1>1 DEF QueueInv, TypeOK, TickRead, MayTick, TicksTrackHead
  <2> QED
    BY <2>3, <2>4, <2>5, <2>6 DEF QueueInv
<1>2. CASE TickStart(t)
  <2> DEFINE id == next[t]
  <2>1. id \in Ids /\ id \in Drawn /\ id # None
    BY <1>2 DEF QueueInv, TypeOK, AllDrawn, TickStart
  <2>2. /\ pending' = RemoveFirst(pending, id)
        /\ processing' = id
        /\ started' = started \union {id}
        /\ finished' = finished
    BY <1>2 DEF TickStart, AppendStart
  <2>3. /\ pending' \in Seq(Ids)
        /\ Distinct(pending)'
        /\ \A i \in 1..Len(pending') :
             /\ pending'[i] # id
             /\ pending'[i] \in Drawn
             /\ pending'[i] \notin started \union finished
        /\ id \in started => pending' = pending
    BY <2>1, <2>2, RemovalKeepsList
  <2>4. TypeOK'
    BY <1>2, <2>1, <2>2, <2>3 DEF QueueInv, TypeOK, TickStart
  <2>5. Drawn' = Drawn
    BY <1>2 DEF Drawn, TickStart
  <2>6. AllDrawn'
    BY <1>2, <2>1, <2>2, <2>3, <2>5 DEF QueueInv, AllDrawn, TickStart
  <2>7. ClaimedNeverWaits'
    BY <2>2, <2>3 DEF ClaimedNeverWaits
  <2>8. TicksTrackHead'
    <3>1. \A u \in Ticks : tick'[u] \in {"running", "handled"} => next'[u] \in started'
      BY <1>2, <2>2 DEF QueueInv, TypeOK, TicksTrackHead, TickStart
    <3>2. ASSUME NEW u \in Ticks, tick'[u] = "claiming", next'[u] \notin started'
          PROVE  pending' # <<>> /\ next'[u] = Head(pending')
      <4>1. u # t /\ tick[u] = "claiming" /\ next[u] \notin started /\ next[u] # id
        BY <1>2, <2>2, <3>2 DEF QueueInv, TypeOK, TickStart
      <4>2. pending # <<>> /\ next[u] = Head(pending)
        BY <4>1 DEF QueueInv, TicksTrackHead
      <4>3. id \in started
        BY <1>2, <4>1, <4>2 DEF QueueInv, TicksTrackHead, TickStart
      <4> QED
        BY <1>2, <2>3, <4>2, <4>3 DEF TickStart
    <3> QED
      BY <1>2, <3>1, <3>2 DEF QueueInv, TypeOK, TicksTrackHead, TickStart
  <2> QED
    BY <2>3, <2>4, <2>6, <2>7, <2>8 DEF QueueInv
<1>3. CASE TickHandle(t)
  <2>1. TypeOK' /\ AllDrawn'
    BY <1>3 DEF QueueInv, TypeOK, AllDrawn, Drawn, TickHandle
  <2>2. Distinct(pending)' /\ ClaimedNeverWaits' /\ TicksTrackHead'
    BY <1>3 DEF QueueInv, TypeOK, TickHandle, Distinct, ClaimedNeverWaits, TicksTrackHead
  <2> QED
    BY <2>1, <2>2 DEF QueueInv
<1>4. CASE TickFinish(t)
  <2> DEFINE id == next[t]
  <2>1. id \in Ids /\ id \in started
    BY <1>4 DEF QueueInv, TypeOK, TicksTrackHead, TickFinish
  <2>2. /\ pending' = pending
        /\ processing' \in {processing, None}
        /\ started' = started
        /\ finished' = finished \union {id}
    BY <1>4, <2>1, RemovalKeepsList DEF TickFinish, AppendFinish
  <2>3. TypeOK'
    BY <1>4, <2>1, <2>2 DEF QueueInv, TypeOK, TickFinish
  <2>4. AllDrawn'
    <3>1. Drawn' = Drawn
      BY <1>4 DEF Drawn, TickFinish
    <3>2. id \in Drawn /\ (processing' # None => processing' \in started)
      BY <2>1, <2>2 DEF QueueInv, AllDrawn
    <3> QED
      BY <1>4, <2>2, <3>1, <3>2 DEF QueueInv, TypeOK, AllDrawn, TickFinish
  <2>5. Distinct(pending)' /\ ClaimedNeverWaits' /\ TicksTrackHead'
    BY <1>4, <2>1, <2>2
       DEF QueueInv, TypeOK, TickFinish, Distinct, ClaimedNeverWaits, TicksTrackHead
  <2> QED
    BY <2>3, <2>4, <2>5 DEF QueueInv
<1> QED
  BY <1>1, <1>2, <1>3, <1>4 DEF Tick

(* A crash keeps QueueInv.                                                 *)
LEMMA CrashKeepsInv ==
  ASSUME QueueInv, Crash
  PROVE  QueueInv'
<1> USE DEF log
<1>1. TypeOK'
  BY DEF QueueInv, TypeOK, Crash
<1>2. AllDrawn'
  BY DEF QueueInv, TypeOK, AllDrawn, Drawn, Crash, Ids, JobOf
<1>3. Distinct(pending)' /\ ClaimedNeverWaits' /\ TicksTrackHead'
  BY DEF QueueInv, Crash, Distinct, ClaimedNeverWaits, TicksTrackHead
<1> QED
  BY <1>1, <1>2, <1>3 DEF QueueInv

(* Stuttering keeps QueueInv.                                              *)
LEMMA StutterKeepsInv == QueueInv /\ UNCHANGED vars => QueueInv'
BY DEF QueueInv, TypeOK, AllDrawn, Drawn, Distinct, ClaimedNeverWaits,
       TicksTrackHead, vars, log, producers, daemon, worker, world

(* Every step keeps QueueInv.                                              *)
LEMMA NextKeepsInv == QueueInv /\ [Next]_vars => QueueInv'
BY EnqueueKeepsInv, RecoverKeepsInv, TickKeepsInv, CrashKeepsInv, StutterKeepsInv
   DEF Next, Enqueue, Considers

(* QueueInv holds however the ticks overlap.                               *)
LEMMA QueueInvariant == Spec => []QueueInv
BY InitQueueInv, NextKeepsInv, PTL DEF Spec

(* The values of the log, of the daemon and of every tick are of their     *)
(* kinds in every reachable state.                                         *)
THEOREM TypeCorrect == Spec => []TypeOK
BY QueueInvariant, PTL DEF QueueInv

(* However ticks overlap and crashes fall, an id that was claimed never    *)
(* waits again.                                                            *)
THEOREM ClaimedNeverWaitsAgain == Spec => []ClaimedNeverWaits
BY QueueInvariant, PTL DEF QueueInv

(* However ticks overlap, the first start of an id takes it from the head  *)
(* of the queue as it is at that moment.                                   *)
THEOREM ClaimsInOrder == Spec => ClaimsHead
<1>1. QueueInv /\ [Next]_vars =>
        [\A id \in started' \ started : pending # <<>> /\ id = Head(pending)]_vars
  <2> SUFFICES ASSUME QueueInv, Next, NEW id \in started' \ started
               PROVE  pending # <<>> /\ id = Head(pending)
    OBVIOUS
  <2>1. PICK t \in Ticks : TickStart(t)
    BY DEF Next, Recover, Tick, Enqueue, EnqueueCheck, ScheduleCheck, FallDue, Withdraw,
           EnqueueAppend, AppendEnqueue, Boot, RecoverFinish, RecoverRequeue, AppendFinish, TickRead, MayTick, TickHandle,
           TickFinish, Crash, log
  <2> QED
    BY <2>1 DEF QueueInv, TicksTrackHead, TickStart, AppendStart
<1> QED
  BY <1>1, QueueInvariant, PTL DEF ClaimsHead, Spec
-----------------------------------------------------------------------------
(* While ticks do not overlap the replayed claim is exactly what the tick, *)
(* or the recovery, is at work on.                                         *)
SerialInv ==
  /\ \A t, u \in Ticks : tick[t] # "idle" /\ tick[u] # "idle" => t = u
  /\ \A t \in Ticks : tick[t] = "claiming" =>
       processing = None /\ next[t] \notin started
  /\ \A t \in Ticks : tick[t] \in {"running", "handled"} => processing = next[t]
  /\ \A t \in Ticks : tick[t] = "handled" => next[t] \in ended
  /\ phase = "failClose" => orphan = processing
  /\ phase = "requeue" => processing = None
  /\ NeverStalled
  /\ started \ finished \subseteq {processing}

(* SerialInv holds at the start.                                           *)
LEMMA InitSerialInv == Init => SerialInv
BY DEF Init, SerialInv, NeverStalled

(* With one tick at a time, every step keeps SerialInv.                    *)
LEMMA NextKeepsSerialInv ==
  ASSUME serial, QueueInv, SerialInv, [Next]_vars
  PROVE  SerialInv'
<1> USE DEF SerialInv, NeverStalled, log, producers, daemon, worker, world
<1>1. ASSUME NEW c \in Calls, Considers(c) \/ EnqueueAppend(c)
      PROVE  SerialInv'
  <2>1. CASE Considers(c)
    BY <2>1, ConsidersFacts DEF QueueInv
  <2>2. CASE EnqueueAppend(c)
    BY <2>2 DEF EnqueueAppend, AppendEnqueue
  <2> QED
    BY <1>1, <2>1, <2>2
<1>2. CASE Boot
  BY <1>2 DEF Boot, QueueInv, TypeOK, TicksTrackHead
<1>3. CASE RecoverFinish
  <2>1. /\ orphan = processing
        /\ processing' = None
        /\ started' = started
        /\ finished' = finished \union {processing}
        /\ phase' = "requeue"
        /\ tick' = tick
    BY <1>3 DEF RecoverFinish, AppendFinish
  <2>2. \A t \in Ticks : tick[t] = "idle"
    BY <1>3 DEF RecoverFinish, QueueInv, TicksTrackHead
  <2> QED
    BY <2>1, <2>2
<1>4. CASE RecoverRequeue
  <2>1. \A t \in Ticks : tick[t] = "idle"
    BY <1>4 DEF RecoverRequeue, QueueInv, TicksTrackHead
  <2> QED
    BY <1>4, <2>1 DEF RecoverRequeue, AppendEnqueue
<1>5. ASSUME NEW t \in Ticks, TickRead(t)
      PROVE  SerialInv'
  <2>1. Head(pending) \notin started
    BY <1>5 DEF TickRead, MayTick, QueueInv, TypeOK, ClaimedNeverWaits
  <2> QED
    BY <1>5, <2>1 DEF TickRead, MayTick, QueueInv, TypeOK
<1>6. ASSUME NEW t \in Ticks, TickStart(t)
      PROVE  SerialInv'
  <2>1. /\ processing = None
        /\ processing' = next[t]
        /\ started' = started \union {next[t]}
        /\ finished' = finished
        /\ tick' = [tick EXCEPT ![t] = "running"]
        /\ phase' = phase /\ orphan' = orphan /\ next' = next
    BY <1>6 DEF TickStart, AppendStart
  <2>2. started \subseteq finished
    BY <2>1, QueueAssumption DEF QueueInv, TypeOK, Ids
  <2>3. phase = "up"
    BY <1>6 DEF TickStart, QueueInv, TicksTrackHead
  <2>4. \A u \in Ticks : u # t => tick[u] = "idle"
    BY <1>6 DEF TickStart
  <2> QED
    BY <2>1, <2>2, <2>3, <2>4 DEF QueueInv, TypeOK
<1>7. ASSUME NEW t \in Ticks, TickHandle(t)
      PROVE  SerialInv'
  BY <1>7 DEF TickHandle, QueueInv, TypeOK
<1>8. ASSUME NEW t \in Ticks, TickFinish(t)
      PROVE  SerialInv'
  <2>1. /\ processing = next[t]
        /\ processing' = None
        /\ started' = started
        /\ finished' = finished \union {next[t]}
        /\ tick' = [tick EXCEPT ![t] = "idle"]
        /\ phase' = phase
    BY <1>8 DEF TickFinish, AppendFinish
  <2>2. phase = "up"
    BY <1>8 DEF TickFinish, QueueInv, TicksTrackHead
  <2>3. \A u \in Ticks : u # t => tick[u] = "idle"
    BY <1>8 DEF TickFinish
  <2> QED
    BY <2>1, <2>2, <2>3 DEF QueueInv, TypeOK
<1>9. CASE Crash
  BY <1>9 DEF Crash
<1>10. CASE UNCHANGED vars
  BY <1>10 DEF vars
<1> QED
  BY <1>1, <1>2, <1>3, <1>4, <1>5, <1>6, <1>7, <1>8, <1>9, <1>10
     DEF Next, Recover, Tick, Enqueue, Considers

(* The choice whether ticks overlap never changes.                         *)
LEMMA SerialFixed == [Next]_vars => serial' = serial
BY DEF Next, Recover, Tick, Enqueue, EnqueueCheck, ScheduleCheck, FallDue, Withdraw,
       EnqueueAppend, Boot, RecoverFinish, RecoverRequeue, TickRead, TickStart, TickHandle, TickFinish, Crash, vars, world

(* SerialInv holds while ticks do not overlap.                             *)
LEMMA SerialInvariant == Spec => [](QueueInv /\ (serial => SerialInv))
<1>1. QueueInv /\ (serial => SerialInv) /\ [Next]_vars
        => (QueueInv /\ (serial => SerialInv))'
  BY NextKeepsInv, NextKeepsSerialInv, SerialFixed
<1> QED
  BY <1>1, InitQueueInv, InitSerialInv, PTL DEF Spec

(* If ticks never overlap, an interrupted claim is never overlooked: the   *)
(* one id with a start and no finish is the replay's processing job, which *)
(* the next start-up fail-closes and re-queues.                            *)
THEOREM SerialForgetsNoClaim == Spec => []NoForgottenClaim
<1>1. (serial => SerialInv) => NoForgottenClaim
  BY DEF SerialInv, NoForgottenClaim
<1> QED
  BY <1>1, SerialInvariant, PTL

(* If ticks never overlap, no id is started twice, so its handler runs at  *)
(* most once.                                                              *)
THEOREM SerialClaimsOnce == Spec => ClaimedOnce
<1>1. QueueInv /\ (serial => SerialInv) =>
        [serial => \A t \in Ticks : TickStart(t) => next[t] \notin started]_vars
  BY DEF SerialInv, TickStart
<1> QED
  BY <1>1, SerialInvariant, PTL DEF ClaimedOnce
-----------------------------------------------------------------------------
(* Where the head of the queue is claimed, what waits moves up by one.     *)
LEMMA HeadRemoved ==
  ASSUME QueueInv, pending # <<>>, pending' = RemoveFirst(pending, Head(pending))
  PROVE  /\ JobsWaiting # <<>> /\ Head(JobsWaiting) = JobOf(Head(pending))
         /\ JobsWaiting' = Tail(JobsWaiting)
<1>1. pending \in Seq(Ids) /\ Distinct(pending)
  BY DEF QueueInv, TypeOK
<1>2. 1 \in 1..Len(pending) /\ Head(pending) = pending[1] /\ Len(pending) \in Nat \ {0}
  BY <1>1
<1>3. pending' = RemoveAt(pending, 1)
  BY <1>1, <1>2, RemoveFirstPresent
<1>4. /\ pending' \in Seq(Ids) /\ Len(pending') = Len(pending) - 1
      /\ \A i \in 1..(Len(pending) - 1) : pending'[i] = pending[i + 1]
  <2>1. /\ RemoveAt(pending, 1) \in Seq(Ids)
        /\ Len(RemoveAt(pending, 1)) = Len(pending) - 1
        /\ \A i \in 1..(Len(pending) - 1) :
             RemoveAt(pending, 1)[i] = IF i < 1 THEN pending[i] ELSE pending[i + 1]
    BY <1>1, <1>2, RemoveAtFacts
  <2> QED BY <1>2, <1>3, <2>1
<1>5. \A i \in 1..Len(pending) : JobOf(pending[i]) \in Calls
  BY <1>1 DEF Ids, JobOf
<1>6. /\ JobsWaiting \in Seq(Calls) /\ Len(JobsWaiting) = Len(pending)
      /\ \A i \in 1..Len(pending) : JobsWaiting[i] = JobOf(pending[i])
  BY <1>1, <1>5 DEF JobsWaiting
<1>7. \A i \in 1..(Len(pending) - 1) : i + 1 \in 1..Len(pending)
  BY <1>2
<1>8. PICK w : w = JobsWaiting'
  OBVIOUS
<1>9. /\ w \in Seq(Calls) /\ Len(w) = Len(pending) - 1
      /\ \A i \in 1..(Len(pending) - 1) : w[i] = JobOf(pending[i + 1])
  <2>1. w = [i \in 1..(Len(pending) - 1) |-> JobOf(pending[i + 1])]
    BY <1>4, <1>8 DEF JobsWaiting
  <2>2. \A i \in 1..(Len(pending) - 1) : JobOf(pending[i + 1]) \in Calls
    BY <1>5, <1>7
  <2> QED BY <1>2, <2>1, <2>2
<1>10. JobsWaiting # <<>> /\ Head(JobsWaiting) = JobOf(Head(pending))
  BY <1>2, <1>6
<1>11. /\ Tail(JobsWaiting) \in Seq(Calls) /\ Len(Tail(JobsWaiting)) = Len(pending) - 1
       /\ \A i \in 1..(Len(pending) - 1) : Tail(JobsWaiting)[i] = JobsWaiting[i + 1]
  BY <1>6, <1>10, HeadTailProperties
<1>12. \A i \in 1..(Len(pending) - 1) : w[i] = Tail(JobsWaiting)[i]
  BY <1>6, <1>7, <1>9, <1>11
<1>13. w = Tail(JobsWaiting)
  BY <1>9, <1>11, <1>12, SeqEqual
<1> QED BY <1>8, <1>10, <1>13

(* An id that is appended to the log adds its job at the end of the line.  *)
LEMMA JobAppended ==
  ASSUME TypeOK, NEW id \in Ids, pending' = Append(pending, id)
  PROVE  JobsWaiting' = Append(JobsWaiting, JobOf(id))
<1>1. pending \in Seq(Ids) /\ Len(pending) \in Nat
  BY DEF TypeOK
<1>2. \A i \in 1..Len(pending) : JobOf(pending[i]) \in Calls
  BY <1>1 DEF Ids, JobOf
<1>3. /\ JobsWaiting \in Seq(Calls) /\ Len(JobsWaiting) = Len(pending)
      /\ \A i \in 1..Len(pending) : JobsWaiting[i] = JobOf(pending[i])
  BY <1>1, <1>2 DEF JobsWaiting
<1>4. JobOf(id) \in Calls
  BY DEF Ids, JobOf
<1>5. /\ DOMAIN pending' = 1..(Len(pending) + 1)
      /\ \A i \in 1..(Len(pending) + 1) :
           pending'[i] = IF i <= Len(pending) THEN pending[i] ELSE id
  BY <1>1
<1>6. /\ Append(JobsWaiting, JobOf(id)) \in Seq(Calls)
      /\ DOMAIN Append(JobsWaiting, JobOf(id)) = 1..(Len(pending) + 1)
      /\ \A i \in 1..(Len(pending) + 1) :
           Append(JobsWaiting, JobOf(id))[i] = IF i <= Len(pending) THEN JobsWaiting[i] ELSE JobOf(id)
  BY <1>3, <1>4
<1>7. PICK w : w = JobsWaiting'
  OBVIOUS
<1>8. \A i \in 1..(Len(pending) + 1) : i <= Len(pending) => i \in 1..Len(pending)
  BY <1>1
<1>9. /\ w \in Seq(Calls) /\ Len(w) = Len(pending) + 1
      /\ \A i \in 1..(Len(pending) + 1) :
           w[i] = IF i <= Len(pending) THEN JobOf(pending[i]) ELSE JobOf(id)
  <2>1. w = [i \in 1..(Len(pending) + 1) |->
               IF i <= Len(pending) THEN JobOf(pending[i]) ELSE JobOf(id)]
    BY <1>5, <1>7 DEF JobsWaiting
  <2>2. \A i \in 1..(Len(pending) + 1) :
          (IF i <= Len(pending) THEN JobOf(pending[i]) ELSE JobOf(id)) \in Calls
    BY <1>2, <1>4, <1>8
  <2> QED BY <1>1, <2>1, <2>2
<1>10. Len(Append(JobsWaiting, JobOf(id))) = Len(pending) + 1
  BY <1>3, <1>4
<1>11. \A i \in 1..(Len(pending) + 1) : w[i] = Append(JobsWaiting, JobOf(id))[i]
  BY <1>3, <1>6, <1>8, <1>9
<1>12. w = Append(JobsWaiting, JobOf(id))
  BY <1>6, <1>9, <1>10, <1>11, SeqEqual
<1> QED BY <1>7, <1>12

(* An id stands for a job, and no job is None.                             *)
LEMMA JobsNamed ==
  /\ \A id \in Ids : ToJob(id) = JobOf(id) /\ ToJob(id) \in Calls /\ ToJob(id) # None
  /\ ToJob(None) = None
  BY QueueAssumption DEF Ids, ToJob, JobOf

(* The recovery of an interrupted claim, in one go or lost.                *)
Withdrawn == IF phase = "requeue" THEN ToJob(orphan) ELSE None

(* One tick at a time, every step of the daemon is a step of the queue, or *)
(* none at all.                                                            *)
LEMMA StepImplements ==
  ASSUME serial, QueueInv, SerialInv, [Next]_vars
  PROVE  Promise!Next \/ UNCHANGED Promise!vars
<1> DEFINE Same == /\ JobsWaiting' = JobsWaiting /\ ToJob(processing)' = ToJob(processing)
                   /\ Withdrawn' = Withdrawn /\ JobsEnded' = JobsEnded
<1>0. ASSUME Same PROVE UNCHANGED Promise!vars
  BY <1>0 DEF Promise!vars, Withdrawn
<1>1. ASSUME NEW c \in Calls, Considers(c) PROVE UNCHANGED Promise!vars
  <2>1. Same
    BY <1>1, ConsidersFacts
       DEF QueueInv, log, daemon, worker, JobsWaiting, ToJob, Withdrawn, JobsEnded
  <2> QED BY <1>0, <2>1
<1>2. ASSUME NEW c \in Calls, EnqueueAppend(c) PROVE Promise!Next
  <2>1. /\ pending' = Append(pending, <<c, 0>>) /\ processing' = processing /\ phase' = phase
        /\ orphan' = orphan /\ ended' = ended
    BY <1>2 DEF EnqueueAppend, AppendEnqueue, daemon, worker
  <2>2. <<c, 0>> \in Ids /\ JobOf(<<c, 0>>) = c
    BY DEF Ids, JobOf
  <2>3. JobsWaiting' = Append(JobsWaiting, c)
    BY <2>1, <2>2, JobAppended DEF QueueInv
  <2>4. Promise!Submit(c)
    BY <2>1, <2>3 DEF Promise!Submit, JobsEnded, ToJob
  <2> QED BY <2>4 DEF Promise!Next
<1>3. ASSUME Boot PROVE UNCHANGED Promise!vars
  <2>1. Same
    BY <1>3 DEF Boot, log, worker, JobsWaiting, ToJob, Withdrawn, JobsEnded
  <2> QED BY <1>0, <2>1
<1>4. ASSUME RecoverFinish PROVE Promise!Next
  <2>1. /\ phase = "failClose" /\ phase' = "requeue" /\ orphan' = orphan /\ ended' = ended
        /\ orphan = processing /\ orphan \in Ids
        /\ pending' = RemoveFirst(pending, orphan) /\ processing' = None
    BY <1>4 DEF RecoverFinish, AppendFinish, worker, SerialInv, QueueInv, TypeOK
  <2>2. pending' = pending
    BY <2>1, RemovalKeepsList DEF QueueInv, TypeOK, AllDrawn
  <2>3. /\ JobsWaiting' = JobsWaiting /\ JobsEnded' = JobsEnded
        /\ ToJob(processing') = None /\ ToJob(orphan') = ToJob(processing) /\ ToJob(processing) # None
    BY <2>1, <2>2, JobsNamed DEF JobsWaiting, JobsEnded
  <2>4. Promise!Withdraw
    BY <2>1, <2>3 DEF Promise!Withdraw, ToJob
  <2> QED BY <2>4 DEF Promise!Next
<1>5. ASSUME RecoverRequeue PROVE Promise!Next
  <2>1. PICK id : id = <<JobOf(orphan), latest[JobOf(orphan)] + 1>>
    OBVIOUS
  <2>2. /\ phase = "requeue" /\ phase' = "up" /\ orphan' = None /\ ended' = ended /\ orphan \in Ids
        /\ processing' = processing /\ pending' = Append(pending, id)
    BY <1>5, <2>1 DEF RecoverRequeue, AppendEnqueue, worker, QueueInv, TypeOK
  <2>3. id \in Ids /\ JobOf(id) = JobOf(orphan)
    BY <2>1, <2>2 DEF QueueInv, TypeOK, Ids, JobOf
  <2>4. JobsWaiting' = Append(JobsWaiting, ToJob(orphan)) /\ JobsEnded' = JobsEnded /\ ToJob(orphan) # None
    BY <2>2, <2>3, JobAppended, JobsNamed DEF QueueInv, JobsEnded
  <2>5. Promise!Resubmit
    BY <2>2, <2>4 DEF Promise!Resubmit, ToJob
  <2> QED BY <2>5 DEF Promise!Next
<1>6. ASSUME NEW t \in Ticks, TickRead(t) PROVE UNCHANGED Promise!vars
  <2>1. Same
    BY <1>6 DEF TickRead, log, daemon, JobsWaiting, ToJob, Withdrawn, JobsEnded
  <2> QED BY <1>0, <2>1
<1>7. ASSUME NEW t \in Ticks, TickStart(t) PROVE Promise!Next
  <2>1. /\ phase = "up" /\ processing = None /\ next[t] \notin started
        /\ pending # <<>> /\ next[t] = Head(pending) /\ next[t] \in Ids
    BY <1>7 DEF TickStart, QueueInv, TypeOK, TicksTrackHead, SerialInv
  <2>2. /\ pending' = RemoveFirst(pending, Head(pending)) /\ processing' = Head(pending)
        /\ phase' = phase /\ orphan' = orphan /\ ended' = ended
    BY <1>7, <2>1 DEF TickStart, AppendStart, daemon
  <2>3. /\ JobsWaiting # <<>> /\ Head(JobsWaiting) = JobOf(Head(pending))
        /\ JobsWaiting' = Tail(JobsWaiting)
    BY <2>1, <2>2, HeadRemoved
  <2>4. ToJob(processing) = None /\ ToJob(processing') = Head(JobsWaiting) /\ JobsEnded' = JobsEnded
    BY <2>1, <2>2, <2>3, JobsNamed DEF JobsEnded
  <2>5. Promise!Claim
    BY <2>1, <2>2, <2>3, <2>4 DEF Promise!Claim, ToJob
  <2> QED BY <2>5 DEF Promise!Next
<1>8. ASSUME NEW t \in Ticks, TickHandle(t) PROVE Promise!Next
  <2>1. /\ processing = next[t] /\ next[t] \in Ids /\ ended' = ended \union {next[t]}
        /\ pending' = pending /\ processing' = processing /\ phase' = phase /\ orphan' = orphan
    BY <1>8 DEF TickHandle, SerialInv, QueueInv, TypeOK, log, daemon
  <2>2. JobsEnded' = JobsEnded \union {ToJob(processing)} /\ ToJob(processing) # None
    BY <2>1, JobsNamed DEF JobsEnded
  <2>3. Promise!Run
    BY <2>1, <2>2 DEF Promise!Run, ToJob, JobsWaiting
  <2> QED BY <2>3 DEF Promise!Next
<1>9. ASSUME NEW t \in Ticks, TickFinish(t) PROVE Promise!Next
  <2>1. /\ processing = next[t] /\ next[t] \in Ids /\ next[t] \in ended /\ next[t] \in started
        /\ ended' = ended /\ phase' = phase /\ orphan' = orphan
        /\ processing' = None /\ pending' = RemoveFirst(pending, next[t])
    BY <1>9 DEF TickFinish, AppendFinish, SerialInv, QueueInv, TypeOK, TicksTrackHead, daemon
  <2>2. pending' = pending
    BY <2>1, RemovalKeepsList
  <2>3. ToJob(processing) \in JobsEnded /\ ToJob(processing') = None /\ JobsWaiting' = JobsWaiting
        /\ JobsEnded' = JobsEnded
    BY <2>1, <2>2, JobsNamed DEF JobsEnded, JobsWaiting
  <2>4. Promise!Retire
    BY <2>1, <2>3 DEF Promise!Retire, ToJob
  <2> QED BY <2>4 DEF Promise!Next
<1>10. ASSUME Crash PROVE Promise!Next \/ UNCHANGED Promise!vars
  <2>1. /\ JobsWaiting' = JobsWaiting /\ JobsEnded' = JobsEnded /\ processing' = processing
        /\ phase' = "down" /\ orphan' = None
    BY <1>10 DEF Crash, log, JobsWaiting, JobsEnded
  <2>2. CASE phase = "requeue"
    <3>1. ToJob(orphan) # None
      BY <2>2, JobsNamed DEF QueueInv, TypeOK
    <3>2. Promise!Lose
      BY <2>1, <2>2, <3>1 DEF Promise!Lose, ToJob
    <3> QED BY <3>2 DEF Promise!Next
  <2>3. CASE phase # "requeue"
    <3>1. Same
      BY <2>1, <2>3 DEF ToJob, Withdrawn
    <3> QED BY <1>0, <3>1
  <2> QED BY <2>2, <2>3
<1>11. CASE UNCHANGED vars
  <2>1. Same
    BY <1>11 DEF vars, log, daemon, worker, JobsWaiting, ToJob, Withdrawn, JobsEnded
  <2> QED BY <1>0, <2>1
<1> QED
  BY <1>1, <1>2, <1>3, <1>4, <1>5, <1>6, <1>7, <1>8, <1>9, <1>10, <1>11
     DEF Next, Recover, Tick, Enqueue, Considers

(* If ticks never overlap, queue.jsonl with its worker and its recovery is *)
(* the queue JobQueue promises, for any number of calls, ticks and crashes. *)
THEOREM SerialImplementsJobQueue == Spec => ImplementsJobQueue
<1>1. Init => Promise!Init
  BY JobsNamed DEF Init, Promise!Init, JobsWaiting, JobsEnded
<1>2. QueueInv /\ (serial => SerialInv) /\ [Next]_vars => [serial => Promise!Next]_(Promise!vars)
  BY StepImplements
<1> QED
  BY <1>1, <1>2, SerialInvariant, PTL DEF Spec, ImplementsJobQueue
-----------------------------------------------------------------------------
(* The processes that are at work on the lock.                             *)
Moving == Entering \union Leaving

(* Only one process is entering or leaving, and one that is past the lock  *)
(* or clearing it does so while no daemon runs.                            *)
LockInv ==
  /\ LockTypeOK
  /\ SingleInstance
  /\ HolderOnRecord
  /\ \A p, q \in Procs : at[p] \in Moving /\ at[q] \in Moving => p = q
  /\ \A p \in Procs : at[p] = "writePid" => lockFile = "present"
  /\ \A p \in Procs : at[p] \in (Moving \ {"open", "readPid"}) =>
       \A q \in Procs : at[q] # "held"

(* LockTypeOK holds at the start.                                          *)
LEMMA LockTypeInit == InitLock => LockTypeOK
BY DEF InitLock, LockTypeOK, Gone

(* Every step keeps LockTypeOK.                                            *)
LEMMA LockTypeStep == LockTypeOK /\ [NextLock]_lockVars => LockTypeOK'
<1> SUFFICES ASSUME LockTypeOK, [NextLock]_lockVars PROVE LockTypeOK'
  OBVIOUS
<1> USE DEF LockTypeOK, Entering, Leaving, Gone, Goto
<1>1. ASSUME NEW p \in Procs, Start(p) \/ Shutdown(p) \/ Release(p) \/ Die(p)
      PROVE  LockTypeOK'
  BY <1>1 DEF Start, Shutdown, Release, ReleaseLock, ReleasePid, Die
<1>2. ASSUME NEW p \in Procs, OpenExclusive(p) \/ WritePid(p) \/ ReadPid(p)
      PROVE  LockTypeOK'
  BY <1>2 DEF OpenExclusive, WritePid, ReadPid
<1>3. ASSUME NEW p \in Procs, UnlinkLock(p) \/ UnlinkPid(p)
      PROVE  LockTypeOK'
  BY <1>3 DEF UnlinkLock, UnlinkPid
<1> QED
  BY <1>1, <1>2, <1>3 DEF NextLock, Acquire, lockVars

(* The files and program counters are of their kinds, overlap or not.      *)
THEOREM LockTypeCorrect == LockSpec => []LockTypeOK
BY LockTypeInit, LockTypeStep, PTL DEF LockSpec
-----------------------------------------------------------------------------
(* LockInv holds at the start.                                             *)
LEMMA LockInit == InitLock => LockInv
BY LockTypeInit DEF InitLock, LockInv, SingleInstance, HolderOnRecord, Moving,
                    Entering, Leaving

(* Serial starts and stops keep LockInv, action by action.                 *)
LEMMA LockStep ==
  ASSUME SerialStarts, LockInv, [NextLock]_lockVars
  PROVE  LockInv'
<1>1. LockTypeOK'
  BY LockTypeStep DEF LockInv
<1> USE <1>1 DEF LockInv, LockTypeOK, SingleInstance, HolderOnRecord, Moving, Entering,
                 Leaving, Gone, Goto
<1>2. ASSUME NEW p \in Procs, Start(p)
      PROVE  LockInv'
  BY <1>2 DEF Start, MayEnterOrLeave
<1>3. ASSUME NEW p \in Procs, OpenExclusive(p)
      PROVE  LockInv'
  BY <1>3 DEF OpenExclusive
<1>4. ASSUME NEW p \in Procs, WritePid(p)
      PROVE  LockInv'
  BY <1>4 DEF WritePid
<1>5. ASSUME NEW p \in Procs, ReadPid(p)
      PROVE  LockInv'
  <2>1. Stale => \A q \in Procs : at[q] # "held"
    BY DEF Stale, Running
  <2> QED
    BY <1>5, <2>1 DEF ReadPid
<1>6. ASSUME NEW p \in Procs, UnlinkLock(p)
      PROVE  LockInv'
  BY <1>6 DEF UnlinkLock
<1>7. ASSUME NEW p \in Procs, UnlinkPid(p)
      PROVE  LockInv'
  BY <1>7 DEF UnlinkPid
<1>8. ASSUME NEW p \in Procs, Shutdown(p)
      PROVE  LockInv'
  BY <1>8 DEF Shutdown, MayEnterOrLeave
<1>9. ASSUME NEW p \in Procs, Release(p)
      PROVE  LockInv'
  BY <1>9 DEF Release, ReleaseLock, ReleasePid
<1>10. ASSUME NEW p \in Procs, Die(p)
       PROVE  LockInv'
  BY <1>10 DEF Die
<1>11. CASE UNCHANGED lockVars
  BY <1>11 DEF lockVars
<1> QED
  BY <1>2, <1>3, <1>4, <1>5, <1>6, <1>7, <1>8, <1>9, <1>10, <1>11 DEF NextLock, Acquire

(* LockInv holds of serial starts and stops.                               *)
LEMMA LockInvariant ==
  ASSUME SerialStarts
  PROVE  LockSpec => []LockInv
<1>1. LockInv /\ [NextLock]_lockVars => LockInv'
  BY LockStep
<1> QED
  BY <1>1, LockInit, PTL DEF LockSpec

(* Any number of processes, dying at any step: if starts and stops do not  *)
(* overlap, at most one runs as the daemon.                                *)
THEOREM SerialSingleInstance ==
  ASSUME SerialStarts
  PROVE  LockSpec => []SingleInstance
BY LockInvariant, PTL DEF LockInv

(* If starts and stops do not overlap, both files name the running daemon. *)
THEOREM SerialHolderOnRecord ==
  ASSUME SerialStarts
  PROVE  LockSpec => []HolderOnRecord
BY LockInvariant, PTL DEF LockInv
-----------------------------------------------------------------------------
(* Pruning drops entries and changes none.                                 *)
LEMMA PruneKeeps ==
  ASSUME NEW entries \in Entries
  PROVE  /\ PruneDedup(entries) \in Entries
         /\ \A k \in Keys : PruneDedup(entries)[k] \in {entries[k], NoMission}
  BY DEF PruneDedup, Entries

TypeInv == IngestTypeOK /\ IsFiniteSet(Begun)

(* TypeInv holds at the start.                                             *)
LEMMA TypeInit == InitIngest => TypeInv
<1> SUFFICES ASSUME InitIngest PROVE TypeInv
  OBVIOUS
<1>1. IngestTypeOK
  BY IngestAssumption DEF InitIngest, IngestTypeOK, Empty, Entries, Outcomes, Steps
<1>2. Begun = {}
  BY DEF InitIngest, Begun
<1>3. QED
  BY <1>1, <1>2, FS_EmptySet DEF TypeInv

(* An ingest that begins keeps the types and joins Begun.                  *)
LEMMA BeginTyped ==
  ASSUME TypeInv, NEW e \in Events, NEW how \in {"plain", "dry", "force"}, Begin(e, how)
  PROVE  TypeInv' /\ Begun' = Begun \union {e}
<1>1. Cardinality(Begun) \in Nat
  BY FS_CardinalityType DEF TypeInv
<1>2. IngestTypeOK'
  BY <1>1 DEF TypeInv, IngestTypeOK, Begin, Advance, Steps, stored, history, ingestWorld
<1>3. Begun' = Begun \union {e}
  <2> DEFINE n == Cardinality(Begun) + 1
  <2>1. n > 0
    BY <1>1
  <2>2. began' = [began EXCEPT ![e] = n] /\ began \in [Events -> Nat]
    BY DEF TypeInv, IngestTypeOK, Begin
  <2> HIDE DEF n
  <2>3. \A d \in Events : began'[d] = IF d = e THEN n ELSE began[d]
    BY <2>2
  <2>4. QED
    BY <2>1, <2>3 DEF Begun
<1>4. IsFiniteSet(Begun')
  BY <1>3, FS_AddElement DEF TypeInv
<1>5. QED
  BY <1>2, <1>3, <1>4 DEF TypeInv

(* Every start, replays included, is a Begin.                              *)
LEMMA StartBegins ==
  ASSUME NEW e \in Events, StartIngest(e)
  PROVE  \E how \in {"plain", "dry", "force"} : Begin(e, how)
  BY DEF StartIngest, Replay

(* Every step keeps TypeInv.                                               *)
LEMMA TypeNext == TypeInv /\ [NextIngest]_ingestVars => TypeInv'
<1> SUFFICES ASSUME TypeInv, [NextIngest]_ingestVars PROVE TypeInv'
  OBVIOUS
<1>1. ASSUME NEW e \in Events, StartIngest(e) PROVE TypeInv'
  BY <1>1, StartBegins, BeginTyped
<1>2. ASSUME began' = began, IngestTypeOK' PROVE TypeInv'
  BY <1>2 DEF TypeInv, Begun
<1> USE IngestAssumption DEF TypeInv, IngestTypeOK, stored, history, local, ingestWorld, Advance,
     WriteLog, Steps, Outcomes
<1>3. ASSUME NEW e \in Events, Ignore(e) PROVE TypeInv'
  BY <1>2, <1>3 DEF Ignore
<1>4. ASSUME NEW e \in Events, Skip(e) PROVE TypeInv'
  BY <1>2, <1>4 DEF Skip, Entries
<1>5. ASSUME NEW e \in Events, DryRun(e) PROVE TypeInv'
  BY <1>2, <1>5 DEF DryRun
<1>6. ASSUME NEW e \in Events, Admit(e) PROVE TypeInv'
  BY <1>2, <1>6 DEF Admit
<1>7. ASSUME NEW e \in Events, CreateMission(e) PROVE TypeInv'
  BY <1>2, <1>7 DEF CreateMission
<1>8. ASSUME NEW e \in Events, AddNotes(e) PROVE TypeInv'
  BY <1>2, <1>8 DEF AddNotes
<1>9. ASSUME NEW e \in Events, ReadIndex(e) PROVE TypeInv'
  BY <1>2, <1>9 DEF ReadIndex
<1>10. ASSUME NEW e \in Events, WriteIndex(e) PROVE TypeInv'
  <2> DEFINE entries == [seen[e] EXCEPT ![key[e]] = e]
  <2>1. entries \in Entries
    BY DEF Entries
  <2>2. PruneDedup(entries) \in Entries
    BY <2>1, PruneKeeps
  <2>3. Live(index) \subseteq Keys /\ Empty \in Entries
    BY DEF Live, Empty, Entries
  <2> HIDE DEF entries
  <2>4. index' = PruneDedup(entries)
        /\ pruned' = pruned \union (Live(index) \ Live(PruneDedup(entries)))
    BY <1>10 DEF WriteIndex, entries
  <2>5. QED
    BY <1>2, <1>10, <2>2, <2>3, <2>4 DEF WriteIndex
<1>11. ASSUME NEW e \in Events, LogMatched(e) PROVE TypeInv'
  BY <1>2, <1>11 DEF LogMatched
<1>12. ASSUME NEW e \in Events, Followup(e) PROVE TypeInv'
  BY <1>2, <1>12 DEF Followup
<1>13. ASSUME NEW e \in Events, Throws(e) PROVE TypeInv'
  BY <1>2, <1>13 DEF Throws
<1>14. ASSUME NEW e \in Events, LogError(e) PROVE TypeInv'
  BY <1>2, <1>14 DEF LogError
<1>15. ASSUME NEW e \in Events, IngestDies(e) PROVE TypeInv'
  BY <1>2, <1>15 DEF IngestDies
<1>16. CASE UNCHANGED ingestVars
  BY <1>2, <1>16 DEF ingestVars
<1>17. QED
  BY <1>1, <1>3, <1>4, <1>5, <1>6, <1>7, <1>8, <1>9, <1>10, <1>11, <1>12, <1>13,
     <1>14, <1>15, <1>16 DEF NextIngest, Step

(* The files of trigger ingestion keep their types.                        *)
THEOREM IngestTypeCorrect == IngestSpec => []IngestTypeOK
<1>1. TypeInv => IngestTypeOK
  BY DEF TypeInv
<1>2. QED
  BY TypeInit, TypeNext, <1>1, PTL DEF IngestSpec
-----------------------------------------------------------------------------
(* Whatever an ingest has read of the index, or is about to write, names   *)
(* missions that exist, each under its own key.                            *)
Valid(entries) == \A k \in Keys : entries[k] # NoMission => entries[k] \in missions /\ key[entries[k]] = k
Creating == {"note", "record", "write", "log", "followup"}
SkipInv ==
  /\ TypeInv
  /\ Valid(index)
  /\ \A e \in Events : Valid(seen[e])
  /\ \A e \in Events : pc[e] \in Creating => e \in missions
  /\ SkipsAreDuplicates

(* SkipInv holds at the start.                                             *)
LEMMA SkipInit == InitIngest => SkipInv
  BY TypeInit DEF InitIngest, SkipInv, Valid, Empty, Creating, SkipsAreDuplicates

(* Every step keeps SkipInv.                                               *)
LEMMA SkipNext == SkipInv /\ [NextIngest]_ingestVars => SkipInv'
<1> SUFFICES ASSUME SkipInv, [NextIngest]_ingestVars PROVE SkipInv'
  OBVIOUS
<1>t. IngestTypeOK /\ TypeInv'
  BY TypeNext DEF SkipInv, TypeInv
<1>1. ASSUME NEW e \in Events, StartIngest(e) PROVE SkipInv'
  <2>1. PICK how \in {"plain", "dry", "force"} : Begin(e, how)
    BY <1>1, StartBegins
  <2>2. QED
    BY <1>t, <2>1 DEF Begin, SkipInv, IngestTypeOK, Advance, stored, Valid, Creating, SkipsAreDuplicates
<1>2. ASSUME NEW e \in Events, WriteIndex(e) PROVE SkipInv'
  <2> DEFINE entries == [seen[e] EXCEPT ![key[e]] = e]
  <2>1. entries \in Entries
    BY <1>t DEF IngestTypeOK, Entries
  <2>2. e \in missions
    BY <1>2 DEF WriteIndex, SkipInv, Creating
  <2>3. Valid(entries)
    BY <1>t, <2>2 DEF SkipInv, Valid, IngestTypeOK, Entries
  <2>4. Valid(PruneDedup(entries))
    BY <2>1, <2>3, PruneKeeps DEF Valid
  <2>5. index' = PruneDedup(entries)
    BY <1>2 DEF WriteIndex
  <2> HIDE DEF entries
  <2>6. missions' = missions /\ key' = key /\ eventLog' = eventLog /\ cited' = cited
        /\ seen' = [seen EXCEPT ![e] = Empty] /\ pc' = [pc EXCEPT ![e] = "log"]
    BY <1>2 DEF WriteIndex, Advance
  <2>7. Valid(index)'
    BY <2>4, <2>5, <2>6 DEF Valid
  <2>8. \A d \in Events : Valid(seen[d])'
    BY <1>t, <2>6 DEF SkipInv, Valid, IngestTypeOK, Empty
  <2>9. \A d \in Events : (pc[d] \in Creating)' => d \in missions'
    BY <1>t, <2>2, <2>6 DEF SkipInv, IngestTypeOK, Creating
  <2>10. SkipsAreDuplicates'
    BY <2>6 DEF SkipInv, SkipsAreDuplicates
  <2>11. QED
    BY <1>t, <2>7, <2>8, <2>9, <2>10 DEF SkipInv
<1> USE DEF SkipInv, IngestTypeOK, Advance, WriteLog, stored, history, Valid, Creating, SkipsAreDuplicates
<1>3. ASSUME NEW e \in Events, Ignore(e) PROVE SkipInv'
  BY <1>t, <1>3 DEF Ignore
<1>4. ASSUME NEW e \in Events, Skip(e) PROVE SkipInv'
  BY <1>t, <1>4 DEF Skip
<1>5. ASSUME NEW e \in Events, DryRun(e) PROVE SkipInv'
  BY <1>t, <1>5 DEF DryRun
<1>6. ASSUME NEW e \in Events, Admit(e) PROVE SkipInv'
  BY <1>t, <1>6 DEF Admit
<1>7. ASSUME NEW e \in Events, CreateMission(e) PROVE SkipInv'
  BY <1>t, <1>7 DEF CreateMission
<1>8. ASSUME NEW e \in Events, AddNotes(e) PROVE SkipInv'
  BY <1>t, <1>8 DEF AddNotes
<1>9. ASSUME NEW e \in Events, ReadIndex(e) PROVE SkipInv'
  BY <1>t, <1>9 DEF ReadIndex
<1>11. ASSUME NEW e \in Events, LogMatched(e) PROVE SkipInv'
  BY <1>t, <1>11 DEF LogMatched
<1>12. ASSUME NEW e \in Events, Followup(e) PROVE SkipInv'
  BY <1>t, <1>12 DEF Followup
<1>13. ASSUME NEW e \in Events, Throws(e) PROVE SkipInv'
  BY <1>t, <1>13 DEF Throws
<1>14. ASSUME NEW e \in Events, LogError(e) PROVE SkipInv'
  BY <1>t, <1>14 DEF LogError
<1>15. ASSUME NEW e \in Events, IngestDies(e) PROVE SkipInv'
  BY <1>t, <1>15 DEF IngestDies
<1>16. CASE UNCHANGED ingestVars
  BY <1>t, <1>16 DEF ingestVars, local, TypeInv, Begun
<1>17. QED
  BY <1>1, <1>2, <1>3, <1>4, <1>5, <1>6, <1>7, <1>8, <1>9, <1>11, <1>12, <1>13,
     <1>14, <1>15, <1>16 DEF NextIngest, Step

(* However the ingests overlap, an event is only skipped as a duplicate of *)
(* a mission that exists and was created for its key.                      *)
THEOREM SkipsAreAlwaysDuplicates == IngestSpec => []SkipsAreDuplicates
<1>1. SkipInv => SkipsAreDuplicates
  BY DEF SkipInv
<1>2. QED
  BY SkipInit, SkipNext, <1>1, PTL DEF IngestSpec
-----------------------------------------------------------------------------
(* An ingest that reaches its follow-up has its line.                      *)
Noted == \A e \in Events : pc[e] = "followup" => eventLog[e] # "none"

(* A step that is no death leaves nobody without a line who had not gone   *)
(* without it before.                                                      *)
LEMMA UnloggedShrinks ==
  ASSUME IngestTypeOK, Noted, NEW e \in Events, StartIngest(e) \/ Step(e) \/ Throws(e)
  PROVE  Unlogged' \subseteq Unlogged /\ Noted'
<1> USE DEF IngestTypeOK, Noted, Unlogged, Advance, WriteLog, stored
<1>1. CASE StartIngest(e)
  <2>1. PICK how \in {"plain", "dry", "force"} : Begin(e, how)
    BY <1>1, StartBegins
  <2>2. QED
    BY <2>1 DEF Begin
<1>2. CASE Ignore(e)
  BY <1>2 DEF Ignore
<1>3. CASE Skip(e)
  BY <1>3 DEF Skip
<1>4. CASE DryRun(e)
  BY <1>4 DEF DryRun
<1>5. CASE Admit(e)
  BY <1>5 DEF Admit
<1>6. CASE CreateMission(e)
  BY <1>6 DEF CreateMission
<1>7. CASE AddNotes(e)
  BY <1>7 DEF AddNotes
<1>8. CASE ReadIndex(e)
  BY <1>8 DEF ReadIndex
<1>9. CASE WriteIndex(e)
  BY <1>9 DEF WriteIndex
<1>10. CASE LogMatched(e)
  BY <1>10 DEF LogMatched
<1>11. CASE Followup(e)
  BY <1>11 DEF Followup
<1>12. CASE Throws(e)
  BY <1>12 DEF Throws
<1>13. CASE LogError(e)
  BY <1>13 DEF LogError
<1>14. QED
  BY <1>1, <1>2, <1>3, <1>4, <1>5, <1>6, <1>7, <1>8, <1>9, <1>10, <1>11, <1>12,
     <1>13 DEF Step

LoggedInv == TypeInv /\ Noted /\ IsFiniteSet(Unlogged) /\ UnloggedDied

(* Every step keeps LoggedInv.                                             *)
LEMMA LoggedNext == LoggedInv /\ [NextIngest]_ingestVars => LoggedInv'
<1> SUFFICES ASSUME LoggedInv, [NextIngest]_ingestVars PROVE LoggedInv'
  OBVIOUS
<1>t. TypeInv /\ IngestTypeOK /\ TypeInv'
  BY TypeNext DEF LoggedInv, TypeInv
<1>n. deaths \in Nat /\ Cardinality(Unlogged) \in Nat
  BY <1>t, IngestAssumption, FS_CardinalityType DEF LoggedInv, IngestTypeOK
<1>1. ASSUME Unlogged' \subseteq Unlogged, Noted', deaths' = deaths
      PROVE  LoggedInv'
  <2>1. IsFiniteSet(Unlogged') /\ Cardinality(Unlogged') <= Cardinality(Unlogged)
    BY <1>1, FS_Subset DEF LoggedInv
  <2>2. Cardinality(Unlogged') \in Nat
    BY <2>1, FS_CardinalityType
  <2>3. Cardinality(Unlogged') <= deaths'
    BY <1>1, <1>n, <2>1, <2>2 DEF LoggedInv, UnloggedDied
  <2>4. QED
    BY <1>t, <1>1, <2>1, <2>3 DEF LoggedInv, UnloggedDied
<1>2. ASSUME NEW e \in Events, StartIngest(e) \/ Step(e) \/ Throws(e) PROVE LoggedInv'
  <2>1. deaths' = deaths
    BY <1>2 DEF StartIngest, Replay, Begin, Step, Ignore, Skip, DryRun, Admit,
       CreateMission, AddNotes, ReadIndex, WriteIndex, LogMatched, Followup,
       Throws, LogError, ingestWorld
  <2>2. QED
    BY <1>t, <1>1, <1>2, <2>1, UnloggedShrinks DEF LoggedInv
<1>3. ASSUME NEW e \in Events, IngestDies(e) PROVE LoggedInv'
  <2>1. eventLog' = eventLog /\ pc' = [pc EXCEPT ![e] = "over"] /\ deaths' = deaths + 1
    BY <1>3 DEF IngestDies, Advance, stored
  <2>2. Unlogged' \subseteq Unlogged \union {e} /\ Noted'
    BY <1>t, <2>1 DEF LoggedInv, Unlogged, Noted, IngestTypeOK
  <2>3. /\ IsFiniteSet(Unlogged \union {e})
        /\ Cardinality(Unlogged \union {e}) \in Nat
        /\ Cardinality(Unlogged \union {e}) <= Cardinality(Unlogged) + 1
    <3>1. IsFiniteSet(Unlogged)
      BY DEF LoggedInv
    <3>2. /\ IsFiniteSet(Unlogged \union {e})
          /\ \/ Cardinality(Unlogged \union {e}) = Cardinality(Unlogged)
             \/ Cardinality(Unlogged \union {e}) = Cardinality(Unlogged) + 1
      BY <3>1, FS_AddElement
    <3>3. QED
      BY <1>n, <3>2
  <2>4. /\ IsFiniteSet(Unlogged')
        /\ Cardinality(Unlogged') <= Cardinality(Unlogged \union {e})
    BY <2>2, <2>3, FS_Subset
  <2>5. Cardinality(Unlogged') \in Nat
    BY <2>4, FS_CardinalityType
  <2>6. Cardinality(Unlogged') <= deaths'
    BY <1>n, <2>1, <2>3, <2>4, <2>5 DEF LoggedInv, UnloggedDied
  <2>7. QED
    BY <1>t, <2>2, <2>4, <2>6 DEF LoggedInv, UnloggedDied
<1>4. CASE UNCHANGED ingestVars
  BY <1>1, <1>4 DEF ingestVars, stored, local, ingestWorld, LoggedInv, Noted, Unlogged
<1>5. QED
  BY <1>2, <1>3, <1>4 DEF NextIngest

(* However the ingests overlap, fail and die: each of those that are over  *)
(* and have no line in the event memory is one that died.                  *)
THEOREM UnloggedHaveDied == IngestSpec => []UnloggedDied
<1>1. InitIngest => LoggedInv
  <2> SUFFICES ASSUME InitIngest PROVE LoggedInv
    OBVIOUS
  <2>1. Unlogged = {} /\ deaths = 0 /\ Noted
    BY DEF InitIngest, Unlogged, Noted
  <2>2. QED
    BY <2>1, TypeInit, FS_EmptySet DEF LoggedInv, UnloggedDied
<1>2. LoggedInv => UnloggedDied
  BY DEF LoggedInv
<1>3. QED
  BY <1>1, LoggedNext, <1>2, PTL DEF IngestSpec
-----------------------------------------------------------------------------
(* One ingest at a time: the one in flight began last, knows the index as  *)
(* it is, and creates a mission only where the index names none.           *)
Alone == \A d, e \in InFlight : d = e
Informed == \A e \in Events : pc[e] = "write" => seen[e] = index
Known == recorded \subseteq missions /\ missions \subseteq Begun /\ InFlight \subseteq Begun
BeganLast == \A e \in InFlight, d \in Begun : d # e => began[d] < began[e]
Counted == \A e \in Begun : began[e] <= Cardinality(Begun)
Waiting == \A e \in Events : pc[e] = "idle" => e \notin Begun
Entitled == \A e \in Events : pc[e] = "create" => mode[e] = "force" \/ index[key[e]] = NoMission
Latest ==
  \A e \in recorded : key[e] \notin pruned =>
    index[key[e]] # NoMission /\ began[e] <= began[index[key[e]]]
Reasoned ==
  \A d, e \in missions :
    began[d] < began[e] /\ key[d] = key[e] =>
      mode[e] = "force" \/ d \notin recorded \/ key[d] \in pruned
InTurnInv ==
  /\ SkipInv
  /\ Alone /\ Informed /\ Known /\ BeganLast /\ Counted /\ Waiting /\ Entitled
  /\ Latest
  /\ Reasoned

(* InTurnInv holds at the start.                                           *)
LEMMA SerialInit == InitIngest => InTurnInv
  BY SkipInit DEF InitIngest, InTurnInv, Alone, Informed, Known, BeganLast, Counted, Waiting, Entitled,
     Latest, Reasoned, InFlight, Begun

(* Most steps of an ingest leave the index and the missions alone.         *)
Quiet(e) ==
  /\ e \in InFlight
  /\ \E step \in Steps \ {"idle", "create", "write"} : pc' = [pc EXCEPT ![e] = step]
  /\ UNCHANGED <<index, missions, key, mode, began, seen, recorded, pruned>>

(* The steps that are quiet.                                               *)
LEMMA QuietSteps ==
  ASSUME NEW e \in Events,
         \/ Ignore(e) \/ Skip(e) \/ DryRun(e) \/ AddNotes(e) \/ LogMatched(e)
         \/ Followup(e) \/ Throws(e) \/ LogError(e) \/ IngestDies(e)
  PROVE  Quiet(e)
<1> USE DEF Quiet, InFlight, Advance, Steps, stored, history
<1>1. CASE Ignore(e)
  BY <1>1 DEF Ignore
<1>2. CASE Skip(e)
  BY <1>2 DEF Skip
<1>3. CASE DryRun(e)
  BY <1>3 DEF DryRun
<1>4. CASE AddNotes(e)
  BY <1>4 DEF AddNotes
<1>5. CASE LogMatched(e)
  BY <1>5 DEF LogMatched
<1>6. CASE Followup(e)
  BY <1>6 DEF Followup
<1>7. CASE Throws(e)
  BY <1>7 DEF Throws
<1>8. CASE LogError(e)
  BY <1>8 DEF LogError
<1>9. CASE IngestDies(e)
  BY <1>9 DEF IngestDies
<1>10. QED
  BY <1>1, <1>2, <1>3, <1>4, <1>5, <1>6, <1>7, <1>8, <1>9

(* A quiet step keeps InTurnInv.                                           *)
LEMMA QuietNext ==
  ASSUME InTurnInv, SkipInv', NEW e \in Events, Quiet(e)
  PROVE  InTurnInv'
<1>t. IngestTypeOK
  BY DEF InTurnInv, SkipInv, TypeInv
<1>1. InFlight' \subseteq InFlight /\ Begun' = Begun
  BY <1>t DEF Quiet, InFlight, Begun, IngestTypeOK
<1>2. Alone' /\ Known' /\ BeganLast' /\ Counted'
  BY <1>1 DEF InTurnInv, Quiet, Alone, Known, BeganLast, Counted
<1>3. Informed' /\ Waiting' /\ Entitled'
  BY <1>t, <1>1 DEF InTurnInv, Quiet, IngestTypeOK, Informed, Waiting, Entitled
<1>4. Latest' /\ Reasoned'
  BY DEF InTurnInv, Quiet, Latest, Reasoned
<1>5. QED
  BY <1>2, <1>3, <1>4 DEF InTurnInv

(* A serial ingest that begins keeps InTurnInv.                            *)
LEMMA SerialBegin ==
  ASSUME InTurnInv, SkipInv', inTurn, NEW e \in Events,
         NEW how \in {"plain", "dry", "force"}, Begin(e, how)
  PROVE  InTurnInv'
<1>t. TypeInv /\ IngestTypeOK /\ InFlight = {} /\ Cardinality(Begun) \in Nat
  BY FS_CardinalityType DEF InTurnInv, SkipInv, TypeInv, Begin
<1>1. Begun' = Begun \union {e}
  BY <1>t, BeginTyped
<1>2. InFlight' = {e}
  BY <1>t DEF Begin, Advance, InFlight, IngestTypeOK
<1>3. \A d \in Events : began'[d] = IF d = e THEN Cardinality(Begun) + 1 ELSE began[d]
  BY <1>t DEF Begin, IngestTypeOK
<1>4. e \notin Begun
  BY DEF InTurnInv, Waiting, Begin
<1>5. Cardinality(Begun') = Cardinality(Begun) + 1
  BY <1>1, <1>4, <1>t, FS_AddElement DEF TypeInv
<1>6. \A d \in Begun : began'[d] \in Nat /\ began'[d] <= Cardinality(Begun) /\ d # e
  BY <1>3, <1>4, <1>t DEF InTurnInv, Counted, Begun, IngestTypeOK
<1>7. began'[e] = Cardinality(Begun) + 1
  BY <1>3
<1>8. Alone' /\ BeganLast' /\ Counted'
  BY <1>t, <1>1, <1>2, <1>5, <1>6, <1>7 DEF Alone, BeganLast, Counted
<1>9. Known'
  BY <1>1, <1>2 DEF InTurnInv, Known, Begin, stored, history
<1>10. Informed' /\ Waiting' /\ Entitled'
  BY <1>t, <1>1 DEF Begin, Advance, InTurnInv, IngestTypeOK, Informed, Waiting, Entitled, InFlight, stored
<1>11. \A d \in missions : d # e /\ d \in Events /\ began'[d] = began[d]
      /\ mode'[d] = mode[d]
  BY <1>3, <1>4, <1>t DEF Begin, InTurnInv, Known, Begun, IngestTypeOK
<1>12. UNCHANGED <<index, missions, key, recorded, pruned>>
  BY DEF Begin, stored, history
<1>13. Reasoned'
  BY <1>11, <1>12 DEF InTurnInv, Reasoned
<1>14. Latest'
  BY <1>t, <1>11, <1>12 DEF InTurnInv, SkipInv, Valid, Known, Latest, IngestTypeOK
<1>15. QED
  BY <1>8, <1>9, <1>10, <1>13, <1>14 DEF InTurnInv

(* Admitting an event keeps InTurnInv.                                     *)
LEMMA SerialAdmit ==
  ASSUME InTurnInv, SkipInv', NEW e \in Events, Admit(e)
  PROVE  InTurnInv'
<1>t. IngestTypeOK
  BY DEF InTurnInv, SkipInv, TypeInv
<1>1. InFlight' = InFlight /\ Begun' = Begun
  BY <1>t DEF Admit, Advance, InFlight, Begun, IngestTypeOK
<1>2. Alone' /\ Known' /\ BeganLast' /\ Counted'
  BY <1>1 DEF InTurnInv, Admit, stored, history, Alone, Known, BeganLast, Counted
<1>3. Informed' /\ Waiting' /\ Entitled'
  BY <1>t, <1>1 DEF InTurnInv, Admit, Advance, stored, IngestTypeOK, Informed, Waiting, Entitled
<1>4. Latest' /\ Reasoned'
  BY DEF InTurnInv, Admit, stored, history, Latest, Reasoned
<1>5. QED
  BY <1>2, <1>3, <1>4 DEF InTurnInv

(* Creating the mission keeps InTurnInv: no other one is named.            *)
LEMMA SerialCreate ==
  ASSUME InTurnInv, SkipInv', NEW e \in Events, CreateMission(e)
  PROVE  InTurnInv'
<1>t. IngestTypeOK /\ e \in InFlight /\ e \in Begun
  BY DEF InTurnInv, SkipInv, TypeInv, CreateMission, InFlight, Known
<1>1. InFlight' = InFlight /\ Begun' = Begun
  BY <1>t DEF CreateMission, Advance, InFlight, Begun, IngestTypeOK
<1>2. Alone' /\ Known' /\ BeganLast' /\ Counted'
  BY <1>t, <1>1 DEF InTurnInv, CreateMission, history, Alone, Known, BeganLast, Counted
<1>3. Informed' /\ Waiting' /\ Entitled'
  BY <1>t, <1>1 DEF InTurnInv, CreateMission, Advance, IngestTypeOK, Informed, Waiting, Entitled
<1>4. Latest'
  BY DEF InTurnInv, CreateMission, history, Latest
<1>5. \A d \in missions :
        /\ d # e => began[d] < began[e]
        /\ key[d] = key[e] => mode[e] = "force" \/ d \notin recorded \/ key[d] \in pruned
  BY <1>t DEF InTurnInv, Known, BeganLast, CreateMission, Entitled, Latest
<1>6. Reasoned'
  <2> SUFFICES ASSUME NEW c \in missions', NEW d \in missions',
                      began[c] < began[d], key[c] = key[d]
               PROVE  mode[d] = "force" \/ c \notin recorded \/ key[c] \in pruned
    BY DEF CreateMission, history, Reasoned
  <2>1. c \in missions \union {e} /\ d \in missions \union {e}
    BY DEF CreateMission
  <2>2. \A x \in Events : began[x] \in Nat
    BY <1>t DEF IngestTypeOK
  <2>3. missions \subseteq Events
    BY <1>t DEF IngestTypeOK
  <2>4. c \in missions
    BY <1>5, <2>1, <2>2, <2>3
  <2>5. CASE d \in missions
    BY <2>4, <2>5 DEF InTurnInv, Reasoned
  <2>6. CASE d = e
    BY <1>5, <2>4, <2>6
  <2>7. QED
    BY <2>1, <2>5, <2>6
<1>7. QED
  BY <1>2, <1>3, <1>4, <1>6 DEF InTurnInv

(* Reading the index keeps InTurnInv.                                      *)
LEMMA SerialRead ==
  ASSUME InTurnInv, SkipInv', NEW e \in Events, ReadIndex(e)
  PROVE  InTurnInv'
<1>t. IngestTypeOK
  BY DEF InTurnInv, SkipInv, TypeInv
<1>1. InFlight' = InFlight /\ Begun' = Begun
  BY <1>t DEF ReadIndex, Advance, InFlight, Begun, IngestTypeOK
<1>2. Alone' /\ Known' /\ BeganLast' /\ Counted'
  BY <1>1 DEF InTurnInv, ReadIndex, stored, history, Alone, Known, BeganLast, Counted
<1>3. Informed' /\ Waiting' /\ Entitled'
  BY <1>t, <1>1 DEF InTurnInv, ReadIndex, Advance, stored, IngestTypeOK, Informed, Waiting, Entitled
<1>4. Latest' /\ Reasoned'
  BY DEF InTurnInv, ReadIndex, stored, history, Latest, Reasoned
<1>5. QED
  BY <1>2, <1>3, <1>4 DEF InTurnInv

(* The entry that was just written is the youngest, so pruning keeps it.   *)
LEMMA YoungestKept ==
  ASSUME NEW entries \in Entries, NEW k \in Live(entries),
         Younger(entries, k) = {}
  PROVE  PruneDedup(entries)[k] = entries[k]
  BY IngestAssumption, FS_EmptySet DEF PruneDedup, Live

(* Writing the index keeps InTurnInv: the new entry stays.                 *)
LEMMA SerialWrite ==
  ASSUME InTurnInv, SkipInv', NEW e \in Events, WriteIndex(e)
  PROVE  InTurnInv'
<1> DEFINE entries == [index EXCEPT ![key[e]] = e]
<1>t. IngestTypeOK /\ e \in InFlight /\ e \in Begun /\ e \in missions /\ seen[e] = index
      /\ key[e] \in Keys /\ index \in Entries /\ e # NoMission
  BY IngestAssumption
     DEF InTurnInv, SkipInv, TypeInv, IngestTypeOK, WriteIndex, InFlight, Known, Informed, Creating
<1>1. InFlight' = InFlight /\ Begun' = Begun
  BY <1>t DEF WriteIndex, Advance, InFlight, Begun, IngestTypeOK
<1>2. Alone' /\ Known' /\ BeganLast' /\ Counted'
  BY <1>t, <1>1 DEF InTurnInv, WriteIndex, Alone, Known, BeganLast, Counted
<1>3. pc' = [pc EXCEPT ![e] = "log"] /\ UNCHANGED <<key, mode, missions, began>>
  BY DEF WriteIndex, Advance
<1>4. \A d \in Events : pc'[d] \notin {"write", "create"}
  BY <1>t, <1>3 DEF InTurnInv, Alone, InFlight, IngestTypeOK
<1>5. Informed' /\ Waiting' /\ Entitled'
  BY <1>t, <1>1, <1>3, <1>4 DEF InTurnInv, Informed, Waiting, Entitled, IngestTypeOK
<1>6. index' = PruneDedup(entries) /\ recorded' = recorded \union {e}
      /\ pruned' = pruned \union (Live(index) \ Live(PruneDedup(entries)))
  BY <1>t DEF WriteIndex
<1>7. entries \in Entries /\ entries[key[e]] = e
      /\ \A k \in Keys : k # key[e] => entries[k] = index[k]
  BY <1>t DEF Entries
<1> HIDE DEF entries
<1>8. \A d \in missions : began[d] <= began[e]
  BY <1>t DEF InTurnInv, Known, BeganLast, IngestTypeOK
<1>9. \A k \in Live(entries) : entries[k] \in missions
  BY <1>t, <1>7 DEF InTurnInv, SkipInv, Valid, Live
<1>10. key[e] \in Live(entries) /\ Younger(entries, key[e]) = {}
  <2>1. \A d \in Events : began[d] \in Nat
    BY <1>t DEF IngestTypeOK
  <2>2. \A k \in Live(entries) : ~(began[entries[k]] > began[e])
    BY <1>8, <1>9, <1>t, <2>1 DEF IngestTypeOK
  <2>3. QED
    BY <1>t, <1>7, <2>2 DEF Live, Younger
<1>11. index'[key[e]] = e
  BY <1>6, <1>7, <1>10, YoungestKept
<1>12. Latest'
  <2> SUFFICES ASSUME NEW d \in recorded', key[d] \notin pruned'
               PROVE  index'[key[d]] # NoMission /\ began[d] <= began[index'[key[d]]]
    BY <1>3 DEF Latest
  <2>1. d \in missions
    BY <1>t, <1>6 DEF InTurnInv, Known
  <2>2. CASE key[d] = key[e]
    BY <1>8, <1>11, <1>t, <2>1, <2>2
  <2>3. CASE key[d] # key[e]
    <3>1. d \in recorded /\ key[d] \notin pruned /\ key[d] \in Keys
      BY <1>6, <1>t, <2>1, <2>3 DEF IngestTypeOK
    <3>2. index[key[d]] # NoMission /\ began[d] <= began[index[key[d]]]
      BY <3>1 DEF InTurnInv, Latest
    <3>3. PruneDedup(entries)[key[d]] # NoMission
      BY <1>6, <3>1, <3>2 DEF Live
    <3>4. index'[key[d]] = index[key[d]]
      BY <1>6, <1>7, <2>3, <3>1, <3>3, PruneKeeps
    <3>5. QED
      BY <3>2, <3>4
  <2>4. QED
    BY <2>2, <2>3
<1>13. Reasoned'
  <2> SUFFICES ASSUME NEW c \in missions, NEW d \in missions,
                      began[c] < began[d], key[c] = key[d]
               PROVE  mode[d] = "force" \/ c \notin recorded' \/ key[c] \in pruned'
    BY <1>3 DEF Reasoned
  <2>1. c # e
    BY <1>8, <1>t DEF IngestTypeOK
  <2>2. QED
    BY <1>6, <2>1 DEF InTurnInv, Reasoned
<1>14. QED
  BY <1>2, <1>5, <1>12, <1>13 DEF InTurnInv

(* Serial ingests keep InTurnInv, action by action.                        *)
LEMMA SerialNext ==
  ASSUME InTurnInv, inTurn, [NextIngest]_ingestVars
  PROVE  InTurnInv'
<1>s. SkipInv'
  BY SkipNext DEF InTurnInv
<1>1. ASSUME NEW e \in Events, StartIngest(e) PROVE InTurnInv'
  BY <1>1, <1>s, StartBegins, SerialBegin
<1>2. ASSUME NEW e \in Events,
             \/ Ignore(e) \/ Skip(e) \/ DryRun(e) \/ AddNotes(e) \/ LogMatched(e)
             \/ Followup(e) \/ Throws(e) \/ LogError(e) \/ IngestDies(e)
      PROVE  InTurnInv'
  <2>1. Quiet(e)
    BY <1>2, QuietSteps
  <2>2. QED
    BY <1>s, <2>1, QuietNext
<1>3. ASSUME NEW e \in Events, Admit(e) PROVE InTurnInv'
  BY <1>3, <1>s, SerialAdmit
<1>4. ASSUME NEW e \in Events, CreateMission(e) PROVE InTurnInv'
  BY <1>4, <1>s, SerialCreate
<1>5. ASSUME NEW e \in Events, ReadIndex(e) PROVE InTurnInv'
  BY <1>5, <1>s, SerialRead
<1>6. ASSUME NEW e \in Events, WriteIndex(e) PROVE InTurnInv'
  BY <1>6, <1>s, SerialWrite
<1>7. CASE UNCHANGED ingestVars
  BY <1>7, <1>s DEF ingestVars, stored, local, history, InTurnInv, Alone, Informed, Known,
     BeganLast, Counted, Waiting, Entitled, Latest, Reasoned, InFlight, Begun
<1>8. QED
  BY <1>1, <1>2, <1>3, <1>4, <1>5, <1>6, <1>7 DEF NextIngest, Step

(* Whether ingests run one at a time is settled at the start.              *)
LEMMA InTurnFixed == [NextIngest]_ingestVars => inTurn' = inTurn
  BY DEF NextIngest, StartIngest, Replay, Begin, Step, Ignore, Skip, DryRun, Admit,
     CreateMission, AddNotes, ReadIndex, WriteIndex, LogMatched, Followup,
     Throws, LogError, IngestDies, ingestWorld, ingestVars

(* Serial ingests keep the invariant above.                                *)
THEOREM InTurnInvariant == IngestSpec => [](inTurn => InTurnInv)
<1>1. (inTurn => InTurnInv) /\ [NextIngest]_ingestVars => (inTurn => InTurnInv)'
  BY SerialNext, InTurnFixed
<1>2. QED
  BY SerialInit, <1>1, PTL DEF IngestSpec

(* Ingests one at a time: a key gets a second mission only by force, after *)
(* an ingest that never recorded its own, or after the index forgot it.    *)
THEOREM SerialSecondHasReason == IngestSpec => []SecondHasReason
<1>1. (inTurn => InTurnInv) => SecondHasReason
  BY DEF InTurnInv, Reasoned, SecondHasReason
<1>2. QED
  BY InTurnInvariant, <1>1, PTL

(* Ingests one at a time: the index names the latest mission of a key.     *)
THEOREM SerialLatestIsNamed == IngestSpec => []LatestIsNamed
<1>1. (inTurn => InTurnInv) => LatestIsNamed
  BY DEF InTurnInv, Latest, LatestIsNamed
<1>2. QED
  BY InTurnInvariant, <1>1, PTL
=============================================================================
