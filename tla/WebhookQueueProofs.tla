-------------------------- MODULE WebhookQueueProofs --------------------------
(***************************************************************************)
(* What TLAPS proves of WebhookQueue, for any number of events and webhook *)
(* requests and any faults.                                                *)
(***************************************************************************)
EXTENDS WebhookQueue, FiniteSetTheorems, TLAPS

USE DEF Answer, delivery

LEMMA AppendFacts ==
  ASSUME NEW q \in Seq(Job), NEW j \in Job
  PROVE  /\ Append(q, j) \in Seq(Job)
         /\ DOMAIN q = 1 .. Len(q) /\ Len(q) \in Nat
         /\ DOMAIN Append(q, j) = 1 .. Len(q) + 1
         /\ \A i \in DOMAIN q : Append(q, j)[i] = q[i]
         /\ Append(q, j)[Len(q) + 1] = j
         /\ \A i \in DOMAIN Append(q, j) : i \in DOMAIN q \/ i = Len(q) + 1
OBVIOUS

\* A job that comes back has been retried less often than the limit allows.
LEMMA RetryType ==
  ASSUME NEW j \in Job
  PROVE  LET k == [j EXCEPT !.retries = @ + 1] IN
         /\ k.event = j.event /\ k.retries = j.retries + 1
         /\ j.retries + 1 <= maxRetries => k \in Job
BY DEF Job, maxRetries

\* No job in the list has been retried maxRetries times.
Bounded ==
  /\ \A i \in DOMAIN queue : queue[i].retries < maxRetries
  /\ job # NoJob => job.retries < maxRetries

LEMMA QueueTypeInit == QueueInit => QueueTypeOK /\ Bounded
BY QueueAssumption DEF QueueInit, QueueTypeOK, Bounded

LEMMA HookJobType ==
  ASSUME QueueTypeOK, NEW h \in Requests, sent[h] \in Events
  PROVE  HookJob(h) \in Job /\ HookJob(h).retries = 0 /\ HookJob(h).event = sent[h]
BY DEF HookJob, Job, maxRetries

LEMMA QueueTypeStep ==
  QueueTypeOK /\ Bounded /\ [QueueNext]_queueVars => (QueueTypeOK /\ Bounded)'
<1> SUFFICES ASSUME QueueTypeOK, Bounded, [QueueNext]_queueVars
             PROVE  (QueueTypeOK /\ Bounded)'
  OBVIOUS
<1> USE DEF QueueTypeOK, Bounded
<1>1. ASSUME NEW h \in Requests, NEW e \in Events, Notify(h, e)
      PROVE  (QueueTypeOK /\ Bounded)'
  BY <1>1 DEF Notify
<1>2. ASSUME NEW h \in Requests, HookLock(h) \/ HookIgnore(h) \/ HookUnlock(h)
      PROVE  (QueueTypeOK /\ Bounded)'
  <2>1. Ref(h) \in References
    BY <1>2 DEF HookLock, HookIgnore, HookUnlock, Ref, References
  <2> QED BY <1>2, <2>1 DEF HookLock, HookIgnore, HookUnlock
<1>3. ASSUME NEW h \in Requests, Enqueue(h) \/ EnqueueFails(h)
      PROVE  (QueueTypeOK /\ Bounded)'
  <2>1. sent[h] \in Events
    BY <1>3 DEF Enqueue, EnqueueFails
  <2> DEFINE j == HookJob(h)
  <2>2. j \in Job /\ j.retries < maxRetries
    BY <2>1, HookJobType DEF maxRetries
  <2> HIDE DEF j
  <2>3. queue' = queue \/ queue' = Append(queue, j)
          \/ queue' = Append(Append(queue, j), j)
    BY <1>3 DEF Enqueue, EnqueueFails, j
  <2>4. queue' \in Seq(Job) /\ \A i \in DOMAIN queue' : queue'[i].retries < maxRetries
    <3>1. /\ Append(queue, j) \in Seq(Job)
          /\ \A i \in DOMAIN Append(queue, j) : Append(queue, j)[i].retries < maxRetries
      BY <2>2, AppendFacts
    <3> DEFINE q == Append(queue, j)
    <3>2. /\ Append(q, j) \in Seq(Job)
          /\ \A i \in DOMAIN Append(q, j) : Append(q, j)[i].retries < maxRetries
      <4> HIDE DEF q
      <4> QED BY <2>2, <3>1, AppendFacts DEF q
    <3> QED BY <2>3, <3>1, <3>2
  <2> QED BY <1>3, <2>4 DEF Enqueue, EnqueueFails
<1>4. CASE Pop
  <2>1. Head(queue) \in Job /\ Tail(queue) \in Seq(Job)
          /\ Head(queue).retries < maxRetries
    BY <1>4 DEF Pop
  <2>2. \A i \in DOMAIN Tail(queue) :
          i + 1 \in DOMAIN queue /\ Tail(queue)[i] = queue[i + 1]
    BY <1>4 DEF Pop
  <2> QED BY <1>4, <2>1, <2>2 DEF Pop
<1>5. CASE Complete
  BY <1>5 DEF Complete, Job
<1>6. CASE handleFailure
  <2> DEFINE j == [job EXCEPT !.retries = @ + 1]
  <2>1. job \in Job
    BY <1>6 DEF handleFailure
  <2>2. j \in Job
    BY <1>6, <2>1, RetryType DEF handleFailure, Job, maxRetries
  <2>3. queue' \in Seq(Job) /\ \A i \in DOMAIN queue' : queue'[i].retries < maxRetries
    <3>1. CASE queue' = queue
      BY <3>1
    <3>2. CASE j.retries < maxRetries /\ queue' = Append(queue, j)
      <4> HIDE DEF j
      <4> QED BY <2>2, <3>2
    <3> QED BY <1>6, <3>1, <3>2 DEF handleFailure
  <2> QED BY <1>6, <2>2, <2>3 DEF handleFailure
<1>7. ASSUME NEW r \in References, HookExpire(r) PROVE (QueueTypeOK /\ Bounded)'
  BY <1>7 DEF HookExpire
<1>8. CASE QueueCrash \/ QueueShutdown
  BY <1>8 DEF QueueCrash, QueueShutdown, Busy
<1>9. CASE UNCHANGED queueVars
  BY <1>9 DEF queueVars
<1> QED BY <1>1, <1>2, <1>3, <1>4, <1>5, <1>6, <1>7, <1>8, <1>9
        DEF QueueNext, Delivery, Hook, Work, Quiet

\* The list holds jobs, however often they are put back: in particular no job
\* is ever retried more than maxRetries times.
THEOREM QueueTypeCorrect == QueueSpec => []QueueTypeOK
BY QueueTypeInit, QueueTypeStep, PTL DEF QueueSpec

-----------------------------------------------------------------------------
(* What is queued is kept.                                                 *)

Holds(q, e) == \E i \in DOMAIN q : q[i].event = e

\* A job put at the end of the list is in it, and those before it stay.
LEMMA AppendEvents ==
  ASSUME NEW q \in Seq(Job), NEW j \in Job, NEW e
  PROVE  Holds(Append(q, j), e) <=> Holds(q, e) \/ j.event = e
<1> USE DEF Holds
<1>1. ASSUME NEW i \in DOMAIN Append(q, j), Append(q, j)[i].event = e
      PROVE  Holds(q, e) \/ j.event = e
  <2>1. CASE i \in DOMAIN q
    BY <1>1, <2>1, AppendFacts
  <2>2. CASE i = Len(q) + 1
    BY <1>1, <2>2, AppendFacts
  <2> QED BY <2>1, <2>2, AppendFacts
<1>2. ASSUME NEW i \in DOMAIN q, q[i].event = e
      PROVE  i \in DOMAIN Append(q, j) /\ Append(q, j)[i].event = e
  BY <1>2, AppendFacts
<1>3. ASSUME j.event = e
      PROVE  Len(q) + 1 \in DOMAIN Append(q, j) /\ Append(q, j)[Len(q) + 1].event = e
  BY <1>3, AppendFacts
<1> QED BY <1>1, <1>2, <1>3

LEMMA AppendKeeps ==
  ASSUME QueueTypeOK, NEW j \in Job, queue' = Append(queue, j)
  PROVE  \A e : InQueue(e)' <=> InQueue(e) \/ j.event = e
<1>1. queue \in Seq(Job)
  BY DEF QueueTypeOK
<1>2. \A e : Holds(Append(queue, j), e) <=> Holds(queue, e) \/ j.event = e
  BY <1>1, AppendEvents
<1> QED BY <1>2 DEF InQueue, Holds

LEMMA RepeatKeeps ==
  ASSUME QueueTypeOK, NEW j \in Job, queue' = Append(Append(queue, j), j)
  PROVE  \A e : InQueue(e)' <=> InQueue(e) \/ j.event = e
<1> DEFINE q == Append(queue, j)
<1>1. queue \in Seq(Job)
  BY DEF QueueTypeOK
<1>2. q \in Seq(Job)
  BY <1>1, AppendFacts
<1>3. \A e : Holds(q, e) <=> Holds(queue, e) \/ j.event = e
  BY <1>1, AppendEvents
<1>4. queue' = Append(q, j)
  OBVIOUS
<1> HIDE DEF q
<1>5. \A e : Holds(Append(q, j), e) <=> Holds(q, e) \/ j.event = e
  BY <1>2, AppendEvents
<1>6. \A e : Holds(queue', e) <=> Holds(queue, e) \/ j.event = e
  BY <1>3, <1>4, <1>5
<1> QED BY <1>6 DEF InQueue, Holds

\* Popping takes the first job and no other.
LEMMA PopFacts ==
  ASSUME QueueTypeOK, queue # <<>>, queue' = Tail(queue)
  PROVE  /\ Head(queue) = queue[1] /\ 1 \in DOMAIN queue
         /\ \A i \in DOMAIN queue' : i + 1 \in DOMAIN queue /\ queue'[i] = queue[i + 1]
         /\ \A i \in DOMAIN queue : i # 1 =>
              i - 1 \in DOMAIN queue' /\ queue'[i - 1] = queue[i]
BY DEF QueueTypeOK

LEMMA KeptStep ==
  QueueTypeOK /\ QueuedIsKept /\ [QueueNext]_queueVars => QueuedIsKept'
<1> SUFFICES ASSUME QueueTypeOK, QueuedIsKept, [QueueNext]_queueVars,
                    WorkerLives', NEW g \in Requests, hook'[g] = "queued"
             PROVE  Kept(sent[g])' /\ sent'[g] = sent[g]
  BY DEF QueuedIsKept, Kept, InQueue, InHand, DeadLetter
<1>0. faults' = faults /\ WorkerLives
  BY DEF QueueNext, Delivery, Hook, Notify, HookLock, HookIgnore, Enqueue,
         EnqueueFails, HookUnlock, HookExpire, Pop, Work, Complete, handleFailure,
         QueueCrash, QueueShutdown, Quiet, queueVars, WorkerLives
<1> USE DEF QueueTypeOK, QueuedIsKept, Kept, InHand, DeadLetter
<1>1. ASSUME NEW h \in Requests, NEW e \in Events, Notify(h, e)
      PROVE  Kept(sent[g])' /\ sent'[g] = sent[g]
  BY <1>0, <1>1 DEF Notify, InQueue
<1>2. ASSUME NEW h \in Requests, HookLock(h) \/ HookIgnore(h) \/ HookUnlock(h)
      PROVE  Kept(sent[g])' /\ sent'[g] = sent[g]
  BY <1>0, <1>2 DEF HookLock, HookIgnore, HookUnlock, InQueue
<1>3. ASSUME NEW h \in Requests, Enqueue(h) \/ EnqueueFails(h)
      PROVE  Kept(sent[g])' /\ sent'[g] = sent[g]
  <2>1. HookJob(h) \in Job /\ HookJob(h).event = sent[h]
    BY <1>3, HookJobType DEF Enqueue, EnqueueFails
  <2>2. \/ queue' = queue
        \/ queue' = Append(queue, HookJob(h))
        \/ queue' = Append(Append(queue, HookJob(h)), HookJob(h))
    BY <1>3 DEF Enqueue, EnqueueFails
  <2>3. \A e : InQueue(e) => InQueue(e)'
    BY <2>1, <2>2, AppendKeeps, RepeatKeeps DEF InQueue
  <2>4. CASE g = h
    <3>1. InQueue(sent[g])'
      BY <1>3, <2>1, <2>4, AppendKeeps, RepeatKeeps DEF Enqueue, EnqueueFails
    <3> QED BY <1>3, <3>1 DEF Enqueue, EnqueueFails, InQueue
  <2>5. CASE g # h
    <3>1. hook[g] = "queued" /\ UNCHANGED <<sent, dead, job, done>>
      BY <1>3, <2>5 DEF Enqueue, EnqueueFails
    <3> QED BY <1>0, <2>3, <3>1
  <2> QED BY <2>4, <2>5
<1>4. CASE Pop
  <2>1. /\ hook[g] = "queued" /\ UNCHANGED <<sent, dead, done>>
        /\ job = NoJob /\ job' = Head(queue) /\ Head(queue) # NoJob
        /\ queue' = Tail(queue) /\ queue # <<>>
    BY <1>0, <1>4, QueueAssumption DEF Pop, WorkerLives
  <2>2. ASSUME NEW e, NEW i \in DOMAIN queue, queue[i].event = e
        PROVE  InQueue(e)' \/ InHand(e)'
    <3>1. CASE i = 1
      BY <2>1, <2>2, <3>1, PopFacts
    <3>2. CASE i # 1
      <4>1. i - 1 \in DOMAIN queue' /\ queue'[i - 1] = queue[i]
        BY <2>1, <3>2, PopFacts
      <4> QED BY <2>2, <4>1 DEF InQueue
    <3> QED BY <3>1, <3>2
  <2>3. \A e : InQueue(e) => InQueue(e)' \/ InHand(e)'
    BY <2>2 DEF InQueue
  <2> QED BY <1>0, <2>1, <2>3
<1>5. CASE Complete
  BY <1>0, <1>5 DEF Complete, InQueue
<1>6. CASE handleFailure
  <2> DEFINE j == [job EXCEPT !.retries = @ + 1]
  <2>1. /\ hook[g] = "queued" /\ UNCHANGED <<sent, done>> /\ job' = NoJob
        /\ job \in Job /\ j.event = job.event
        /\ \/ queue' = Append(queue, j) /\ dead' = dead /\ j \in Job
           \/ queue' = queue /\ dead' = dead \cup {j}
    BY <1>0, <1>6, RetryType DEF handleFailure, WorkerLives, Job, maxRetries
  <2> HIDE DEF j
  <2>2. \A e : InQueue(e) \/ InHand(e) \/ DeadLetter(e)
                 => InQueue(e)' \/ DeadLetter(e)'
    BY <2>1, AppendKeeps DEF InQueue
  <2> QED BY <1>0, <2>1, <2>2
<1>7. ASSUME NEW r \in References, HookExpire(r)
      PROVE  Kept(sent[g])' /\ sent'[g] = sent[g]
  BY <1>0, <1>7 DEF HookExpire, InQueue
<1>8. ~ QueueCrash /\ ~ QueueShutdown
  BY <1>0 DEF QueueCrash, QueueShutdown, WorkerLives
<1>9. CASE UNCHANGED queueVars
  BY <1>0, <1>9 DEF queueVars, InQueue
<1> QED BY <1>1, <1>2, <1>3, <1>4, <1>5, <1>6, <1>7, <1>8, <1>9
        DEF QueueNext, Delivery, Hook, Work, Quiet

\* A queued event is not forgotten: pop, retry and dead letter hand it on, as
\* long as the worker and its connection live.
THEOREM NothingForgotten == QueueSpec => []QueuedIsKept
<1>1. QueueInit => QueuedIsKept
  BY DEF QueueInit, QueuedIsKept
<1> QED BY <1>1, KeptStep, QueueTypeInit, QueueTypeStep, PTL DEF QueueSpec

-----------------------------------------------------------------------------
(* One job per reference.                                                  *)

IsWaiting(r)  == \E i \in DOMAIN queue : queue[i].event.ref = r
IsHeld(r)     == job # NoJob /\ job.event.ref = r
IsBuried(r)   == \E j \in dead : j.event.ref = r
IsFinished(r) == \E e \in done : e.ref = r

\* The job of a reference is in one place, and there once.
Single(r) ==
  /\ \A i, j \in DOMAIN queue :
       queue[i].event.ref = r /\ queue[j].event.ref = r => i = j
  /\ \A j, k \in dead : j.event.ref = r /\ k.event.ref = r => j = k
  /\ \A d, e \in done : d.ref = r /\ e.ref = r => d = e
  /\ IsWaiting(r) => ~ IsHeld(r) /\ ~ IsBuried(r) /\ ~ IsFinished(r)
  /\ IsHeld(r) => ~ IsBuried(r) /\ ~ IsFinished(r)
  /\ IsBuried(r) => ~ IsFinished(r)

Occupied(r) == IsWaiting(r) \/ IsHeld(r) \/ IsBuried(r) \/ IsFinished(r)

Pushing(h, r) == hook[h] = "push" /\ Ref(h) = r

\* A lock that lives has one holder, the webhook that is about to push a job
\* or the place where the job is, and nobody gives it back.
LockHeld ==
  LocksHold => /\ \A h \in Requests : hook[h] # "unlock"
               /\ \A h \in Requests : hook[h] = "push" => Ref(h) \in locks
               /\ \A r \in References :
                    /\ Single(r)
                    /\ Occupied(r) => r \in locks
                    /\ \A g, h \in Requests : Pushing(g, r) /\ Pushing(h, r) => g = h
                    /\ \A h \in Requests : Pushing(h, r) => ~ Occupied(r)

LEMMA LockHeldStep ==
  QueueTypeOK /\ LockHeld /\ [QueueNext]_queueVars => LockHeld'
<1> SUFFICES ASSUME QueueTypeOK, LockHeld, [QueueNext]_queueVars, LocksHold'
             PROVE  LockHeld'
  BY DEF LockHeld
<1>0. faults' = faults /\ LocksHold
  BY DEF QueueNext, Delivery, Hook, Notify, HookLock, HookIgnore, Enqueue,
         EnqueueFails, HookUnlock, HookExpire, Pop, Work, Complete, handleFailure,
         QueueCrash, QueueShutdown, Quiet, queueVars, LocksHold
<1>a. "redis" \notin faults /\ "expiry" \notin faults
  BY <1>0 DEF LocksHold
<1>b. ASSUME UNCHANGED <<queue, dead, job, done>>
      PROVE  \A r : (Single(r)' <=> Single(r)) /\ (Occupied(r)' <=> Occupied(r))
  BY <1>b DEF Single, Occupied, IsWaiting, IsHeld, IsBuried, IsFinished
<1>c. ASSUME locks' = locks,
             \A h \in Requests : hook'[h] \in {"push", "unlock"} =>
               hook'[h] = hook[h] /\ sent'[h] = sent[h],
             \A r \in References : Single(r)' /\ (Occupied(r)' => Occupied(r))
      PROVE  LockHeld'
  BY <1>0, <1>c DEF LockHeld, Pushing, Ref
<1>1. ASSUME NEW h \in Requests, HookIgnore(h) \/ \E e \in Events : Notify(h, e)
      PROVE  LockHeld'
  <2>1. /\ UNCHANGED <<locks, queue, dead, job, done>>
        /\ \A g \in Requests : hook'[g] \in {"push", "unlock"} =>
             hook'[g] = hook[g] /\ sent'[g] = sent[g]
    BY <1>a, <1>1 DEF HookIgnore, Notify, QueueTypeOK
  <2> QED BY <1>0, <1>b, <1>c, <2>1 DEF LockHeld
<1>2. ASSUME NEW h \in Requests, HookLock(h) PROVE LockHeld'
  <2>1. /\ UNCHANGED <<sent, queue, dead, job, done>>
        /\ hook'[h] = "push" /\ \A g \in Requests : g # h => hook'[g] = hook[g]
        /\ locks' = locks \cup {Ref(h)} /\ Ref(h) \notin locks
    BY <1>2 DEF HookLock, QueueTypeOK
  <2>2. \A g \in Requests : Ref(g)' = Ref(g)
    BY <2>1 DEF Ref
  <2>3. \A g \in Requests : \A r : Pushing(g, r)' <=> Pushing(g, r) \/ (g = h /\ r = Ref(h))
    BY <2>1, <2>2, <1>2 DEF Pushing, HookLock
  <2>4. \A g \in Requests : ~ Pushing(g, Ref(h))
    BY <1>0, <2>1 DEF LockHeld, Pushing
  <2>5. Ref(h) \in References => ~ Occupied(Ref(h))
    BY <1>0, <2>1 DEF LockHeld
  <2>6. \A g \in Requests : hook'[g] = "push" => Ref(g)' \in locks'
    BY <1>0, <2>1, <2>2 DEF LockHeld
  <2>7. \A r \in References :
          /\ Single(r)'
          /\ Occupied(r)' => r \in locks'
          /\ \A f, g \in Requests : Pushing(f, r)' /\ Pushing(g, r)' => f = g
          /\ \A g \in Requests : Pushing(g, r)' => ~ Occupied(r)'
    BY <1>0, <1>b, <2>1, <2>3, <2>4, <2>5 DEF LockHeld
  <2> QED BY <1>0, <2>1, <2>6, <2>7 DEF LockHeld
<1>3. ASSUME NEW h \in Requests, Enqueue(h) PROVE LockHeld'
  <2> DEFINE n == Len(queue) + 1
  <2>1. /\ UNCHANGED <<sent, locks, dead, job, done>>
        /\ hook[h] = "push" /\ hook'[h] = "queued"
        /\ \A g \in Requests : g # h => hook'[g] = hook[g]
        /\ queue' = Append(queue, HookJob(h))
    BY <1>a, <1>3 DEF Enqueue, QueueTypeOK
  <2>2. HookJob(h) \in Job /\ HookJob(h).event.ref = Ref(h)
    BY <1>3, HookJobType DEF Enqueue, QueueTypeOK, Ref
  <2>3. /\ DOMAIN queue = 1 .. Len(queue) /\ n \notin DOMAIN queue
        /\ DOMAIN queue' = DOMAIN queue \cup {n} /\ queue'[n] = HookJob(h)
        /\ \A i \in DOMAIN queue : queue'[i] = queue[i]
    BY <2>1, <2>2, AppendFacts DEF QueueTypeOK
  <2>4. Pushing(h, Ref(h)) /\ Ref(h) \in References
    BY <1>3, <2>1 DEF Pushing, QueueTypeOK, Ref, References
  <2>5. ~ Occupied(Ref(h)) /\ Ref(h) \in locks
    BY <1>0, <2>1, <2>4 DEF LockHeld
  <2>6. \A r \in References : Single(r)' /\ (Occupied(r)' <=> Occupied(r) \/ r = Ref(h))
    <3> SUFFICES ASSUME NEW r \in References
                 PROVE  Single(r)' /\ (Occupied(r)' <=> Occupied(r) \/ r = Ref(h))
      OBVIOUS
    <3>1. Single(r)
      BY <1>0 DEF LockHeld
    <3>2. /\ IsHeld(r)' <=> IsHeld(r)
          /\ IsBuried(r)' <=> IsBuried(r)
          /\ IsFinished(r)' <=> IsFinished(r)
      BY <2>1 DEF IsHeld, IsBuried, IsFinished
    <3>3. IsWaiting(r)' <=> IsWaiting(r) \/ r = Ref(h)
      BY <2>2, <2>3 DEF IsWaiting
    <3>4. \A i, j \in DOMAIN queue' :
            queue'[i].event.ref = r /\ queue'[j].event.ref = r => i = j
      BY <2>2, <2>3, <2>5, <3>1 DEF Single, Occupied, IsWaiting
    <3> QED BY <2>1, <2>5, <3>1, <3>2, <3>3, <3>4 DEF Single, Occupied
  <2>7. \A g \in Requests : \A r : Pushing(g, r)' <=> Pushing(g, r) /\ g # h
    BY <2>1 DEF Pushing, Ref
  <2>8. \A g \in Requests : hook'[g] = "push" => Ref(g)' \in locks'
    BY <1>0, <2>1 DEF LockHeld, Ref
  <2>9. \A g \in Requests : Pushing(g, Ref(h)) => g = h
    BY <1>0, <2>4 DEF LockHeld
  <2> QED BY <1>0, <2>1, <2>5, <2>6, <2>7, <2>8, <2>9 DEF LockHeld
<1>4. CASE Pop
  <2>1. /\ UNCHANGED <<hook, sent, locks, dead, done>>
        /\ job = NoJob /\ (job' = NoJob \/ job' = Head(queue))
        /\ queue' = Tail(queue) /\ queue # <<>>
    BY <1>4 DEF Pop
  <2>2. \A r \in References : Single(r)' /\ (Occupied(r)' => Occupied(r))
    <3> SUFFICES ASSUME NEW r \in References
                 PROVE  Single(r)' /\ (Occupied(r)' => Occupied(r))
      OBVIOUS
    <3>1. Single(r)
      BY <1>0 DEF LockHeld
    <3>2. (IsBuried(r)' <=> IsBuried(r)) /\ (IsFinished(r)' <=> IsFinished(r))
      BY <2>1 DEF IsBuried, IsFinished
    <3>3. IsHeld(r)' => queue[1].event.ref = r /\ IsWaiting(r)
      BY <2>1, PopFacts DEF IsHeld, IsWaiting
    <3>4. IsWaiting(r)' => IsWaiting(r)
      BY <2>1, PopFacts DEF IsWaiting
    <3>5. ~ (IsWaiting(r)' /\ IsHeld(r)')
      <4> SUFFICES ASSUME IsHeld(r)', NEW i \in DOMAIN queue',
                          queue'[i].event.ref = r
                   PROVE  FALSE
        BY DEF IsWaiting
      <4>1. i + 1 \in DOMAIN queue /\ queue[i + 1].event.ref = r /\ 1 \in DOMAIN queue
        BY <2>1, PopFacts
      <4>2. i + 1 = 1
        BY <3>1, <3>3, <4>1 DEF Single
      <4> QED BY <2>1, <4>2 DEF QueueTypeOK
    <3>6. \A i, j \in DOMAIN queue' :
            queue'[i].event.ref = r /\ queue'[j].event.ref = r => i = j
      <4> SUFFICES ASSUME NEW i \in DOMAIN queue', NEW j \in DOMAIN queue',
                          queue'[i].event.ref = r, queue'[j].event.ref = r
                   PROVE  i = j
        OBVIOUS
      <4>1. i + 1 = j + 1
        BY <2>1, <3>1, PopFacts DEF Single
      <4>2. i \in Nat /\ j \in Nat
        BY <2>1 DEF QueueTypeOK
      <4> QED BY <4>1, <4>2
    <3> QED BY <2>1, <3>1, <3>2, <3>3, <3>4, <3>5, <3>6 DEF Single, Occupied
  <2> QED BY <1>c, <2>1, <2>2
<1>5. CASE Complete
  <2>1. /\ UNCHANGED <<hook, sent, locks, queue, dead>>
        /\ job # NoJob /\ job' = NoJob /\ done' = done \cup {job.event}
    BY <1>5 DEF Complete
  <2>2. \A r \in References : Single(r)' /\ (Occupied(r)' => Occupied(r))
    BY <1>0, <2>1
       DEF LockHeld, Single, Occupied, IsWaiting, IsHeld, IsBuried, IsFinished
  <2> QED BY <1>c, <2>1, <2>2
<1>6. CASE handleFailure
  <2> DEFINE k == [job EXCEPT !.retries = @ + 1]
             n == Len(queue) + 1
  <2>1. /\ UNCHANGED <<hook, sent, locks, done>>
        /\ job # NoJob /\ job \in Job /\ job' = NoJob /\ k.event = job.event
        /\ \/ queue' = Append(queue, k) /\ dead' = dead /\ k \in Job
           \/ queue' = queue /\ dead' = dead \cup {k}
           \/ queue' = queue /\ dead' = dead
    BY <1>6, RetryType DEF handleFailure, QueueTypeOK, Job, maxRetries
  <2> HIDE DEF k
  <2>2. \A r \in References : Single(r)' /\ (Occupied(r)' => Occupied(r))
    <3> SUFFICES ASSUME NEW r \in References
                 PROVE  Single(r)' /\ (Occupied(r)' => Occupied(r))
      OBVIOUS
    <3>1. Single(r) /\ ~ IsHeld(r)' /\ (IsFinished(r)' <=> IsFinished(r))
      BY <1>0, <2>1 DEF LockHeld, IsHeld, IsFinished
    <3>2. CASE queue' = Append(queue, k) /\ dead' = dead /\ k \in Job
      <4>1. /\ DOMAIN queue = 1 .. Len(queue) /\ n \notin DOMAIN queue
            /\ DOMAIN queue' = DOMAIN queue \cup {n} /\ queue'[n] = k
            /\ \A i \in DOMAIN queue : queue'[i] = queue[i]
        BY <3>2, AppendFacts DEF QueueTypeOK
      <4>2. IsBuried(r)' <=> IsBuried(r)
        BY <3>2 DEF IsBuried
      <4>3. IsWaiting(r)' <=> IsWaiting(r) \/ IsHeld(r)
        BY <2>1, <4>1 DEF IsWaiting, IsHeld
      <4>4. \A i, j \in DOMAIN queue' :
              queue'[i].event.ref = r /\ queue'[j].event.ref = r => i = j
        BY <2>1, <3>1, <4>1 DEF Single, IsWaiting, IsHeld
      <4> QED BY <2>1, <3>1, <3>2, <4>2, <4>3, <4>4 DEF Single, Occupied
    <3>3. CASE queue' = queue /\ (dead' = dead \/ dead' = dead \cup {k})
      <4>1. (IsWaiting(r)' <=> IsWaiting(r)) /\ (IsBuried(r)' => IsBuried(r) \/ IsHeld(r))
        BY <2>1, <3>3 DEF IsWaiting, IsBuried, IsHeld
      <4>2. \A i, j \in dead' : i.event.ref = r /\ j.event.ref = r => i = j
        BY <2>1, <3>1, <3>3 DEF Single, IsBuried, IsHeld
      <4> QED BY <2>1, <3>1, <3>3, <4>1, <4>2 DEF Single, Occupied
    <3> QED BY <2>1, <3>2, <3>3
  <2> QED BY <1>c, <2>1, <2>2
<1>7. CASE QueueCrash \/ QueueShutdown
  <2>1. /\ UNCHANGED <<sent, locks, queue, dead, done>> /\ job' = NoJob
        /\ \A h \in Requests : hook'[h] \in {"push", "unlock"} => hook'[h] = hook[h]
    BY <1>7 DEF QueueCrash, QueueShutdown, Busy
  <2>2. \A r \in References : Single(r)' /\ (Occupied(r)' => Occupied(r))
    BY <1>0, <2>1
       DEF LockHeld, Single, Occupied, IsWaiting, IsHeld, IsBuried, IsFinished
  <2> QED BY <1>c, <2>1, <2>2
<1>8. CASE UNCHANGED queueVars
  BY <1>0, <1>b, <1>c, <1>8 DEF queueVars, LockHeld
<1>9. ASSUME NEW h \in Requests, HookUnlock(h) \/ EnqueueFails(h) PROVE FALSE
  BY <1>0, <1>a, <1>9 DEF HookUnlock, EnqueueFails, LockHeld
<1>10. ASSUME NEW r \in References, HookExpire(r) PROVE FALSE
  BY <1>a, <1>10 DEF HookExpire
<1> QED BY <1>1, <1>2, <1>3, <1>4, <1>5, <1>6, <1>7, <1>8, <1>9, <1>10
        DEF QueueNext, Delivery, Hook, Work, Quiet

LEMMA LockHeldInit == QueueInit => LockHeld
BY DEF QueueInit, LockHeld, Single, Occupied, Pushing, IsWaiting, IsHeld, IsBuried,
       IsFinished

\* A set without two different members has at most one.
LEMMA AtMostOne ==
  ASSUME NEW S, \A x, y \in S : x = y
  PROVE  Cardinality(S) = IF S = {} THEN 0 ELSE 1
<1>1. CASE S = {}
  BY <1>1, FS_EmptySet
<1>2. CASE S # {}
  <2>1. PICK x : x \in S
    BY <1>2
  <2>2. S = {x}
    BY <2>1
  <2> QED BY <1>2, <2>2, FS_Singleton
<1> QED BY <1>1, <1>2

\* A webhook that is sent again, a job that is put back and a restart of the
\* process make no second job of a reference while its lock lives.
THEOREM OneJob == QueueSpec => []OneJobPerReference
<1>1. LockHeld => OneJobPerReference
  <2> SUFFICES ASSUME LockHeld, LocksHold, NEW r \in References
               PROVE  Cardinality(Waiting(r)) + Cardinality(Held(r))
                        + Cardinality(Buried(r)) + Cardinality(Finished(r)) <= 1
    BY DEF OneJobPerReference
  <2>1. Single(r)
    BY DEF LockHeld
  <2>2. /\ \A x, y \in Waiting(r) : x = y
        /\ \A x, y \in Held(r) : x = y
        /\ \A x, y \in Buried(r) : x = y
        /\ \A x, y \in Finished(r) : x = y
    BY <2>1 DEF Single, Waiting, Held, Buried, Finished
  <2>3. /\ Waiting(r) # {} <=> IsWaiting(r)
        /\ Held(r) # {} <=> IsHeld(r)
        /\ Buried(r) # {} <=> IsBuried(r)
        /\ Finished(r) # {} <=> IsFinished(r)
    BY DEF Waiting, Held, Buried, Finished, IsWaiting, IsHeld, IsBuried, IsFinished
  <2>4. /\ Cardinality(Waiting(r)) = IF IsWaiting(r) THEN 1 ELSE 0
        /\ Cardinality(Held(r)) = IF IsHeld(r) THEN 1 ELSE 0
        /\ Cardinality(Buried(r)) = IF IsBuried(r) THEN 1 ELSE 0
        /\ Cardinality(Finished(r)) = IF IsFinished(r) THEN 1 ELSE 0
    BY <2>2, <2>3, AtMostOne
  <2> QED BY <2>1, <2>4 DEF Single
<1> QED BY <1>1, LockHeldInit, LockHeldStep, QueueTypeInit, QueueTypeStep, PTL
        DEF QueueSpec
=============================================================================
