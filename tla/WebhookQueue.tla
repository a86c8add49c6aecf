---------------------------- MODULE WebhookQueue ----------------------------
(***************************************************************************)
(* The way of a Paystack webhook through the server: the handler takes a   *)
(* 24-hour lock on the event's reference, appends a job to a Redis list    *)
(* and answers 200; the one worker goroutine pops jobs, processes them,    *)
(* and puts a failed job back at the end of the list, or, the third time,  *)
(* on a second list nobody reads.                                          *)
(*                                                                         *)
(* What processing does is left open here (Complete, or HandleFailure);    *)
(* module Payments EXTENDS this one and fills it in.                       *)
(***************************************************************************)
EXTENDS Integers, Sequences, FiniteSets

CONSTANTS Events,    \* what Paystack notifies us of: records with a field ref
          Requests,  \* webhook requests; each is one goroutine
          FaultSets, \* which faults may come together, see FaultAssumption
          NoEvent, NoJob

maxRetries == 3

Job == [event : Events, retries : 0 .. maxRetries]

References == {e.ref : e \in Events}

FaultKinds == {"redis", "worker", "expiry", "crash", "shutdown"}

\* "redis": a Redis call of a handler fails, its reply is lost, or the client
\* library repeats it.  "worker": the same for the worker's calls.
\* "expiry": locks expire.  "crash": the process dies and is restarted.
\* "shutdown": it is stopped by SIGTERM and restarted.
ASSUME FaultAssumption == FaultSets \subseteq SUBSET FaultKinds

ASSUME QueueAssumption == NoEvent \notin Events /\ NoJob \notin Job

VARIABLES hook,    \* hook[h]: where webhook request h is
          sent,    \* sent[h]: the event it carries
          locks,   \* the references r with a Redis key idemp:r
          queue,   \* the list payment_webhooks
          dead,    \* what the list payment_webhooks:dead_letter holds
          job,     \* the job in the worker's hands
          done,    \* the events whose job "processed successfully" (history)
          faults   \* what may go wrong in this behaviour

delivery == <<hook, sent, locks>>
queueVars == <<hook, sent, locks, queue, dead, job, done, faults>>

QueueTypeOK ==
  /\ hook \in [Requests -> {"idle", "lock", "push", "unlock",
                            "ignored", "queued", "failed", "gone"}]
  /\ sent \in [Requests -> Events \cup {NoEvent}]
  /\ \A h \in Requests : hook[h] \notin {"idle", "gone"} => sent[h] \in Events
  /\ locks \subseteq References
  /\ queue \in Seq(Job)
  /\ dead \subseteq Job
  /\ job \in Job \cup {NoJob}
  /\ done \subseteq Events
  /\ faults \in FaultSets

QueueInit ==
  /\ hook = [h \in Requests |-> "idle"]
  /\ sent = [h \in Requests |-> NoEvent]
  /\ locks = {}
  /\ queue = <<>>
  /\ dead = {}
  /\ job = NoJob
  /\ done = {}
  /\ faults \in FaultSets

Ref(h) == sent[h].ref

Answer(h, from, to) == hook[h] = from /\ hook' = [hook EXCEPT ![h] = to]

-----------------------------------------------------------------------------
(* PaystackWebhookHandler.                                                 *)

\* Paystack sends an event, for the first time or again.
Notify(h, e) ==
  /\ Answer(h, "idle", "lock")
  /\ sent' = [sent EXCEPT ![h] = e]
  /\ UNCHANGED <<locks, queue, dead, job, done, faults>>

HookLockNothing(h) ==
  /\ Answer(h, "lock", "push")
  /\ UNCHANGED <<sent, locks, queue, dead, job, done, faults>>

HookLock(h) ==
  /\ Answer(h, "lock", "push")
  /\ Ref(h) \notin locks
  /\ locks' = locks \cup {Ref(h)}
  /\ UNCHANGED <<sent, queue, dead, job, done, faults>>

\* "ignoring duplicate webhook", answered 200: the reference is locked, or
\* the call failed (it may have taken the lock) and its error was dropped.
HookIgnore(h) ==
  /\ Answer(h, "lock", "ignored")
  /\ \/ (Ref(h) \in locks \/ "redis" \in faults) /\ UNCHANGED locks
     \/ "redis" \in faults /\ locks' = locks \cup {Ref(h)}
  /\ UNCHANGED <<sent, queue, dead, job, done, faults>>

HookJob(h) == [event |-> sent[h], retries |-> 0]

\* RPUSH; if its reply is lost the client library sends it again.
Enqueue(h) ==
  /\ Answer(h, "push", "queued")
  /\ \/ queue' = Append(queue, HookJob(h))
     \/ "redis" \in faults
          /\ queue' = Append(Append(queue, HookJob(h)), HookJob(h))
  /\ UNCHANGED <<sent, locks, dead, job, done, faults>>

\* RPUSH returns an error, with or without having taken effect.
EnqueueFails(h) ==
  /\ "redis" \in faults
  /\ Answer(h, "push", "unlock")
  /\ \/ UNCHANGED queue
     \/ queue' = Append(queue, HookJob(h))
  /\ UNCHANGED <<sent, locks, dead, job, done, faults>>

\* The lock is given back, if Redis can be reached; the answer is 500.
HookUnlock(h) ==
  /\ Answer(h, "unlock", "failed")
  /\ \/ locks' = locks \ {Ref(h)}
     \/ UNCHANGED locks
  /\ UNCHANGED <<sent, queue, dead, job, done, faults>>

-----------------------------------------------------------------------------
(* StartWorker.                                                            *)

\* BLPOP; the popped job is lost with the connection that should carry it.
Pop ==
  /\ job = NoJob /\ queue # <<>>
  /\ queue' = Tail(queue)
  /\ \/ job' = Head(queue)
     \/ "worker" \in faults /\ UNCHANGED job
  /\ UNCHANGED <<delivery, dead, done, faults>>

\* ProcessPaystackEvent returned nil.
Complete ==
  /\ job # NoJob
  /\ done' = done \cup {job.event}
  /\ job' = NoJob
  /\ UNCHANGED <<delivery, queue, dead, faults>>

handleFailureDrops ==
  LET j == [job EXCEPT !.retries = @ + 1] IN
  /\ job # NoJob
  /\ job' = NoJob
  /\ queue' = IF j.retries < maxRetries THEN Append(queue, j) ELSE queue
  /\ UNCHANGED <<delivery, dead, done, faults>>

handleFailureUnbounded ==
  LET j == [job EXCEPT !.retries = @ + 1] IN
  /\ job # NoJob
  /\ job' = NoJob
  /\ queue' = Append(queue, j)
  /\ UNCHANGED <<delivery, dead, done, faults>>

handleFailureUncounted ==
  /\ job # NoJob
  /\ job' = NoJob
  /\ queue' = Append(queue, job)
  /\ UNCHANGED <<delivery, dead, done, faults>>

\* It returned an error.  The result of either RPUSH is dropped.
handleFailure ==
  LET j == [job EXCEPT !.retries = @ + 1] IN
  /\ job # NoJob
  /\ job' = NoJob
  /\ \/ j.retries < maxRetries /\ queue' = Append(queue, j) /\ UNCHANGED dead
     \/ j.retries >= maxRetries /\ dead' = dead \cup {j} /\ UNCHANGED queue
     \/ "worker" \in faults /\ UNCHANGED <<queue, dead>>
  /\ UNCHANGED <<delivery, done, faults>>

-----------------------------------------------------------------------------
(* The surroundings.                                                       *)

Busy(h) == hook[h] \in {"lock", "push", "unlock"}

\* 24 hours are over.  No handler lives that long.
HookExpire(r) ==
  /\ "expiry" \in faults
  /\ r \in locks
  /\ \A h \in Requests : Busy(h) => Ref(h) # r
  /\ locks' = locks \ {r}
  /\ UNCHANGED <<hook, sent, queue, dead, job, done, faults>>

\* The process dies and is started again: Redis keeps its keys and lists.
QueueCrash ==
  /\ "crash" \in faults
  /\ hook' = [h \in Requests |-> IF Busy(h) THEN "gone" ELSE hook[h]]
  /\ job' = NoJob
  /\ UNCHANGED <<sent, locks, queue, dead, done, faults>>

\* gracefulShutdown waits for the handlers, but nobody waits for the worker:
\* its context is never cancelled and it dies with the process.
QueueShutdown ==
  /\ "shutdown" \in faults
  /\ \A h \in Requests : ~ Busy(h)
  /\ job' = NoJob
  /\ UNCHANGED <<delivery, queue, dead, done, faults>>

Hook(h) == HookLock(h) \/ HookIgnore(h) \/ Enqueue(h) \/ EnqueueFails(h)
             \/ HookUnlock(h)

Work == Complete \/ handleFailure

Delivery == \/ \E h \in Requests : Hook(h) \/ \E e \in Events : Notify(h, e)
            \/ \E r \in References : HookExpire(r)

\* Paystack has nothing more to say and the worker blocks in BLPOP.
Quiet ==
  /\ \A h \in Requests : hook[h] \in {"ignored", "queued", "failed", "gone"}
  /\ queue = <<>> /\ job = NoJob
  /\ UNCHANGED queueVars

QueueNext ==
  Delivery \/ Pop \/ Work \/ QueueCrash \/ QueueShutdown \/ Quiet

QueueSpec == QueueInit /\ [][QueueNext]_queueVars

(***************************************************************************)
(* Fairness: the worker loops for as long as the process runs, and every   *)
(* call it makes while it processes a job returns.                         *)
(***************************************************************************)
QueueFairSpec ==
  /\ QueueSpec
  /\ WF_queueVars(Pop) /\ WF_queueVars(Work)

-----------------------------------------------------------------------------
(* Properties.                                                             *)

InQueue(e)   == \E i \in DOMAIN queue : queue[i].event = e
InHand(e)    == job # NoJob /\ job.event = e
DeadLetter(e) == \E j \in dead : j.event = e
Kept(e)      == InQueue(e) \/ InHand(e) \/ DeadLetter(e) \/ e \in done

WorkerLives == faults \cap {"worker", "crash", "shutdown"} = {}
LocksHold   == faults \cap {"redis", "expiry"} = {}

\* An event whose webhook was queued stays somewhere until it is processed:
\* in the list, in the worker's hands or among the dead letters, however
\* often processing fails and whatever happens to other webhooks, as long as
\* the worker and its connection live (BLPOP has no acknowledgement).
QueuedIsKept ==
  WorkerLives => \A h \in Requests : hook[h] = "queued" => Kept(sent[h])

\* What the log line "ignoring duplicate webhook" says: an event whose webhook
\* is ignored has been queued before, or is just being queued.
IgnoredIsDuplicate ==
  \A h \in Requests : hook[h] = "ignored" =>
    \/ Kept(sent[h])
    \/ \E g \in Requests : hook[g] = "push" /\ sent[g] = sent[h]

Waiting(r) == {i \in DOMAIN queue : queue[i].event.ref = r}
Held(r)    == IF job # NoJob /\ job.event.ref = r THEN {job} ELSE {}
Buried(r)  == {j \in dead : j.event.ref = r}
Finished(r) == {e \in done : e.ref = r}

\* As long as its lock lives and the handlers reach Redis, a reference has
\* at most one job, in the list, in the worker's hands, processed or among
\* the dead letters, although webhooks are sent again, jobs are put back and
\* the process is restarted.
OneJobPerReference ==
  LocksHold => \A r \in References :
    Cardinality(Waiting(r)) + Cardinality(Held(r)) + Cardinality(Buried(r))
      + Cardinality(Finished(r)) <= 1

\* Every queued job is processed or becomes a dead letter in the end, even
\* if processing may fail every time and other jobs keep coming back, as long
\* as the worker lives.
Drained ==
  \A e \in Events : InQueue(e) /\ WorkerLives ~> e \in done \/ DeadLetter(e)
=============================================================================
