--------------------------- MODULE WebhookDelivery ---------------------------
(***************************************************************************)
(* One webhook job on its way through the Bull queue: WorkersBridgeService *)
(* binds BaseWorker.handle of WebhooksWorker to the queue, the worker      *)
(* calls WebhookDeliveryService.processDelivery, which retries by throwing *)
(* and gives up by returning, and the bridge forwards failed jobs to the   *)
(* dead letter queue.  A slot is one unit of a process' concurrency.       *)
(*                                                                         *)
(* Bull hands a job to one slot and locks it.  The lock's token is that of *)
(* the process' Queue object, so its slots share it.  A lock that is not   *)
(* renewed (the process died or its event loop was blocked) makes the job  *)
(* stalled, and it is handed out again while the old slot, a zombie, may   *)
(* still be at work.                                                       *)
(***************************************************************************)
EXTENDS Integers

CONSTANTS Slots,
          Processes,
          process,       \* the process that each slot belongs to
          NoProcess,
          Attempts,      \* attempts of the job's options
          MaxRetries,    \* maxRetries of the delivery service
          MaxStalled     \* Bull's maxStalledCount

ASSUME ProcessAssumption == process \in [Slots -> Processes] /\ NoProcess \notin Processes
ASSUME AttemptsAssumption == Attempts \in Nat \ {0} /\ MaxRetries \in Nat \ {0}
ASSUME StalledAssumption == MaxStalled \in Nat

VARIABLES job,       \* Bull: the job, and whose token its lock has
          slot,      \* what each slot is doing with it
          valid,     \* whether the job's data has url, event and payload
          failures,  \* 'failed' events still to be handled, of either kind
          dlq,       \* kinds of the events with an entry in the dead letter queue
          lost,      \* kinds of the events whose entry was not written
          sends,     \* POSTs sent
          accepted,  \* whether the receiver has processed a POST
          alarmed    \* whether the service reported the webhook dead-lettered

webhookVars == <<job, slot, valid, failures, dlq, lost, sends, accepted, alarmed>>

\* Whether a 'failed' event is of an attempt that is repeated or of the job's end.
Kinds == {"retried", "final"}

Jobs == [state : {"waiting", "active", "delayed", "completed", "failed"},
         made : Nat, stalls : Nat, lock : Processes \cup {NoProcess}]

\* made: the job.attemptsMade that the slot was given with the job.
Runs == [at : {"idle", "taken", "posting", "returning", "throwing"}, made : Nat]

WebhookTypeOK == /\ job \in Jobs /\ job.stalls \in 0..(MaxStalled + 1)
                 /\ slot \in [Slots -> Runs]
                 /\ valid \in BOOLEAN
                 /\ failures \in [Kinds -> Nat] /\ dlq \subseteq Kinds /\ lost \subseteq Kinds
                 /\ sends \in Nat /\ accepted \in BOOLEAN /\ alarmed \in BOOLEAN

Idle == [at |-> "idle", made |-> 0]

WebhookInit == /\ job = [state |-> "waiting", made |-> 0, stalls |-> 0, lock |-> NoProcess]
               /\ slot = [s \in Slots |-> Idle]
               /\ valid \in BOOLEAN
               /\ failures = [k \in Kinds |-> 0] /\ dlq = {} /\ lost = {}
               /\ sends = 0 /\ accepted = FALSE /\ alarmed = FALSE

history == <<sends, accepted, alarmed>>

MoveTo(s, phase) == slot' = [slot EXCEPT ![s].at = phase]

\* The job, moved to another state: its lock is gone.
Left(state, made, stalls) ==
  [state |-> state, made |-> made, stalls |-> stalls, lock |-> NoProcess]

\* The lock check of Bull's scripts: a token is as good for another slot of its process.
HoldsLock(s) == job.lock = process[s]

Emit(kind) == failures' = [failures EXCEPT ![kind] = @ + 1]

-----------------------------------------------------------------------------
\* Bull gives the job to a free slot.
Take(s) ==
  /\ job.state = "waiting"
  /\ slot[s].at = "idle"
  /\ job' = [job EXCEPT !.state = "active", !.lock = process[s]]
  /\ slot' = [slot EXCEPT ![s] = [at |-> "taken", made |-> job.made]]
  /\ UNCHANGED <<valid, failures, dlq, lost, history>>

\* processDelivery: validateTarget throws, or sendRequest posts.
ProcessDelivery(s) ==
  /\ slot[s].at = "taken"
  /\ MoveTo(s, IF valid THEN "posting" ELSE "throwing")
  /\ sends' = IF valid THEN sends + 1 ELSE sends
  /\ UNCHANGED <<job, valid, failures, dlq, lost, accepted, alarmed>>

\* A 2xx response.
Delivered(s) ==
  /\ slot[s].at = "posting"
  /\ accepted' = TRUE
  /\ MoveTo(s, "returning")
  /\ UNCHANGED <<job, valid, failures, dlq, lost, sends, alarmed>>

\* The dead-letter branch of handleFailure: report it, and return.
GiveUp(s) == MoveTo(s, "returning") /\ alarmed' = TRUE

\* shouldRetry, for the attempt that just failed.
ShouldRetry(s) == slot[s].made + 1 < MaxRetries

\* A mutant: the retry is left to the caller, but not by throwing.
RetrySwallowed(s) ==
  /\ slot[s].at = "posting"
  /\ accepted' = TRUE \/ UNCHANGED accepted
  /\ IF ShouldRetry(s) THEN MoveTo(s, "returning") /\ UNCHANGED alarmed ELSE GiveUp(s)
  /\ UNCHANGED <<job, valid, failures, dlq, lost, sends>>

\* A mutant: no timeout, and a receiver that does not answer.
NoTimeout(s) == FALSE /\ UNCHANGED webhookVars

\* A 5xx response, a broken connection or the request's timeout, which do not
\* tell whether the receiver processed the POST.
TransientFailure(s) ==
  /\ slot[s].at = "posting"
  /\ accepted' = TRUE \/ UNCHANGED accepted
  /\ IF ShouldRetry(s) THEN MoveTo(s, "throwing") /\ UNCHANGED alarmed ELSE GiveUp(s)
  /\ UNCHANGED <<job, valid, failures, dlq, lost, sends>>

\* Any other 4xx response.
PermanentFailure(s) ==
  /\ slot[s].at = "posting"
  /\ GiveUp(s)
  /\ UNCHANGED <<job, valid, failures, dlq, lost, sends, accepted>>

-----------------------------------------------------------------------------
\* BaseWorker.runHandle returns after its heartbeat: with the lock Bull completes
\* the job; without, the error of moveToCompleted is caught like one of the handler.
Complete(s) ==
  /\ slot[s].at = "returning"
  /\ IF HoldsLock(s)
     THEN /\ job' = Left("completed", job.made, job.stalls)
          /\ slot' = [slot EXCEPT ![s] = Idle]
     ELSE MoveTo(s, "throwing") /\ UNCHANGED job
  /\ UNCHANGED <<valid, failures, dlq, lost, history>>

\* Every job.progress, before and after the delivery, and the heartbeat SET are
\* inside the try of runHandle: one that is rejected makes the attempt fail,
\* whatever the delivery returned.  So does a rejected moveToCompleted.
RedisThrows(s) ==
  /\ slot[s].at \in {"taken", "returning"}
  /\ MoveTo(s, "throwing")
  /\ UNCHANGED <<job, valid, failures, dlq, lost, history>>

\* runHandle throws, and moveToFailed writes the attempts of this slot's copy into
\* the job, with or without the lock.  Only with it does the same MULTI delay the job
\* or mark it failed, and only then does Bull emit 'failed'.
Fail(s) ==
  /\ slot[s].at = "throwing"
  /\ LET made == slot[s].made + 1
         again == made < Attempts
     IN  IF HoldsLock(s)
         THEN /\ job' = Left(IF again THEN "delayed" ELSE "failed", made, job.stalls)
              /\ Emit(IF again THEN "retried" ELSE "final")
         ELSE job' = [job EXCEPT !.made = made] /\ UNCHANGED failures
  /\ slot' = [slot EXCEPT ![s] = Idle]
  /\ UNCHANGED <<valid, dlq, lost, history>>

\* The MULTI of moveToFailed is rejected: the slot is free, and the job's lock
\* is renewed no more.
FailRejected(s) ==
  /\ slot[s].at = "throwing"
  /\ slot' = [slot EXCEPT ![s] = Idle]
  /\ UNCHANGED <<job, valid, failures, dlq, lost, history>>

\* The backoff of the job's options has passed.
Promote ==
  /\ job.state = "delayed"
  /\ job' = [job EXCEPT !.state = "waiting"]
  /\ UNCHANGED <<slot, valid, failures, dlq, lost, history>>

\* An event of kind k has been handled.
Handled(k) == failures[k] > 0 /\ failures' = [failures EXCEPT ![k] = @ - 1]

\* A mutant: every failure, but not every state, is forwarded.
ForwardExhausted ==
  /\ \E k \in Kinds : Handled(k) /\ dlq' = IF job.made = Attempts THEN dlq \cup {k} ELSE dlq
  /\ UNCHANGED <<job, slot, valid, lost, history>>

\* The 'failed' handler of the bridge: sendToDeadLetter.
ForwardFailed ==
  /\ \E k \in Kinds : Handled(k) /\ dlq' = dlq \cup {k}
  /\ UNCHANGED <<job, slot, valid, lost, history>>

\* The handler logs an error of sendToDeadLetter and swallows it, or its process
\* dies before it is done.
ForwardFails ==
  /\ \E k \in Kinds : Handled(k) /\ lost' = lost \cup {k}
  /\ UNCHANGED <<job, slot, valid, dlq, history>>

\* The slots of process p that are at work.
Busy(p) == {s \in Slots : process[s] = p /\ slot[s].at # "idle"}

\* A process dies with what its slots were doing; the job stays active, under a
\* lock whose token nobody has any more (the next Queue object makes a new one).
Die(p) ==
  /\ Busy(p) # {}
  /\ slot' = [s \in Slots |-> IF process[s] = p THEN Idle ELSE slot[s]]
  /\ job' = IF job.lock = p THEN [job EXCEPT !.lock = NoProcess] ELSE job
  /\ UNCHANGED <<valid, failures, dlq, lost, history>>

\* The lock was not renewed in time and expires.
LoseLock ==
  /\ job.lock # NoProcess
  /\ job' = [job EXCEPT !.lock = NoProcess]
  /\ UNCHANGED <<slot, valid, failures, dlq, lost, history>>

\* A mutant: a job may stall for ever.
StallUncounted ==
  /\ job.state = "active" /\ job.lock = NoProcess
  /\ job' = Left("waiting", job.made, job.stalls)
  /\ UNCHANGED <<slot, valid, failures, dlq, lost, history>>

\* Bull's check of stalled jobs finds that the lock is gone.
Stall ==
  /\ job.state = "active" /\ job.lock = NoProcess
  /\ IF job.stalls < MaxStalled
     THEN job' = Left("waiting", job.made, job.stalls + 1) /\ UNCHANGED failures
     ELSE job' = Left("failed", job.made, job.stalls + 1) /\ Emit("final")
  /\ UNCHANGED <<slot, valid, dlq, lost, history>>

Work(s) == \/ Take(s) \/ ProcessDelivery(s)
           \/ Delivered(s) \/ PermanentFailure(s)
           \/ Complete(s) \/ RedisThrows(s) \/ Fail(s) \/ FailRejected(s)

WebhookNext == \/ \E s \in Slots : Work(s) \/ TransientFailure(s)
               \/ \E p \in Processes : Die(p)
               \/ Promote \/ ForwardFailed \/ ForwardFails \/ LoseLock \/ Stall

WebhookSpec == WebhookInit /\ [][WebhookNext]_webhookVars

\* What is left when the job is settled and its slots and events are done.
Settled == job.state \in {"completed", "failed"}

\* Processes are restarted and Redis answers, each request is answered or times
\* out, and Bull's timers fire: a lock that no slot renews expires.
WebhookFairSpec == /\ WebhookSpec
                   /\ \A s \in Slots : /\ WF_webhookVars(Take(s))
                                       /\ WF_webhookVars(ProcessDelivery(s))
                                       /\ WF_webhookVars(TransientFailure(s))
                                       /\ WF_webhookVars(Complete(s))
                                       /\ WF_webhookVars(Fail(s))
                   /\ WF_webhookVars(Promote) /\ WF_webhookVars(ForwardFailed)
                   /\ WF_webhookVars(LoseLock /\ Busy(job.lock) = {})
                   /\ WF_webhookVars(Stall)

-----------------------------------------------------------------------------
\* Whatever stalls, dies or fails, and however many slots end up with the job: the
\* receiver gets no more POSTs than the attempts, begun anew after each tolerated
\* stall.  A stall can cost that much and not just one POST more: the slot that lost
\* the job writes its older count of attempts back when it fails.
SendsBounded == sends <= Attempts * (MaxStalled + 1)

\* "Maximum number of delivery attempts before a webhook is dead-lettered", stalls
\* allowed for.
SendsWithinRetries == sends <= MaxRetries + job.stalls

\* No webhook is lost in silence: a completed job was delivered or reported as
\* dead-lettered.
CompletedIsKnown == job.state = "completed" => accepted \/ alarmed

\* A job ends, whatever happens to its slots.
JobSettles == <>Settled

\* Step 3 of the bridge, where it is right: a job that failed for good, by its
\* attempts or its stalls, gets into the dead letter queue, unless that queue
\* refused it or the bridge died with it.
FailedGetsForwarded == job.state = "failed" ~> "final" \in dlq \cup lost

\* Step 3 of the bridge: it forwards "permanently failed jobs" (and no others).
OnlyPermanentlyFailedForwarded == "retried" \notin dlq

\* "Permanent failure or retries exhausted -> dead-letter (no further retries)".
NoSendAfterDeadLetter == [][alarmed => sends' = sends]_webhookVars
=============================================================================
