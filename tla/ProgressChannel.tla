--------------------------- MODULE ProgressChannel ---------------------------
(***************************************************************************)
(* The delivery of a run's progress events: the sink of the Runner         *)
(* (job-dispatch/run-progress-sink.ts) sends one batch per event, in       *)
(* order, each up to Attempts times; the Control Plane ingests it          *)
(* (RunnerJobsService.progress, ingestProgress).  A request, or the answer *)
(* to it, may be lost, and a request whose sender gave up may be processed *)
(* later.  The event's effect on the run is in RunDispatch.                *)
(***************************************************************************)
EXTENDS Naturals

CONSTANTS
  Events,    \* number of events the execution may emit
  Capacity,  \* MAX_BUFFERED_EVENTS
  Attempts   \* RETRY_ATTEMPTS

\* What the theorems assume of the constants (run-progress-sink.ts declares
\* positive ones).
ChannelConstants ==
  Events \in Nat /\ Capacity \in Nat /\ Attempts \in Nat \ {0}

VARIABLES
  emitted,   \* sequence: the last event number given out
  buffered,  \* pendingCount
  chain,     \* the batch the promise chain is at
  try,       \* attempt of that batch; 0 when none is under way
  reply,    \* what the request under way came back with, "none" before
  late,      \* requests their sender gave up on, not yet processed
  losses,    \* answers lost for the batch the chain is at
  failure,   \* the first delivery that failed: how, or NoFailure
  aborted,   \* the execution was told to stop
  accepted,  \* lastProgressSequence of the run
  leased,    \* the lease token is valid
  cancel,    \* the run is CANCEL_REQUESTED
  phase      \* what executeClaimedJob does

progressVars == <<emitted, buffered, chain, try, reply, late, losses,
                  failure, aborted, accepted, leased, cancel, phase>>

NoFailure == [losses |-> 0, leased |-> TRUE]
Failed == failure # NoFailure

ProgressInit ==
  /\ emitted = 0 /\ buffered = 0 /\ chain = 1 /\ try = 0 /\ reply = "none"
  /\ late = [n \in 1..Events |-> 0] /\ losses = 0 /\ failure = NoFailure
  /\ aborted = FALSE /\ accepted = 0 /\ leased = TRUE /\ cancel = FALSE
  /\ phase = "running"

-----------------------------------------------------------------------------
\* emit: the event joins the chain, or the delivery is refused.
emit ==
  /\ phase = "running" /\ emitted < Events
  /\ ~Failed /\ buffered < Capacity
  /\ emitted' = emitted + 1 /\ buffered' = buffered + 1
  /\ UNCHANGED <<chain, try, reply, late, losses, failure, aborted, accepted,
                 leased, cancel, phase>>

\* The refusal throws into the engine, which ends with the error or with a
\* result of its own.
emitRefused ==
  /\ phase = "running" /\ (Failed \/ buffered >= Capacity)
  /\ aborted' = TRUE
  /\ phase' \in {"flushing", "failed"}
  /\ UNCHANGED <<emitted, buffered, chain, try, reply, late, losses, failure,
                 accepted, leased, cancel>>

ExecutionEnds ==
  /\ phase = "running" /\ phase' = "flushing"
  /\ UNCHANGED <<emitted, buffered, chain, try, reply, late, losses, failure,
                 aborted, accepted, leased, cancel>>

\* sendWithRetry: the first attempt of the next batch of the chain.
send ==
  /\ try = 0 /\ chain <= emitted
  /\ try' = 1 /\ reply' = "none" /\ losses' = 0
  /\ UNCHANGED <<emitted, buffered, chain, late, failure, aborted, accepted,
                 leased, cancel, phase>>

\* ingestProgress: a batch already stored is answered again, the next one is
\* stored, any other is out of sequence.
Ingest(n) ==
  IF ~leased THEN "lease_invalid"
  ELSE IF n <= accepted + 1 THEN "accepted"
  ELSE "sequence_invalid"
Stored(n) == IF leased /\ n = accepted + 1 THEN n ELSE accepted

\* RunnerJobsService.progress on the request under way.
progress ==
  /\ try > 0 /\ reply = "none"
  /\ reply' = Ingest(chain)
  /\ accepted' = Stored(chain)
  /\ UNCHANGED <<emitted, buffered, chain, try, late, losses, failure,
                 aborted, leased, cancel, phase>>

\* A request that outlived its sender: nobody reads the answer.
LateRequest(n) ==
  /\ late[n] > 0
  /\ late' = [late EXCEPT ![n] = @ - 1]
  /\ accepted' = Stored(n)
  /\ UNCHANGED <<emitted, buffered, chain, try, reply, losses, failure,
                 aborted, leased, cancel, phase>>

\* An attempt failed: try again, or give up, which stops the execution but
\* not the chain: the batches already emitted are still sent.
AttemptFails(l) ==
  IF try < Attempts
  THEN /\ try' = try + 1 /\ reply' = "none" /\ losses' = l
       /\ UNCHANGED <<chain, failure, aborted>>
  ELSE /\ try' = 0 /\ reply' = "none" /\ losses' = 0
       /\ chain' = chain + 1 /\ aborted' = TRUE
       /\ failure' = IF Failed THEN failure
                     ELSE [losses |-> l, leased |-> leased]

\* The HTTP client gives up on the request (the time limit, a broken
\* connection); whether it reached the server is not known.
RequestLost ==
  /\ try > 0
  /\ AttemptFails(losses + 1)
  /\ late' \in {late} \cup
       (IF reply = "none" THEN {[late EXCEPT ![chain] = @ + 1]} ELSE {})
  /\ UNCHANGED <<emitted, buffered, accepted, leased, cancel, phase>>

\* The answer arrives: an acknowledgement frees the buffer and may carry the
\* wish to cancel, an error counts as a failed attempt.
receive ==
  /\ try > 0 /\ reply # "none"
  /\ IF reply = "accepted"
     THEN /\ try' = 0 /\ reply' = "none" /\ losses' = 0
          /\ chain' = chain + 1 /\ buffered' = buffered - 1
          /\ aborted' = (aborted \/ cancel)
          /\ UNCHANGED failure
     ELSE AttemptFails(losses) /\ UNCHANGED buffered
  /\ UNCHANGED <<emitted, late, accepted, leased, cancel, phase>>

\* Mutant: a failed delivery is not reported.
FlushIgnoresFailure ==
  /\ phase = "flushing" /\ try = 0 /\ chain > emitted
  /\ phase' = "flushed"
  /\ UNCHANGED <<emitted, buffered, chain, try, reply, late, losses, failure,
                 aborted, accepted, leased, cancel>>

\* flush: it waits for the chain and throws after a failure.
flush ==
  /\ phase = "flushing" /\ try = 0 /\ chain > emitted
  /\ phase' = IF Failed THEN "failed" ELSE "flushed"
  /\ UNCHANGED <<emitted, buffered, chain, try, reply, late, losses, failure,
                 aborted, accepted, leased, cancel>>

\* completeWithRetry, as one outcome.
complete ==
  /\ phase = "flushed"
  /\ phase' \in (IF leased THEN {"completed"} ELSE {}) \cup {"failed"}
  /\ UNCHANGED <<emitted, buffered, chain, try, reply, late, losses, failure,
                 aborted, accepted, leased, cancel>>

\* The lease expires or the run ends at the Control Plane; a user cancels.
LeaseLost ==
  /\ leased /\ leased' = FALSE
  /\ UNCHANGED <<emitted, buffered, chain, try, reply, late, losses, failure,
                 aborted, accepted, cancel, phase>>
CancelRequested ==
  /\ ~cancel /\ leased /\ cancel' = TRUE
  /\ UNCHANGED <<emitted, buffered, chain, try, reply, late, losses, failure,
                 aborted, accepted, leased, phase>>

Deliver == send \/ progress \/ receive \/ RequestLost
FinishRun == flush \/ complete

ProgressNext ==
  \/ emit \/ emitRefused \/ ExecutionEnds \/ Deliver \/ FinishRun
  \/ \E n \in 1..Events : LateRequest(n)
  \/ LeaseLost \/ CancelRequested

ProgressSpec == ProgressInit /\ [][ProgressNext]_progressVars

\* An execution ends, a request is answered or times out, promises run on.
ProgressFairness ==
  /\ WF_progressVars(ExecutionEnds \/ emitRefused)
  /\ WF_progressVars(Deliver) /\ WF_progressVars(FinishRun)
ProgressFairSpec == ProgressSpec /\ ProgressFairness

-----------------------------------------------------------------------------
ProgressTypeOK ==
  /\ emitted \in 0..Events /\ buffered \in 0..Capacity
  /\ chain \in 1..(Events + 1) /\ try \in 0..Attempts
  /\ reply \in {"none", "accepted", "sequence_invalid", "lease_invalid"}
  /\ late \in [1..Events -> 0..Attempts] /\ losses \in 0..Attempts
  /\ phase \in {"running", "flushing", "flushed", "failed", "completed"}
  /\ accepted \in 0..emitted

\* A run is completed only when the Control Plane has stored every event the
\* execution emitted, in spite of lost answers and late requests: the
\* completion follows a flush that a failed delivery makes throw.
CompletedMeansDelivered ==
  phase \in {"flushed", "completed"} => accepted = emitted /\ ~Failed

\* The delivery fails only when every attempt of one batch was lost or when
\* the lease is gone: a batch whose answer was lost is sent again without
\* being taken for a conflict or for an event out of sequence.
FailureNeedsAnOutage ==
  Failed => failure.losses = Attempts \/ ~failure.leased

\* Every execution ends, completed or failed: neither a full buffer nor lost
\* requests leave the flush waiting.
DeliverySettles == <>(phase \in {"completed", "failed"})
\* Completion and failure of a delivery together (http-progress-sink.ts):
\* a run completes with all its events stored, and fails for an outage only.
ProgressIsDelivered == CompletedMeansDelivered /\ FailureNeedsAnOutage
=============================================================================
