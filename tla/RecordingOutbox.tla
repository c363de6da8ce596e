-------------------------- MODULE RecordingOutbox --------------------------
(***************************************************************************)
(* The outbox of one archived recording: RecordingSyncController on the    *)
(* local archive, with the transport of the golden path and what the       *)
(* control plane answers it (RecordingSync has that side in detail).       *)
(*                                                                         *)
(* The archive executes its mutations one after another; two callers may   *)
(* still synchronise the same recording, and the extension may be stopped  *)
(* in the middle of an attempt.                                            *)
(***************************************************************************)
EXTENDS Integers, FiniteSets

CONSTANTS
  Callers,      \* calls of sync that may be open at once
  MaxAttempts,  \* bound: attempts
  MaxLost       \* bound: answers that never arrive

VARIABLES
  entry,   \* the outbox entry: status and attemptCount
  received,  \* the recording session of the control plane
  caller,  \* each call of sync: "idle" or the step it is at
  lost     \* answers lost

outboxVars == <<entry, received, caller, lost>>

OutboxInit ==
  /\ entry = [status |-> "pending", attemptCount |-> 0]
  /\ received = "none"
  /\ caller = [c \in Callers |-> "idle"]
  /\ lost = 0

GotoStep(c, step) == caller' = [caller EXCEPT ![c] = step]

\* beginSync: a synced entry is returned as it is; any other starts a new
\* attempt, also one that another attempt left syncing.
beginSync(c) ==
  /\ caller[c] = "idle" /\ entry.attemptCount < MaxAttempts
  /\ IF entry.status = "synced" THEN UNCHANGED <<entry, caller>>
     ELSE /\ entry' = [status |-> "syncing",
                       attemptCount |-> entry.attemptCount + 1]
          /\ GotoStep(c, "create")
  /\ UNCHANGED <<received, lost>>

\* The control plane's answer to a request of the transport: the request
\* may be refused, and its answer may be lost after it took effect.
Request(c, step, works, after, next) ==
  /\ caller[c] = step
  /\ \/ /\ works /\ received' = after /\ GotoStep(c, next) /\ UNCHANGED lost
     \/ /\ ~works /\ UNCHANGED <<received, lost>> /\ GotoStep(c, "failed")
     \/ /\ lost < MaxLost /\ lost' = lost + 1
        /\ received' = IF works THEN after ELSE received
        /\ GotoStep(c, "failed")
  /\ UNCHANGED entry

sendCreate(c) ==
  Request(c, "create", TRUE,
          IF received = "none" THEN "receiving" ELSE received, "batch")

\* Every attempt sends its batch under a new identifier, so a batch that was
\* stored before collides.
sendBatch(c) == Request(c, "batch", received = "receiving", "received",
                        "complete")

sendComplete(c) ==
  Request(c, "complete", received \in {"received", "completed"}, "completed",
          "sent")

\* Mutant: the result of an attempt is taken whatever became of the entry.
AnyEntry == TRUE

\* updateAttemptResult: only a syncing entry takes a result, another one
\* makes the call throw.
AttemptOpen == entry.status = "syncing"

markSynced(c) ==
  /\ caller[c] = "sent"
  /\ entry' = IF AttemptOpen THEN [entry EXCEPT !.status = "synced"]
              ELSE entry
  /\ GotoStep(c, "idle")
  /\ UNCHANGED <<received, lost>>

markFailed(c) ==
  /\ caller[c] = "failed"
  /\ entry' = IF AttemptOpen THEN [entry EXCEPT !.status = "failed"]
              ELSE entry
  /\ GotoStep(c, "idle")
  /\ UNCHANGED <<received, lost>>

\* The extension is stopped in the middle of the attempts.
stopExtension ==
  /\ \E c \in Callers : caller[c] # "idle"
  /\ caller' = [c \in Callers |-> "idle"]
  /\ UNCHANGED <<entry, received, lost>>

OutboxNext ==
  \/ \E c \in Callers : \/ beginSync(c) \/ sendCreate(c) \/ sendBatch(c)
                        \/ sendComplete(c) \/ markSynced(c) \/ markFailed(c)
  \/ stopExtension

OutboxSpec == OutboxInit /\ [][OutboxNext]_outboxVars
-----------------------------------------------------------------------------
OutboxTypeOK ==
  /\ entry.status \in {"pending", "syncing", "synced", "failed"}
  /\ entry.attemptCount \in 0..MaxAttempts
  /\ received \in {"none", "receiving", "received", "completed"}
  /\ lost \in 0..MaxLost

\* A recording is marked synced only when the control plane holds all of it
\* and its completion, whichever of two overlapping attempts got there.
SyncedMeansCompleted == entry.status = "synced" => received = "completed"

\* A late failure of another attempt never takes the mark back.
SyncedIsFinal == entry.status = "synced" => entry'.status = "synced"
\* The mark of markSynced is true and stays (updateAttemptResult).
SyncIsFinal == []SyncedMeansCompleted /\ [][SyncedIsFinal]_outboxVars
=============================================================================
