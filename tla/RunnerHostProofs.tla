-------------------------- MODULE RunnerHostProofs ----------------------------
(***************************************************************************)
(* Proofs about the components of the Runner host that run beside the      *)
(* engine and the updater.                                                 *)
(*                                                                         *)
(* ProgressChannel: for any numbers of events, buffer places and attempts, *)
(* whatever is lost or arrives late, a completed run has all its events    *)
(* stored, and a delivery fails only by an outage.  What the Control Plane *)
(* has stored must keep pace with the chain (StoredInv), for which late    *)
(* requests may carry nothing the chain has not come to (LateInv); the     *)
(* losses of a batch count its attempts while the lease is valid           *)
(* (LossInv); and a flushed channel must stay at its end (FlushInv).       *)
(*                                                                         *)
(* RecordingOutbox: for any number of callers, a recording marked synced   *)
(* is completed at the Control Plane, and stays so.                        *)
(*                                                                         *)
(* RunnerService: for any number of sessions, no job is claimed by a       *)
(* worker that was told to stop, or for a device whose unlock has not been *)
(* acknowledged: from the registration on, the gate is not pending         *)
(* (GateInv).                                                              *)
(*                                                                         *)
(* ReleaseAcquisition: for any number of processes and any objects the     *)
(* release URL comes to serve, what is published is whole, and a resumed   *)
(* artifact is of one object: what a call counts on in the partial         *)
(* directory must be what is in it (AcquisitionInv).                       *)
(*                                                                         *)
(* LocalVault: for any number of commands, revisions and crashes, the      *)
(* vault opens and nothing is silently overwritten, and a run is given the *)
(* versions it was pinned to: a command must hold a vault that opens and   *)
(* changes only what it built, and a claimed run the pin of its Runner     *)
(* (VaultInv).                                                             *)
(***************************************************************************)
EXTENDS ProgressChannel, RecordingOutbox, RunnerService, ReleaseAcquisition,
        LocalVault, Integers, FiniteSetTheorems, TLAPS

-----------------------------------------------------------------------------
(* The inductive invariant                                                 *)

(* The buffer holds at least what the chain has not come to.               *)
QueueInv ==
  /\ chain <= emitted + 1 /\ (try > 0 => chain <= emitted)
  /\ emitted + 1 - chain <= buffered
  /\ try > 0 <=> losses < try

(* Requests that outlived their sender carry no batch the chain has not    *)
(* come to, and of the present one fewer than its attempts.                *)
LateInv ==
  \A n \in 1 .. Events :
    /\ n > chain => late[n] = 0
    /\ n = chain => late[n] = 0 \/ late[n] < try

(* What is stored is what the chain has come to: nothing is missing unless *)
(* a delivery failed, and the answer of the request under way agrees.      *)
StoredInv ==
  /\ accepted <= chain /\ (try = 0 => accepted < chain)
  /\ ~Failed => chain - 1 <= accepted
  /\ reply = "accepted" => chain <= accepted
  /\ reply = "lease_invalid" => ~leased
  /\ reply = "sequence_invalid" => Failed

(* While the lease is valid, only losses count as failed attempts.         *)
LossInv ==
  /\ try > 0 /\ leased /\ ~Failed => losses = try - 1
  /\ Failed => failure.losses = Attempts \/ ~failure.leased

(* Past the flush the chain is at its end.                                 *)
FlushInv ==
  phase \in {"flushed", "completed"} => ~Failed /\ try = 0 /\ chain > emitted

(* The domains ProgressTypeOK leaves out.                                  *)
Flags ==
  /\ aborted \in BOOLEAN /\ leased \in BOOLEAN /\ cancel \in BOOLEAN
  /\ failure \in [losses : 0 .. Attempts, leased : BOOLEAN]

(* All of it.                                                              *)
ChannelInv ==
  /\ ProgressTypeOK /\ Flags
  /\ QueueInv /\ LateInv /\ StoredInv /\ LossInv /\ FlushInv

-----------------------------------------------------------------------------
(* One lemma per step                                                      *)

(* One more request left behind.                                           *)
LEMMA RequestAdded ==
  ASSUME ChannelConstants, NEW f \in [1 .. Events -> 0 .. Attempts], NEW g,
         NEW n \in 1 .. Events, f[n] \in 0 .. Attempts - 1,
         g = f \/ g = [f EXCEPT ![n] = @ + 1]
  PROVE  g \in [1 .. Events -> 0 .. Attempts]
  <1>1. f[n] + 1 \in 0 .. Attempts
    BY DEF ChannelConstants
  <1> QED
    BY <1>1

(* Nothing was sent yet.                                                   *)
LEMMA ChannelInit ==
  ASSUME ChannelConstants, ProgressInit
  PROVE  ChannelInv
  <1> USE DEF ProgressInit, ChannelConstants
  <1>1. ProgressTypeOK
    <2>1. late \in [1 .. Events -> 0 .. Attempts]
      OBVIOUS
    <2> QED
      BY <2>1 DEF ProgressTypeOK
  <1>3. Flags
    <2>1. 0 \in 0 .. Attempts
      OBVIOUS
    <2> QED
      BY <2>1, Zenon DEF Flags, NoFailure
  <1>2. QueueInv /\ LateInv /\ StoredInv /\ LossInv /\ FlushInv
    BY DEF QueueInv, LateInv, StoredInv, LossInv, FlushInv, Failed
  <1> QED
    BY <1>1, <1>2, <1>3 DEF ChannelInv

(* An event joins the chain, or is refused, or the execution ends.         *)
LEMMA EmitKeeps ==
  ASSUME ChannelConstants, ChannelInv, emit
  PROVE  ChannelInv'
  <1> USE DEF emit, ChannelConstants
  <1>0. /\ ProgressTypeOK /\ Flags
        /\ QueueInv /\ LateInv /\ StoredInv /\ LossInv /\ FlushInv
    BY DEF ChannelInv
  <1>1. ProgressTypeOK' /\ Flags'
    BY <1>0 DEF ProgressTypeOK, Flags
  <1>2. QueueInv'
    BY <1>0 DEF QueueInv, ProgressTypeOK
  <1>3. LateInv'
    BY <1>0 DEF LateInv
  <1>4. StoredInv'
    BY <1>0 DEF StoredInv
  <1>5. LossInv'
    BY <1>0 DEF LossInv, Failed
  <1>6. FlushInv'
    BY <1>0 DEF FlushInv
  <1> QED
    BY <1>1, <1>2, <1>3, <1>4, <1>5, <1>6 DEF ChannelInv

(* The execution is refused an event and aborted.                          *)
LEMMA RefusalKeeps ==
  ASSUME ChannelConstants, ChannelInv, emitRefused
  PROVE  ChannelInv'
  <1> USE DEF emitRefused, ChannelConstants
  <1>0. /\ ProgressTypeOK /\ Flags
        /\ QueueInv /\ LateInv /\ StoredInv /\ LossInv /\ FlushInv
    BY DEF ChannelInv
  <1>1. ProgressTypeOK' /\ Flags'
    BY <1>0 DEF ProgressTypeOK, Flags
  <1>2. QueueInv'
    BY <1>0 DEF QueueInv
  <1>3. LateInv'
    BY <1>0 DEF LateInv
  <1>4. StoredInv'
    BY <1>0 DEF StoredInv, Failed
  <1>5. LossInv'
    BY <1>0 DEF LossInv, Failed
  <1>6. FlushInv'
    BY <1>0 DEF FlushInv
  <1> QED
    BY <1>1, <1>2, <1>3, <1>4, <1>5, <1>6 DEF ChannelInv

(* The execution ends.                                                     *)
LEMMA EndKeeps ==
  ASSUME ChannelConstants, ChannelInv, ExecutionEnds
  PROVE  ChannelInv'
  <1> USE DEF ExecutionEnds, ChannelConstants
  <1>0. /\ ProgressTypeOK /\ Flags
        /\ QueueInv /\ LateInv /\ StoredInv /\ LossInv /\ FlushInv
    BY DEF ChannelInv
  <1>1. ProgressTypeOK' /\ Flags'
    BY <1>0 DEF ProgressTypeOK, Flags
  <1>2. QueueInv'
    BY <1>0 DEF QueueInv
  <1>3. LateInv'
    BY <1>0 DEF LateInv
  <1>4. StoredInv'
    BY <1>0 DEF StoredInv, Failed
  <1>5. LossInv'
    BY <1>0 DEF LossInv, Failed
  <1>6. FlushInv'
    BY <1>0 DEF FlushInv
  <1> QED
    BY <1>1, <1>2, <1>3, <1>4, <1>5, <1>6 DEF ChannelInv

(* The first attempt of a batch.                                           *)
LEMMA SendKeeps ==
  ASSUME ChannelConstants, ChannelInv, send
  PROVE  ChannelInv'
  <1> USE DEF send, ChannelConstants
  <1>0. /\ ProgressTypeOK /\ Flags
        /\ QueueInv /\ LateInv /\ StoredInv /\ LossInv /\ FlushInv
    BY DEF ChannelInv
  <1>1. ProgressTypeOK' /\ Flags'
    BY <1>0 DEF ProgressTypeOK, Flags
  <1>2. QueueInv'
    BY <1>0 DEF QueueInv
  <1>3. LateInv'
    BY <1>0 DEF LateInv, ProgressTypeOK
  <1>4. StoredInv'
    BY <1>0 DEF StoredInv, Failed
  <1>5. LossInv'
    BY <1>0 DEF LossInv, Failed
  <1>6. FlushInv'
    BY <1>0 DEF FlushInv, ProgressTypeOK
  <1> QED
    BY <1>1, <1>2, <1>3, <1>4, <1>5, <1>6 DEF ChannelInv

(* The Control Plane answers the request under way.                        *)
LEMMA ProgressKeeps ==
  ASSUME ChannelConstants, ChannelInv, progress
  PROVE  ChannelInv'
  <1> USE DEF progress, Ingest, Stored, ChannelConstants
  <1>0. /\ ProgressTypeOK /\ Flags
        /\ QueueInv /\ LateInv /\ StoredInv /\ LossInv /\ FlushInv
    BY DEF ChannelInv
  <1>1. ProgressTypeOK' /\ Flags'
    BY <1>0 DEF ProgressTypeOK, Flags, QueueInv
  <1>2. QueueInv'
    BY <1>0 DEF QueueInv
  <1>3. LateInv'
    BY <1>0 DEF LateInv
  <1>4. StoredInv'
    BY <1>0 DEF StoredInv, ProgressTypeOK, Failed
  <1>5. LossInv'
    BY <1>0 DEF LossInv, Failed
  <1>6. FlushInv'
    BY <1>0 DEF FlushInv
  <1> QED
    BY <1>1, <1>2, <1>3, <1>4, <1>5, <1>6 DEF ChannelInv

(* The request, or the answer to it, is lost.                              *)
LEMMA LossKeeps ==
  ASSUME ChannelConstants, ChannelInv, RequestLost
  PROVE  ChannelInv'
  <1> USE DEF RequestLost, AttemptFails, ChannelConstants
  <1>0. /\ ProgressTypeOK /\ Flags
        /\ QueueInv /\ LateInv /\ StoredInv /\ LossInv /\ FlushInv
    BY DEF ChannelInv
  <1>1. ProgressTypeOK' /\ Flags'
    <2>1. late' \in [1 .. Events -> 0 .. Attempts]
      <3>1. chain \in 1 .. Events /\ late[chain] \in 0 .. Attempts - 1
        BY <1>0 DEF ProgressTypeOK, QueueInv, LateInv
      <3>2. late' = late \/ late' = [late EXCEPT ![chain] = @ + 1]
        OBVIOUS
      <3> QED
        BY <1>0, <3>1, <3>2, RequestAdded DEF ProgressTypeOK
    <2>2. losses + 1 \in 1 .. Attempts /\ chain + 1 \in 1 .. Events + 1
      BY <1>0 DEF ProgressTypeOK, QueueInv
    <2>3. ProgressTypeOK'
      <3>1. CASE try < Attempts
        BY <1>0, <2>1, <2>2, <3>1 DEF ProgressTypeOK
      <3>2. CASE ~(try < Attempts)
        BY <1>0, <2>1, <2>2, <3>2 DEF ProgressTypeOK
      <3> QED
        BY <3>1, <3>2
    <2>4. Flags'
      <3>1. losses + 1 \in 0 .. Attempts
        BY <2>2
      <3>2. /\ \/ failure' = failure
               \/ failure' = [losses |-> losses + 1, leased |-> leased]
            /\ aborted' = aborted \/ aborted' = TRUE
        OBVIOUS
      <3>3. failure' \in [losses : 0 .. Attempts, leased : BOOLEAN]
        BY <1>0, <3>1 DEF Flags
      <3>4. aborted' \in BOOLEAN
        BY <1>0 DEF Flags
      <3> QED
        BY <1>0, <3>3 DEF Flags
    <2> QED
      BY <2>3, <2>4
  <1>2. QueueInv'
    BY <1>0 DEF QueueInv, ProgressTypeOK
  <1>3. LateInv'
    BY <1>0 DEF LateInv, ProgressTypeOK
  <1>4. StoredInv'
    <2>1. CASE try < Attempts
      BY <1>0, <2>1 DEF StoredInv, ProgressTypeOK, Failed
    <2>2. CASE ~(try < Attempts)
      <3>1. Failed'
        BY <1>0, <2>2 DEF ProgressTypeOK, Failed, NoFailure
      <3> QED
        BY <1>0, <3>1 DEF StoredInv, ProgressTypeOK
    <2> QED
      BY <2>1, <2>2
  <1>5. LossInv'
    BY <1>0 DEF LossInv, QueueInv, ProgressTypeOK, Failed
  <1>6. FlushInv'
    BY <1>0 DEF FlushInv
  <1> QED
    BY <1>1, <1>2, <1>3, <1>4, <1>5, <1>6 DEF ChannelInv

(* The answer arrives.                                                     *)
LEMMA ReceiveKeeps ==
  ASSUME ChannelConstants, ChannelInv, receive
  PROVE  ChannelInv'
  <1> USE DEF receive, AttemptFails, ChannelConstants
  <1>0. /\ ProgressTypeOK /\ Flags
        /\ QueueInv /\ LateInv /\ StoredInv /\ LossInv /\ FlushInv
    BY DEF ChannelInv
  <1>1. ProgressTypeOK' /\ Flags'
    <2>1. CASE reply = "accepted"
      BY <1>0, <2>1 DEF ProgressTypeOK, Flags, QueueInv
    <2>2. CASE reply # "accepted"
      <3>1. losses \in 0 .. Attempts /\ chain + 1 \in 1 .. Events + 1
        BY <1>0 DEF ProgressTypeOK, QueueInv
      <3>2. ProgressTypeOK'
        BY <1>0, <2>2, <3>1 DEF ProgressTypeOK
      <3>3. /\ \/ failure' = failure
               \/ failure' = [losses |-> losses, leased |-> leased]
            /\ aborted' = aborted \/ aborted' = TRUE
        BY <2>2
      <3>4. failure' \in [losses : 0 .. Attempts, leased : BOOLEAN]
        BY <1>0, <3>1 DEF Flags
      <3>5. aborted' \in BOOLEAN
        BY <1>0 DEF Flags
      <3>6. Flags'
        BY <1>0, <3>4 DEF Flags
      <3> QED
        BY <3>2, <3>6
    <2> QED
      BY <2>1, <2>2
  <1>2. QueueInv'
    BY SMTT(20), <1>0 DEF QueueInv, ProgressTypeOK
  <1>3. LateInv'
    BY <1>0 DEF LateInv, ProgressTypeOK
  <1>4. StoredInv'
    <2>1. CASE reply = "accepted"
      BY <1>0, <2>1 DEF StoredInv, ProgressTypeOK
    <2>2. CASE reply # "accepted" /\ try < Attempts
      BY <1>0, <2>2 DEF StoredInv, ProgressTypeOK, Failed
    <2>3. CASE reply # "accepted" /\ ~(try < Attempts)
      <3>1. Failed'
        BY <1>0, <2>3 DEF StoredInv, ProgressTypeOK, Failed, NoFailure
      <3> QED
        BY <1>0, <3>1 DEF StoredInv, ProgressTypeOK
    <2> QED
      BY <2>1, <2>2, <2>3
  <1>5. LossInv'
    BY <1>0 DEF LossInv, StoredInv, ProgressTypeOK, Failed
  <1>6. FlushInv'
    BY <1>0 DEF FlushInv
  <1> QED
    BY <1>1, <1>2, <1>3, <1>4, <1>5, <1>6 DEF ChannelInv

(* A request that outlived its sender is processed.                        *)
LEMMA LateKeeps ==
  ASSUME ChannelConstants, ChannelInv, NEW n \in 1 .. Events, LateRequest(n)
  PROVE  ChannelInv'
  <1> USE DEF LateRequest, Stored, ChannelConstants
  <1>0. /\ ProgressTypeOK /\ Flags
        /\ QueueInv /\ LateInv /\ StoredInv /\ LossInv /\ FlushInv
    BY DEF ChannelInv
  <1>1. ProgressTypeOK' /\ Flags'
    BY <1>0 DEF ProgressTypeOK, Flags, QueueInv, LateInv
  <1>2. QueueInv'
    BY <1>0 DEF QueueInv
  <1>3. LateInv'
    BY <1>0 DEF LateInv, ProgressTypeOK
  <1>4. StoredInv'
    BY <1>0 DEF StoredInv, LateInv, ProgressTypeOK, Failed
  <1>5. LossInv'
    BY <1>0 DEF LossInv, Failed
  <1>6. FlushInv'
    BY <1>0 DEF FlushInv, Failed
  <1> QED
    BY <1>1, <1>2, <1>3, <1>4, <1>5, <1>6 DEF ChannelInv

(* The flush waits for the chain.                                          *)
LEMMA FlushKeeps ==
  ASSUME ChannelConstants, ChannelInv, flush
  PROVE  ChannelInv'
  <1> USE DEF flush, ChannelConstants
  <1>0. /\ ProgressTypeOK /\ Flags
        /\ QueueInv /\ LateInv /\ StoredInv /\ LossInv /\ FlushInv
    BY DEF ChannelInv
  <1>1. ProgressTypeOK' /\ Flags'
    BY <1>0 DEF ProgressTypeOK, Flags
  <1>2. QueueInv'
    BY <1>0 DEF QueueInv
  <1>3. LateInv'
    BY <1>0 DEF LateInv
  <1>4. StoredInv'
    BY <1>0 DEF StoredInv, Failed
  <1>5. LossInv'
    BY <1>0 DEF LossInv, Failed
  <1>6. FlushInv'
    BY <1>0 DEF FlushInv, Failed
  <1> QED
    BY <1>1, <1>2, <1>3, <1>4, <1>5, <1>6 DEF ChannelInv

(* The run is completed.                                                   *)
LEMMA CompleteKeeps ==
  ASSUME ChannelConstants, ChannelInv, complete
  PROVE  ChannelInv'
  <1> USE DEF complete, ChannelConstants
  <1>0. /\ ProgressTypeOK /\ Flags
        /\ QueueInv /\ LateInv /\ StoredInv /\ LossInv /\ FlushInv
    BY DEF ChannelInv
  <1>1. ProgressTypeOK' /\ Flags'
    BY <1>0 DEF ProgressTypeOK, Flags
  <1>2. QueueInv'
    BY <1>0 DEF QueueInv
  <1>3. LateInv'
    BY <1>0 DEF LateInv
  <1>4. StoredInv'
    BY <1>0 DEF StoredInv, Failed
  <1>5. LossInv'
    BY <1>0 DEF LossInv, Failed
  <1>6. FlushInv'
    BY <1>0 DEF FlushInv, Failed
  <1> QED
    BY <1>1, <1>2, <1>3, <1>4, <1>5, <1>6 DEF ChannelInv

(* The lease ends.                                                         *)
LEMMA LeaseKeeps ==
  ASSUME ChannelConstants, ChannelInv, LeaseLost
  PROVE  ChannelInv'
  <1> USE DEF LeaseLost, ChannelConstants
  <1>0. /\ ProgressTypeOK /\ Flags
        /\ QueueInv /\ LateInv /\ StoredInv /\ LossInv /\ FlushInv
    BY DEF ChannelInv
  <1>1. ProgressTypeOK' /\ Flags'
    BY <1>0 DEF ProgressTypeOK, Flags
  <1>2. QueueInv'
    BY <1>0 DEF QueueInv
  <1>3. LateInv'
    BY <1>0 DEF LateInv
  <1>4. StoredInv'
    BY <1>0 DEF StoredInv, Failed
  <1>5. LossInv'
    BY <1>0 DEF LossInv, Failed
  <1>6. FlushInv'
    BY <1>0 DEF FlushInv, Failed
  <1> QED
    BY <1>1, <1>2, <1>3, <1>4, <1>5, <1>6 DEF ChannelInv

(* A user cancels.                                                         *)
LEMMA CancelKeeps ==
  ASSUME ChannelConstants, ChannelInv, CancelRequested
  PROVE  ChannelInv'
  <1> USE DEF CancelRequested, ChannelConstants
  <1>0. /\ ProgressTypeOK /\ Flags
        /\ QueueInv /\ LateInv /\ StoredInv /\ LossInv /\ FlushInv
    BY DEF ChannelInv
  <1>1. ProgressTypeOK' /\ Flags'
    BY <1>0 DEF ProgressTypeOK, Flags
  <1>2. QueueInv'
    BY <1>0 DEF QueueInv
  <1>3. LateInv'
    BY <1>0 DEF LateInv
  <1>4. StoredInv'
    BY <1>0 DEF StoredInv, Failed
  <1>5. LossInv'
    BY <1>0 DEF LossInv, Failed
  <1>6. FlushInv'
    BY <1>0 DEF FlushInv, Failed
  <1> QED
    BY <1>1, <1>2, <1>3, <1>4, <1>5, <1>6 DEF ChannelInv

(* Every step keeps the invariant.                                         *)
LEMMA ChannelStep ==
  ASSUME ChannelConstants, ChannelInv, [ProgressNext]_progressVars
  PROVE  ChannelInv'
  <1>1. CASE emit
    BY <1>1, EmitKeeps
  <1>2. CASE emitRefused
    BY <1>2, RefusalKeeps
  <1>3. CASE ExecutionEnds
    BY <1>3, EndKeeps
  <1>4. CASE send
    BY <1>4, SendKeeps
  <1>5. CASE progress
    BY <1>5, ProgressKeeps
  <1>6. CASE RequestLost
    BY <1>6, LossKeeps
  <1>7. CASE receive
    BY <1>7, ReceiveKeeps
  <1>8. CASE \E n \in 1 .. Events : LateRequest(n)
    BY <1>8, LateKeeps
  <1>9. CASE flush
    BY <1>9, FlushKeeps
  <1>10. CASE complete
    BY <1>10, CompleteKeeps
  <1>11. CASE LeaseLost
    BY <1>11, LeaseKeeps
  <1>12. CASE CancelRequested
    BY <1>12, CancelKeeps
  <1>13. CASE UNCHANGED progressVars
    <2>1. ProgressTypeOK' /\ Flags' /\ QueueInv' /\ LateInv'
      BY <1>13 DEF ChannelInv, progressVars, ProgressTypeOK, Flags, QueueInv,
        LateInv
    <2>2. StoredInv' /\ LossInv' /\ FlushInv'
      BY <1>13 DEF ChannelInv, progressVars, StoredInv, LossInv, FlushInv,
                   Failed
    <2> QED
      BY <2>1, <2>2 DEF ChannelInv
  <1> QED
    BY <1>1, <1>2, <1>3, <1>4, <1>5, <1>6, <1>7, <1>8, <1>9, <1>10, <1>11,
       <1>12, <1>13 DEF ProgressNext, Deliver, FinishRun

(* So it holds throughout.                                                 *)
LEMMA ChannelInvariant ==
  ASSUME ChannelConstants PROVE ProgressSpec => []ChannelInv
  <1>1. ProgressInit => ChannelInv
    BY ChannelInit
  <1>2. ChannelInv /\ [ProgressNext]_progressVars => ChannelInv'
    BY ChannelStep
  <1> QED
    BY <1>1, <1>2, PTL DEF ProgressSpec

-----------------------------------------------------------------------------
(* What the channel promises                                               *)

(* The sink's counters stay in their domains; in particular the buffer     *)
(* never holds more than its capacity nor fewer than none, and the Control *)
(* Plane stores no event the execution did not emit.                       *)
THEOREM ChannelTyped ==
  ASSUME ChannelConstants PROVE ProgressSpec => []ProgressTypeOK
  <1>1. ChannelInv => ProgressTypeOK
    BY DEF ChannelInv
  <1> QED
    BY <1>1, ChannelInvariant, PTL

(* For any numbers of events, buffer places and attempts, whatever is lost *)
(* or arrives late: a completed run has all its events stored.             *)
THEOREM CompletionIsDelivery ==
  ASSUME ChannelConstants
  PROVE  ProgressSpec => []CompletedMeansDelivered
  <1>1. ChannelInv => CompletedMeansDelivered
    BY DEF ChannelInv, CompletedMeansDelivered, FlushInv, StoredInv, QueueInv,
           ProgressTypeOK, ChannelConstants
  <1> QED
    BY <1>1, ChannelInvariant, PTL

(* And no repeated or late request makes a delivery fail: that takes the   *)
(* loss of every attempt of a batch, or the loss of the lease.             *)
THEOREM RetriesDoNotFail ==
  ASSUME ChannelConstants
  PROVE  ProgressSpec => []FailureNeedsAnOutage
  <1>1. ChannelInv => FailureNeedsAnOutage
    BY DEF ChannelInv, FailureNeedsAnOutage, LossInv
  <1> QED
    BY <1>1, ChannelInvariant, PTL

(* Both together, as the runs check them.                                  *)
THEOREM DeliveryIsSound ==
  ASSUME ChannelConstants
  PROVE  ProgressSpec => []ProgressIsDelivered
  <1>1. ChannelInv => ProgressIsDelivered
    BY DEF ChannelInv, CompletedMeansDelivered, FlushInv, StoredInv, QueueInv,
           ProgressTypeOK, ChannelConstants, FailureNeedsAnOutage, LossInv,
           ProgressIsDelivered
  <1> QED
    BY <1>1, ChannelInvariant, PTL

-----------------------------------------------------------------------------
(* The outbox of a recording                                               *)

OutboxSteps == {"idle", "create", "batch", "complete", "sent", "failed"}

(* A call that was told of the completion has the recording's completion   *)
(* at the control plane, which nothing takes back.                         *)
OutboxInv ==
  /\ entry \in [status : {"pending", "syncing", "synced", "failed"},
                attemptCount : Int]
  /\ received \in {"none", "receiving", "received", "completed"}
  /\ caller \in [Callers -> OutboxSteps]
  /\ SyncedMeansCompleted
  /\ \A c \in Callers : caller[c] = "sent" => received = "completed"

(* The invariant holds at the start, and no step breaks it or the mark.    *)
LEMMA OutboxInvariant == OutboxSpec => []OutboxInv
  <1>1. OutboxInit => OutboxInv
    BY DEF OutboxInit, OutboxInv, OutboxSteps, SyncedMeansCompleted
  <1>2. OutboxInv /\ [OutboxNext]_outboxVars => OutboxInv'
    <2> SUFFICES ASSUME OutboxInv, [OutboxNext]_outboxVars PROVE OutboxInv'
      OBVIOUS
    <2> USE DEF OutboxInv, OutboxSteps, SyncedMeansCompleted, GotoStep
    <2>1. CASE UNCHANGED outboxVars
      BY <2>1 DEF outboxVars
    <2>2. ASSUME NEW c \in Callers, beginSync(c) PROVE OutboxInv'
      BY <2>2 DEF beginSync
    <2>3. ASSUME NEW c \in Callers, sendCreate(c) PROVE OutboxInv'
      BY <2>3 DEF sendCreate, Request
    <2>4. ASSUME NEW c \in Callers, sendBatch(c) PROVE OutboxInv'
      BY <2>4 DEF sendBatch, Request
    <2>5. ASSUME NEW c \in Callers, sendComplete(c) PROVE OutboxInv'
      BY <2>5 DEF sendComplete, Request
    <2>6. ASSUME NEW c \in Callers, markSynced(c) PROVE OutboxInv'
      BY <2>6 DEF markSynced, AttemptOpen
    <2>7. ASSUME NEW c \in Callers, markFailed(c) PROVE OutboxInv'
      BY <2>7 DEF markFailed, AttemptOpen
    <2>8. CASE stopExtension
      BY <2>8 DEF stopExtension
    <2> QED
      BY <2>1, <2>2, <2>3, <2>4, <2>5, <2>6, <2>7, <2>8 DEF OutboxNext
  <1> QED
    BY <1>1, <1>2, PTL DEF OutboxSpec

(* For any callers, attempts and lost answers: a recording marked synced   *)
(* is complete at the control plane, and no late attempt takes the mark    *)
(* back (updateAttemptResult, beginSync).                                  *)
THEOREM OutboxIsSound == OutboxSpec => SyncIsFinal
  <1>1. OutboxInv => SyncedMeansCompleted
    BY DEF OutboxInv
  <1>2. OutboxInv /\ [OutboxNext]_outboxVars => [SyncedIsFinal]_outboxVars
    <2> SUFFICES ASSUME OutboxInv, OutboxNext PROVE SyncedIsFinal
      OBVIOUS
    <2> USE DEF OutboxInv, SyncedIsFinal
    <2>1. ASSUME NEW c \in Callers,
                 \/ beginSync(c) \/ markSynced(c) \/ markFailed(c)
          PROVE  SyncedIsFinal
      BY <2>1 DEF beginSync, markSynced, markFailed, AttemptOpen
    <2>2. ASSUME NEW c \in Callers,
                 sendCreate(c) \/ sendBatch(c) \/ sendComplete(c)
          PROVE  SyncedIsFinal
      BY <2>2 DEF sendCreate, sendBatch, sendComplete, Request
    <2>3. CASE stopExtension
      BY <2>3 DEF stopExtension
    <2> QED
      BY <2>1, <2>2, <2>3 DEF OutboxNext
  <1> QED
    BY <1>1, <1>2, OutboxInvariant, PTL DEF OutboxSpec, SyncIsFinal

-----------------------------------------------------------------------------
(* The service loop                                                        *)

WorkerSteps ==
  {"none", "waiting", "refreshing", "claiming", "polling", "executing",
   "ended"}
WorkerStates ==
  [at : WorkerSteps, accepting : BOOLEAN, stopping : BOOLEAN,
   forced : BOOLEAN, aborted : BOOLEAN]

(* A gate that waits for an acknowledgement keeps the service from its     *)
(* registration, and so from remote admission.                             *)
GateInv ==
  /\ conn \in {"register", "beat", "admit", "session"} => gate # "pending"
  /\ conn = "start" => ~remoteReady
  /\ remoteReady => gate # "pending"

ServiceInv ==
  /\ conn \in {"start", "gate", "grace", "register", "beat", "admit",
               "session", "backoff", "stopped"}
  /\ draining \in BOOLEAN /\ remoteReady \in BOOLEAN
  /\ gate \in {"not_required", "pending", "satisfied", "failed"}
  /\ worker \in [Sessions -> WorkerStates]
  /\ GateInv

(* What an answer makes of the gate.                                       *)
LEMMA GateMoves ==
  ASSUME gate \in {"not_required", "pending", "satisfied", "failed"},
         NEW a \in Answers, NEW s
  PROVE  /\ GateAfterAnswer(a, s)
              \in {"not_required", "pending", "satisfied", "failed"}
         /\ gate # "pending" => GateAfterAnswer(a, s) # "pending"
  BY DEF GateAfterAnswer

(* What a step makes of the workers keeps their form and their places.     *)
LEMMA WorkersKept ==
  ASSUME NEW wk \in [Sessions -> WorkerStates], NEW s
  PROVE  /\ WorkersAfterRead(s, wk) \in [Sessions -> WorkerStates]
         /\ Torn(wk) \in [Sessions -> WorkerStates]
         /\ OnCurrent(wk, beginDrain) \in [Sessions -> WorkerStates]
         /\ \A x \in Sessions :
              /\ WorkersAfterRead(s, wk)[x].at = wk[x].at
              /\ Torn(wk)[x].at = wk[x].at
              /\ OnCurrent(wk, beginDrain)[x].at = wk[x].at
  <1> USE DEF WorkerStates, OnCurrent
  <1>1. /\ WorkersAfterRead(s, wk) \in [Sessions -> WorkerStates]
        /\ \A x \in Sessions : WorkersAfterRead(s, wk)[x].at = wk[x].at
    BY DEF WorkersAfterRead, pauseClaims, resumeClaims
  <1>2. Torn(wk) \in [Sessions -> WorkerStates]
    BY DEF Torn
  <1>3. \A x \in Sessions : Torn(wk)[x].at = wk[x].at
    BY DEF Torn
  <1>4. OnCurrent(wk, beginDrain) \in [Sessions -> WorkerStates]
    BY DEF beginDrain
  <1>5. \A x \in Sessions : OnCurrent(wk, beginDrain)[x].at = wk[x].at
    BY DEF beginDrain
  <1> QED
    BY <1>1, <1>2, <1>3, <1>4, <1>5

(* A worker that throws ends, and with it at most its session.             *)
LEMMA WorkerEnds ==
  ASSUME ServiceInv, NEW w \in Sessions, NEW f,
         NEW wk \in [Sessions -> WorkerStates], WorkerThrows(w, f, wk)
  PROVE  /\ worker' \in [Sessions -> WorkerStates]
         /\ conn' \in {conn, "stopped", "backoff"}
         /\ \A x \in Sessions :
              worker'[x].at = "claiming" => wk[x].at = "claiming"
  <1> DEFINE gone == [wk EXCEPT ![w].at = "ended"]
  <1>1. gone \in [Sessions -> WorkerStates]
    BY DEF WorkerStates, WorkerSteps
  <1>2. \A x \in Sessions :
          gone[x].at = "claiming" => wk[x].at = "claiming"
    BY DEF WorkerStates
  <1>3. CASE w = currentWorker
    <2>1. worker' = Torn(gone) /\ conn' = Thrown(f)
      BY <1>3 DEF WorkerThrows, SessionFails
    <2>2. \A x \in Sessions : Torn(gone)[x].at = gone[x].at
      BY <1>1, WorkersKept
    <2> QED
      BY <1>1, <1>2, <2>1, <2>2, WorkersKept DEF Thrown, Classify
  <1>4. CASE w # currentWorker
    BY <1>1, <1>2, <1>4 DEF WorkerThrows
  <1> QED
    BY <1>3, <1>4

(* One lemma per step, for the invariant and for the claims together.      *)
LEMMA ServiceStarts == ServiceInit => ServiceInv
  <1>1. NoWorker \in WorkerStates
    BY DEF NoWorker, WorkerStates, WorkerSteps
  <1> QED
    BY <1>1 DEF ServiceInit, ServiceInv, GateInv

LEMMA ConnectKeeps ==
  ASSUME ServiceInv, ConnectNext
  PROVE  ServiceInv' /\ ClaimsOnlyWhileServing
  <1> USE DEF ServiceInv, GateInv, ClaimsOnlyWhileServing
  <1>1. ASSUME NEW h \in BOOLEAN, initializeUpdateRuntime(h)
        PROVE  ServiceInv' /\ ClaimsOnlyWhileServing
    BY <1>1 DEF initializeUpdateRuntime
  <1>2. ASSUME NEW h \in BOOLEAN, Register(h)
        PROVE  ServiceInv' /\ ClaimsOnlyWhileServing
    BY <1>2 DEF Register, Thrown, Classify
  <1>3. ASSUME NEW a \in Answers, ConnectSettles(a)
        PROVE  ServiceInv' /\ ClaimsOnlyWhileServing
    <2> DEFINE g == GateAfterAnswer(a, flow[Connect])
    <2>1. /\ g \in {"not_required", "pending", "satisfied", "failed"}
          /\ gate # "pending" => g # "pending"
      BY GateMoves
    <2> HIDE DEF g
    <2>2. UNCHANGED <<draining, remoteReady, worker>> /\ conn # "start"
          /\ conn \in {"gate", "grace", "beat"}
      BY <1>3 DEF ConnectSettles
    <2>3. CASE flow[Connect] = "manual_recovery_required"
      BY <1>3, <2>2, <2>3 DEF ConnectSettles, Thrown, Classify
    <2>4. CASE flow[Connect] # "manual_recovery_required"
      <3>1. /\ gate' = IF conn = "beat" THEN g ELSE GateSettled(a, g)
            /\ conn' = IF conn # "beat" THEN AfterGateAnswer(a, g)
                       ELSE IF a \in Failures THEN Thrown(a) ELSE "admit"
        BY <1>3, <2>4 DEF ConnectSettles, g
      <3> QED
        BY <2>1, <2>2, <3>1
        DEF GateSettled, AfterGateAnswer, Thrown, Classify, Answers, Failures
    <2> QED
      BY <2>3, <2>4
  <1>4. CASE Admit
    <2> DEFINE new == [NoWorker EXCEPT !.at = "waiting",
                         !.stopping = draining,
                         !.accepting =
                           ~claimAdmissionBlocked(flow[Connect], draining)]
    <2>1. PICK w : /\ UNCHANGED worker \/ worker' = [worker EXCEPT ![w] = new]
                   /\ conn = "admit" /\ conn' \in {Thrown("busy"), "session"}
      BY <1>4 DEF Admit
    <2>2. new \in WorkerStates /\ new.at = "waiting"
      BY DEF NoWorker, WorkerStates, WorkerSteps, claimAdmissionBlocked,
         maintenanceBlocksClaims
    <2> HIDE DEF new
    <2>3. /\ worker' \in [Sessions -> WorkerStates]
          /\ \A x \in Sessions :
               worker'[x].at = "claiming" => worker[x].at = "claiming"
      BY <2>1, <2>2
    <2>4. UNCHANGED <<draining, remoteReady, gate>>
      BY <1>4 DEF Admit
    <2> QED
      BY <2>1, <2>3, <2>4 DEF Thrown, Classify
  <1>5. CASE ReconnectAfterDelay
    BY <1>5 DEF ReconnectAfterDelay
  <1> QED
    BY <1>1, <1>2, <1>3, <1>4, <1>5 DEF ConnectNext

LEMMA WatchKeeps ==
  ASSUME ServiceInv, NEW a \in Answers, watchUpdateMaintenanceLifetime(a)
  PROVE  ServiceInv' /\ ClaimsOnlyWhileServing
  <1> DEFINE wk == WorkersAfterRead(flow[Watch], worker)
  <1>1. wk \in [Sessions -> WorkerStates]
    BY WorkersKept DEF ServiceInv
  <1>2. OnCurrent(wk, beginDrain) \in [Sessions -> WorkerStates]
    BY <1>1, WorkersKept
  <1>3. \A x \in Sessions : /\ wk[x].at = worker[x].at
                            /\ OnCurrent(wk, beginDrain)[x].at = wk[x].at
    <2>1. \A x \in Sessions : wk[x].at = worker[x].at
      BY WorkersKept DEF ServiceInv
    <2> HIDE DEF wk
    <2> QED
      BY <1>1, <2>1, WorkersKept
  <1>4. worker' = wk \/ worker' = OnCurrent(wk, beginDrain)
    BY DEF watchUpdateMaintenanceLifetime
  <1>5. gate' = gate \/ gate' = GateAfterAnswer(a, flow[Watch])
    BY DEF watchUpdateMaintenanceLifetime
  <1>6. UNCHANGED <<conn, remoteReady>> /\ draining' \in BOOLEAN
    BY DEF watchUpdateMaintenanceLifetime, ServiceInv
  <1> HIDE DEF wk
  <1>7. worker' \in [Sessions -> WorkerStates]
    BY <1>1, <1>2, <1>4
  <1>8. \A x \in Sessions : worker'[x].at = worker[x].at
    BY <1>3, <1>4
  <1> QED
    BY <1>5, <1>6, <1>7, <1>8, GateMoves
    DEF ServiceInv, GateInv, ClaimsOnlyWhileServing

LEMMA BeatKeeps ==
  ASSUME ServiceInv, NEW a \in Answers, runHeartbeatLoop(a)
  PROVE  ServiceInv' /\ ClaimsOnlyWhileServing
  <1> DEFINE wk == WorkersAfterRead(flow[Beat], worker)
  <1>1. wk \in [Sessions -> WorkerStates]
    BY WorkersKept DEF ServiceInv
  <1>2. Torn(wk) \in [Sessions -> WorkerStates]
    BY <1>1, WorkersKept
  <1>3. \A x \in Sessions : /\ wk[x].at = worker[x].at
                            /\ Torn(wk)[x].at = wk[x].at
    <2>1. \A x \in Sessions : wk[x].at = worker[x].at
      BY WorkersKept DEF ServiceInv
    <2> HIDE DEF wk
    <2> QED
      BY <1>1, <2>1, WorkersKept
  <1>4. \/ worker' = wk /\ conn' = conn
        \/ worker' = Torn(wk) /\ conn' \in {"stopped", "backoff"}
    BY DEF runHeartbeatLoop, SessionFails, Thrown, Classify
  <1>5. gate' = gate \/ gate' = GateAfterAnswer(a, flow[Beat])
    BY DEF runHeartbeatLoop
  <1>6. UNCHANGED <<draining, remoteReady>>
    BY DEF runHeartbeatLoop
  <1> HIDE DEF wk
  <1>7. worker' \in [Sessions -> WorkerStates]
    BY <1>1, <1>2, <1>4
  <1>8. \A x \in Sessions : worker'[x].at = worker[x].at
    BY <1>3, <1>4
  <1> QED
    BY <1>4, <1>5, <1>6, <1>7, <1>8, GateMoves
    DEF ServiceInv, GateInv, ClaimsOnlyWhileServing

(* A worker's own step: it claims only past an admission that was open.    *)
LEMMA WorkerKeeps ==
  ASSUME ServiceInv, NEW w \in Sessions, WorkerNext(w) \/ renewUntilStopped(w)
  PROVE  ServiceInv' /\ ClaimsOnlyWhileServing
  <1> USE DEF ServiceInv, GateInv, ClaimsOnlyWhileServing
  <1>1. ASSUME \/ waitUntilAccepting(w) \/ PollEnds(w)
               \/ renewUntilStopped(w)
        PROVE  ServiceInv' /\ ClaimsOnlyWhileServing
    <2>1. UNCHANGED <<conn, draining, remoteReady, gate>>
      BY <1>1 DEF waitUntilAccepting, PollEnds, renewUntilStopped
    <2>2. PICK at \in {"ended", "refreshing", "waiting"} :
            \/ worker' = [worker EXCEPT ![w].at = at]
            \/ worker' = [worker EXCEPT ![w].aborted = TRUE]
      BY <1>1 DEF waitUntilAccepting, PollEnds, renewUntilStopped
    <2>3. /\ worker' \in [Sessions -> WorkerStates]
          /\ \A x \in Sessions :
               worker'[x].at = "claiming" => worker[x].at = "claiming"
      <3>1. CASE worker' = [worker EXCEPT ![w].at = at]
        BY <3>1 DEF WorkerStates, WorkerSteps
      <3>2. CASE worker' = [worker EXCEPT ![w].aborted = TRUE]
        BY <3>2 DEF WorkerStates, WorkerSteps
      <3> QED
        BY <2>2, <3>1, <3>2
    <2> QED
      BY <2>1, <2>3
  <1>2. ASSUME NEW a \in Answers, refreshClaimAdmission(w, a)
        PROVE  ServiceInv' /\ ClaimsOnlyWhileServing
    <2> DEFINE wk == WorkersAfterRead(flow[w], worker)
               blocked == claimAdmissionBlocked(flow[w], draining)
               bad == flow[w] = "manual_recovery_required"
    <2>1. wk \in [Sessions -> WorkerStates]
      BY WorkersKept
    <2>2. \A x \in Sessions : wk[x].at = worker[x].at
      BY WorkersKept
    <2>3. gate' = gate \/ gate' = GateAfterAnswer(a, flow[w])
      BY <1>2 DEF refreshClaimAdmission
    <2>4. UNCHANGED <<draining, remoteReady>>
      BY <1>2 DEF refreshClaimAdmission
    <2>5. CASE bad \/ a \in Failures
      <3>1. PICK f : WorkerThrows(w, f, wk)
        BY <1>2, <2>5 DEF refreshClaimAdmission
      <3> QED
        BY <2>1, <2>2, <2>3, <2>4, <3>1, WorkerEnds, GateMoves
    <2>6. CASE ~(bad \/ a \in Failures)
      <3>1. /\ UNCHANGED conn
            /\ worker' = [wk EXCEPT ![w] =
                            IF blocked
                            THEN [pauseClaims(@) EXCEPT !.at = "waiting"]
                            ELSE [@ EXCEPT !.at = "claiming"]]
        BY <1>2, <2>6 DEF refreshClaimAdmission
      <3>2. ~blocked => ~draining /\ remoteReady
        BY DEF claimAdmissionBlocked
      <3> HIDE DEF wk, blocked
      <3>3. /\ worker' \in [Sessions -> WorkerStates]
            /\ \A x \in Sessions :
                 worker'[x].at = "claiming"
                   => wk[x].at = "claiming" \/ ~blocked
        <4> DEFINE to == IF blocked
                         THEN [pauseClaims(wk[w]) EXCEPT !.at = "waiting"]
                         ELSE [wk[w] EXCEPT !.at = "claiming"]
        <4>1. to \in WorkerStates /\ (to.at = "claiming" => ~blocked)
          BY <2>1 DEF WorkerStates, WorkerSteps, pauseClaims
        <4>2. worker' = [wk EXCEPT ![w] = to]
          BY <3>1
        <4> HIDE DEF to
        <4> QED
          BY <2>1, <4>1, <4>2
      <3> QED
        BY <2>2, <2>3, <2>4, <3>1, <3>2, <3>3, GateMoves
    <2> QED
      BY <2>5, <2>6
  <1>3. ASSUME NEW got \in {"job", "no_job"} \cup Failures,
               claimWithRetry(w, got)
        PROVE  ServiceInv' /\ ClaimsOnlyWhileServing
    <2>1. UNCHANGED <<draining, remoteReady, gate>>
      BY <1>3 DEF claimWithRetry
    <2>2. CASE got \in {"job", "no_job"}
      BY <1>3, <2>2 DEF claimWithRetry, WorkerStates, WorkerSteps
    <2>3. CASE got \notin {"job", "no_job"}
      <3>1. WorkerThrows(w, got, worker)
        BY <1>3, <2>3 DEF claimWithRetry
      <3> QED
        BY <2>1, <3>1, WorkerEnds
    <2> QED
      BY <2>2, <2>3
  <1>4. ASSUME NEW end \in {"completed", "busy", "rejected"},
               executeClaimedJob(w, end)
        PROVE  ServiceInv' /\ ClaimsOnlyWhileServing
    <2>1. UNCHANGED <<draining, remoteReady, gate>>
      BY <1>4 DEF executeClaimedJob
    <2>2. CASE end = "completed"
      BY <1>4, <2>2 DEF executeClaimedJob, WorkerStates, WorkerSteps
    <2>3. CASE end # "completed"
      <3>1. WorkerThrows(w, end, worker)
        BY <1>4, <2>3 DEF executeClaimedJob
      <3> QED
        BY <2>1, <3>1, WorkerEnds
    <2> QED
      BY <2>2, <2>3
  <1> QED
    BY <1>1, <1>2, <1>3, <1>4 DEF WorkerNext

LEMMA StopKeeps ==
  ASSUME ServiceInv, BeginDrain \/ drainRunWorker \/ SessionReturns
  PROVE  ServiceInv' /\ ClaimsOnlyWhileServing
  <1> USE DEF ServiceInv, GateInv, ClaimsOnlyWhileServing
  <1>1. /\ worker' = Torn(worker) \/ worker' = OnCurrent(worker, beginDrain)
        /\ conn' \in {conn, "stopped"} /\ draining' \in BOOLEAN
        /\ UNCHANGED <<gate, remoteReady>>
    BY DEF BeginDrain, drainRunWorker, SessionReturns
  <1>2. worker' \in [Sessions -> WorkerStates]
    BY <1>1, WorkersKept
  <1>3. \A x \in Sessions : worker'[x].at = worker[x].at
    BY <1>1, WorkersKept
  <1> QED
    BY <1>1, <1>2, <1>3

LEMMA ServiceKeeps ==
  ServiceInv /\ [ServiceNext]_serviceVars
    => ServiceInv' /\ [ClaimsOnlyWhileServing]_serviceVars
  <1> SUFFICES ASSUME ServiceInv, [ServiceNext]_serviceVars
               PROVE  ServiceInv' /\ [ClaimsOnlyWhileServing]_serviceVars
    OBVIOUS
  <1>1. CASE UNCHANGED serviceVars
    BY <1>1 DEF serviceVars, ServiceInv, GateInv
  <1>2. ASSUME \/ \E f \in Flows : ReadJournal(f)
               \/ \E to \in Journal : JournalChanges(to)
               \/ UpdateWaitForDrain
        PROVE  ServiceInv' /\ ClaimsOnlyWhileServing
    BY <1>2 DEF ReadJournal, JournalChanges, UpdateWaitForDrain, ServiceInv,
       GateInv, ClaimsOnlyWhileServing
  <1>3. ASSUME WatchNext \/ BeatNext
        PROVE  ServiceInv' /\ ClaimsOnlyWhileServing
    BY <1>3, WatchKeeps, BeatKeeps DEF WatchNext, BeatNext
  <1> QED
    BY <1>1, <1>2, <1>3, ConnectKeeps, WorkerKeeps, StopKeeps DEF ServiceNext

(* For any number of sessions and of journal changes: no worker, also not  *)
(* one whose session failed, starts a claim once the service was told to   *)
(* stop, before remote admission or while the gate waits                   *)
(* (refreshClaimAdmission, claimAdmissionBlocked).                         *)
THEOREM ClaimsAreAdmitted == ServiceSpec => NoClaimAfterStop
  BY ServiceStarts, ServiceKeeps, PTL DEF ServiceSpec, NoClaimAfterStop

-----------------------------------------------------------------------------
(* Acquisition of a release                                                *)

\* The calls that hold no lock, those that work on the partial directory,
\* and those of them that have come to its end.
LockFree == {"idle", "find", "lock"}
Beginning == {"observe", "remove", "mkdir", "proof", "artifact", "state"}
Working == Beginning \cup {"request", "body", "verify", "rename", "record",
                           "check", "publish"}

CallRecords ==
  [pc : LockFree \cup {"afterLock"} \cup Working, offset : 0 .. SizeBytes,
   etag : Objects \cup {NoEtag}, serving : Objects \cup {0},
   got : 0 .. SizeBytes]

\* A directory under partial/ is a record of its fields, its bytes are of
\* one object, and of the recorded one if it has a tag.
OneObject(bytes, o) == \A i \in 1 .. Len(bytes) : bytes[i] = o

PartialRecords ==
  [dir : BOOLEAN, proof : BOOLEAN, file : BOOLEAN, state : BOOLEAN,
   named : BOOLEAN, record : BOOLEAN, bytes : Seq(Objects),
   etag : Objects \cup {NoEtag}, ranges : BOOLEAN, counted : 0 .. SizeBytes]

PartialFits(d) ==
  /\ d \in PartialRecords /\ Len(d.bytes) <= SizeBytes
  /\ \E o \in Objects : OneObject(d.bytes, o)
  /\ d.etag # NoEtag => OneObject(d.bytes, d.etag)

\* What a call has made of the partial directory d, or counts on in it.
CallFits(c, d) ==
  /\ c.pc \in LockFree \cup {"afterLock"} \cup Beginning =>
       c.offset = 0 /\ c.etag = NoEtag /\ c.got = 0
  /\ c.pc = "mkdir" => ~d.dir
  /\ c.pc \in {"mkdir", "proof", "artifact", "state"} => d.bytes = <<>>
  /\ c.pc \in {"artifact", "state"} \cup (Working \ Beginning) => d.proof
  /\ c.pc = "request" =>
       /\ c.got = 0 /\ c.offset = Len(d.bytes)
       /\ IF c.etag = NoEtag THEN d.bytes = <<>> ELSE d.etag = c.etag
  /\ c.pc = "body" =>
       /\ c.serving \in Objects /\ c.got = Len(d.bytes)
       /\ OneObject(d.bytes, c.serving)
       /\ d.etag # NoEtag => c.serving = d.etag
  /\ c.pc \in {"rename", "record", "check", "publish"} => d.bytes = Signed
  /\ c.pc \in {"record", "check", "publish"} => d.named
  /\ c.pc \in {"check", "publish"} => d.record

\* What is published is whole, and nobody works on a published release.
VerifiedFits ==
  verified.dir => /\ CachedReleaseIsWhole
                  /\ \A p \in Processes : proc[p].pc \notin Working

AcquisitionInv ==
  /\ remote \in Objects
  /\ lock \in {"free", "stale"} \cup Processes
  /\ proc \in [Processes -> CallRecords]
  /\ \A p \in Processes : proc[p].pc \notin LockFree => lock = p
  /\ \A p \in Processes : CallFits(proc[p], partial)
  /\ PartialFits(partial)
  /\ VerifiedFits
  /\ LeftoverNeverBlocks
  /\ ChecksumFailureIsNotSticky

LEMMA AcquisitionStarts == AcquisitionInit => AcquisitionInv
  <1> SUFFICES ASSUME AcquisitionInit PROVE AcquisitionInv
    OBVIOUS
  <1>1. NoCall \in CallRecords /\ NoCall.pc = "idle"
    BY AcquisitionAssumption
    DEF NoCall, CallRecords, LockFree, Working, Beginning, NoEtag
  <1>2. PartialFits(NoPartial)
    BY AcquisitionAssumption DEF PartialFits, PartialRecords, NoPartial, OneObject, NoEtag
  <1>3. CallFits(NoCall, NoPartial)
    BY DEF CallFits, NoCall, LockFree, Working, Beginning
  <1> QED
    BY <1>1, <1>2, <1>3, AcquisitionAssumption
    DEF AcquisitionInit, AcquisitionInv, VerifiedFits, NoVerified, LockFree,
        LeftoverNeverBlocks, ChecksumFailureIsNotSticky

(* A call without the lock relies on nothing in the partial directory.     *)
LEMMA WaitsForLock ==
  ASSUME NEW c, NEW d, NEW e, CallFits(c, d), c.pc \in LockFree
  PROVE  CallFits(c, e)
  BY DEF CallFits, LockFree, Working, Beginning

(* The step of the call that has the lock: what it must see to.            *)
LEMMA HolderKeeps ==
  ASSUME AcquisitionInv, NEW p \in Processes, proc[p].pc \notin LockFree,
         NEW c \in CallRecords, NEW d, PartialFits(d), CallFits(c, d),
         proc' = [proc EXCEPT ![p] = c], partial' = d, remote' = remote,
         \/ c.pc \notin LockFree /\ lock' = lock
         \/ c.pc \in LockFree /\ lock' \in {"free", "stale"},
         verified'.dir => CachedReleaseIsWhole' /\ c.pc \notin Working,
         outcome' \notin {"leftover", "invalid"},
         outcome' = "checksum" => ~d.dir
  PROVE  AcquisitionInv'
  <1>1. \A q \in Processes : q # p => proc[q].pc \in LockFree
    BY DEF AcquisitionInv
  <1>2. /\ proc' \in [Processes -> CallRecords] /\ proc'[p] = c
        /\ \A q \in Processes : q # p => proc'[q] = proc[q]
    BY DEF AcquisitionInv
  <1>3. \A q \in Processes : CallFits(proc'[q], d)
    BY <1>1, <1>2, WaitsForLock DEF AcquisitionInv
  <1>4. VerifiedFits'
    BY <1>1, <1>2 DEF VerifiedFits, LockFree, Working, Beginning
  <1>5. lock' \in {"free", "stale"} \cup Processes
    BY DEF AcquisitionInv
  <1>6. \A q \in Processes : proc'[q].pc \notin LockFree => lock' = q
    BY <1>1, <1>2 DEF AcquisitionInv
  <1> QED
    BY <1>2, <1>3, <1>4, <1>5, <1>6
    DEF AcquisitionInv, LeftoverNeverBlocks, ChecksumFailureIsNotSticky

(* How a call goes on, and how it ends.                                    *)
LEMMA GoesOn ==
  ASSUME AcquisitionInv, NEW p \in Processes, NEW pc, CallGoto(p, pc)
  PROVE  /\ proc' = [proc EXCEPT ![p] =
              [pc |-> pc, offset |-> proc[p].offset, etag |-> proc[p].etag,
               serving |-> proc[p].serving, got |-> proc[p].got]]
         /\ proc[p] \in CallRecords
  <1>1. proc[p] \in CallRecords
    BY DEF AcquisitionInv
  <1>2. [proc[p] EXCEPT !.pc = pc] =
          [pc |-> pc, offset |-> proc[p].offset, etag |-> proc[p].etag,
           serving |-> proc[p].serving, got |-> proc[p].got]
    BY <1>1 DEF CallRecords
  <1>3. proc' = [proc EXCEPT ![p] = [proc[p] EXCEPT !.pc = pc]]
    BY DEF CallGoto
  <1> QED
    BY <1>1, <1>2, <1>3

LEMMA Ends ==
  ASSUME AcquisitionInv, NEW p \in Processes, NEW how, End(p, how),
         proc[p].pc \notin LockFree
  PROVE  /\ proc' = [proc EXCEPT ![p] = NoCall] /\ outcome' = how
         /\ lock' = "free" /\ NoCall \in CallRecords /\ NoCall.pc \in LockFree
         /\ \A d : CallFits(NoCall, d)
  BY AcquisitionAssumption
  DEF End, AcquisitionInv, NoCall, CallRecords, CallFits, LockFree, Working,
      Beginning, NoEtag

LEMMA NoPartialFits == PartialFits(NoPartial)
  BY AcquisitionAssumption DEF PartialFits, PartialRecords, NoPartial, OneObject, NoEtag

LEMMA FindTells ==
  ASSUME AcquisitionInv
  PROVE  IF verified.dir THEN findVerified = "found"
                         ELSE findVerified = "missing"
  BY DEF AcquisitionInv, VerifiedFits, CachedReleaseIsWhole, findVerified,
         verifyReleaseFiles, DigestMatches

(* Before the lock, and the lock itself.                                   *)
LEMMA WithoutLockKeeps ==
  ASSUME AcquisitionInv, NEW p \in Processes,
         \/ \E m \in Metadata : FetchMetadata(p, m)
         \/ Find(p) \/ AcquireLock(p)
  PROVE  AcquisitionInv'
  <1>1. proc[p].pc \in LockFree /\ UNCHANGED <<remote, partial, verified>>
    BY DEF FetchMetadata, Find, AcquireLock, CallAt, LockFree
  <1>2. proc[p] \in CallRecords /\ CallFits(proc[p], partial)
    BY DEF AcquisitionInv
  <1> DEFINE Onward(c) ==
        /\ proc' = [proc EXCEPT ![p] = c] /\ c \in CallRecords
        /\ CallFits(c, partial)
        /\ \/ c.pc \in LockFree /\ lock' \in {lock, "free"}
                /\ (lock' = lock \/ lock = p)
           \/ lock = "free" /\ lock' = p /\ c.pc = "afterLock"
        /\ outcome' \in {"none", "refused", "found", "conflict"}
  <1>3. NoCall \in CallRecords /\ CallFits(NoCall, partial)
        /\ NoCall.pc \in LockFree
    BY AcquisitionAssumption
    DEF NoCall, CallRecords, CallFits, LockFree, Working, Beginning, NoEtag
  <1>4. ASSUME NEW how \in {"refused", "found", "conflict"}, End(p, how)
        PROVE  Onward(NoCall)
    BY <1>3, <1>4 DEF End
  <1>5. ASSUME NEW pc \in LockFree \cup {"afterLock"}, CallGoto(p, pc),
               \/ pc \in LockFree /\ lock' = lock
               \/ lock = "free" /\ lock' = p /\ pc = "afterLock",
               outcome' = "none"
        PROVE  \E c : Onward(c)
    <2> DEFINE c == [pc |-> pc, offset |-> proc[p].offset,
                     etag |-> proc[p].etag, serving |-> proc[p].serving,
                     got |-> proc[p].got]
    <2>1. proc' = [proc EXCEPT ![p] = c]
      BY <1>5, GoesOn
    <2>2. c \in CallRecords
      BY <1>2 DEF CallRecords
    <2>3. CallFits(c, partial)
      BY <1>1, <1>2 DEF CallFits, LockFree, Working, Beginning
    <2> QED
      BY <1>5, <2>1, <2>2, <2>3
  <1>6. \E c : Onward(c)
    <2>1. CASE \E m \in Metadata : FetchMetadata(p, m)
      BY <2>1, <1>4, <1>5 DEF FetchMetadata, LockFree
    <2>2. CASE Find(p)
      BY <2>2, <1>4, <1>5, FindTells DEF Find, LockFree
    <2>3. CASE AcquireLock(p)
      BY <2>3, <1>4, <1>5 DEF AcquireLock, LockFree
    <2> QED
      BY <2>1, <2>2, <2>3
  <1>7. PICK c : Onward(c)
    BY <1>6
  <1>8. /\ proc' \in [Processes -> CallRecords] /\ proc'[p] = c
        /\ \A q \in Processes : q # p => proc'[q] = proc[q]
    BY <1>7 DEF AcquisitionInv
  <1>9. \A q \in Processes : CallFits(proc'[q], partial)
    BY <1>7, <1>8 DEF AcquisitionInv
  <1>10. \A q \in Processes : proc'[q].pc \notin LockFree => lock' = q
    BY <1>1, <1>7, <1>8, AcquisitionAssumption DEF AcquisitionInv
  <1>11. VerifiedFits'
    BY <1>1, <1>7, <1>8
    DEF AcquisitionInv, VerifiedFits, CachedReleaseIsWhole, LockFree, Working,
        Beginning, Signed
  <1>12. lock' \in {"free", "stale"} \cup Processes
    BY <1>7 DEF AcquisitionInv
  <1> QED
    BY <1>1, <1>7, <1>8, <1>9, <1>10, <1>11, <1>12
    DEF AcquisitionInv, LeftoverNeverBlocks, ChecksumFailureIsNotSticky

(* A call that goes on, or ends, with the partial directory as d.          *)
LEMMA GoesOnKeeps ==
  ASSUME AcquisitionInv, NEW p \in Processes, proc[p].pc \notin LockFree,
         NEW pc \in Working, CallGoto(p, pc), NEW d, PartialFits(d),
         partial' = d, UNCHANGED <<remote, lock, verified>>,
         outcome' = "none", ~verified.dir,
         CallFits([pc |-> pc, offset |-> proc[p].offset, etag |-> proc[p].etag,
                   serving |-> proc[p].serving, got |-> proc[p].got], d)
  PROVE  AcquisitionInv'
  <1> DEFINE c == [pc |-> pc, offset |-> proc[p].offset, etag |-> proc[p].etag,
                   serving |-> proc[p].serving, got |-> proc[p].got]
  <1>1. c \in CallRecords
    BY DEF AcquisitionInv, CallRecords
  <1>2. proc' = [proc EXCEPT ![p] = c]
    BY GoesOn
  <1>3. c.pc \notin LockFree
    BY DEF LockFree, Working, Beginning
  <1> QED
    BY <1>1, <1>2, <1>3, HolderKeeps

LEMMA EndsKeeps ==
  ASSUME AcquisitionInv, NEW p \in Processes, proc[p].pc \notin LockFree,
         NEW how, how \notin {"leftover", "invalid"}, End(p, how), NEW d,
         PartialFits(d), partial' = d, remote' = remote,
         verified'.dir => CachedReleaseIsWhole',
         how = "checksum" => ~d.dir
  PROVE  AcquisitionInv'
  <1>1. NoCall.pc \notin Working
    BY DEF NoCall, Working, Beginning
  <1> QED
    BY <1>1, Ends, HolderKeeps

(* What a call under the lock knows.                                       *)
LEMMA Holder ==
  ASSUME AcquisitionInv, NEW p \in Processes, proc[p].pc \notin LockFree
  PROVE  /\ proc[p] \in CallRecords /\ CallFits(proc[p], partial)
         /\ PartialFits(partial) /\ lock = p
         /\ proc[p].pc # "afterLock" => proc[p].pc \in Working /\ ~verified.dir
  BY DEF AcquisitionInv, VerifiedFits, CallRecords

LEMMA FindAfterLockKeeps ==
  ASSUME AcquisitionInv, NEW p \in Processes, FindAfterLock(p)
  PROVE  AcquisitionInv'
  <1>1. /\ proc[p].pc = "afterLock" /\ proc[p].pc \notin LockFree
        /\ UNCHANGED <<remote, partial, verified>>
    BY DEF FindAfterLock, CallAt, LockFree
  <1>2. CASE verified.dir
    <2>1. End(p, "found")
      BY <1>2, FindTells DEF FindAfterLock
    <2>2. verified'.dir => CachedReleaseIsWhole'
      BY <1>1 DEF AcquisitionInv, VerifiedFits, CachedReleaseIsWhole, Signed
    <2>3. PartialFits(partial)
      BY <1>1, Holder
    <2> QED
      BY <1>1, <2>1, <2>2, <2>3, EndsKeeps
  <1>3. CASE ~verified.dir
    <2>1. CallGoto(p, "observe") /\ UNCHANGED lock /\ outcome' = "none"
      BY <1>3, FindTells DEF FindAfterLock
    <2>2. CallFits([pc |-> "observe", offset |-> proc[p].offset,
                    etag |-> proc[p].etag, serving |-> proc[p].serving,
                    got |-> proc[p].got], partial)
      BY <1>1, Holder DEF CallFits, LockFree, Working, Beginning
    <2>3. "observe" \in Working
      BY DEF Working, Beginning
    <2> QED
      BY <1>1, <1>3, <2>1, <2>2, <2>3, Holder, GoesOnKeeps
  <1> QED
    BY <1>2, <1>3

LEMMA ObserveKeeps ==
  ASSUME AcquisitionInv, NEW p \in Processes, Observe(p)
  PROVE  AcquisitionInv'
  <1>1. /\ proc[p].pc = "observe" /\ proc[p].pc \notin LockFree
        /\ UNCHANGED <<remote, lock, verified>> /\ outcome' = "none"
    BY DEF Observe, CallAt, LockFree
  <1>2. /\ proc[p] \in CallRecords /\ CallFits(proc[p], partial)
        /\ PartialFits(partial) /\ ~verified.dir
    BY <1>1, Holder
  <1>3. proc[p].offset = 0 /\ proc[p].etag = NoEtag /\ proc[p].got = 0
    BY <1>1, <1>2 DEF CallFits, Beginning
  <1>4. CASE CallGoto(p, "remove") /\ partial' = partial
    <2>1. CallFits([pc |-> "remove", offset |-> proc[p].offset,
                    etag |-> proc[p].etag, serving |-> proc[p].serving,
                    got |-> proc[p].got], partial)
      BY <1>3 DEF CallFits, LockFree, Working, Beginning
    <2>2. "remove" \in Working
      BY DEF Working, Beginning
    <2> QED
      BY <1>1, <1>2, <1>4, <2>1, <2>2, GoesOnKeeps
  <1> DEFINE d == [partial EXCEPT !.proof = TRUE]
  <1>5. /\ PartialFits(d) /\ d.proof /\ d.bytes = partial.bytes
        /\ d.etag = partial.etag
    <2>1. d \in PartialRecords /\ d.proof /\ d.bytes = partial.bytes
          /\ d.etag = partial.etag
      BY <1>2 DEF PartialFits, PartialRecords
    <2> HIDE DEF d
    <2> QED
      BY <1>2, <2>1 DEF PartialFits
  <1>6. CASE CallGoto(p, "verify") /\ partial' = d
    <2>1. CallFits([pc |-> "verify", offset |-> proc[p].offset,
                    etag |-> proc[p].etag, serving |-> proc[p].serving,
                    got |-> proc[p].got], d)
      BY <1>5 DEF CallFits, LockFree, Working, Beginning
    <2>2. "verify" \in Working
      BY DEF Working, Beginning
    <2> QED
      BY <1>1, <1>2, <1>5, <1>6, <2>1, <2>2, GoesOnKeeps
  <1>7. CASE /\ decidePartialDownload = "resume" /\ partial' = d
             /\ proc' = [proc EXCEPT ![p] =
                  [NoCall EXCEPT !.pc = "request", !.etag = partial.etag,
                                 !.offset = Len(partial.bytes)]]
    <2> DEFINE c == [NoCall EXCEPT !.pc = "request", !.etag = partial.etag,
                                   !.offset = Len(partial.bytes)]
    <2>1. proc' = [proc EXCEPT ![p] = c]
      BY <1>7
    <2>2. /\ c \in CallRecords
          /\ c.pc = "request" /\ c.offset = Len(partial.bytes)
          /\ c.etag = partial.etag /\ c.got = 0
      <3>1. NoCall \in CallRecords /\ NoCall.got = 0
        BY AcquisitionAssumption
        DEF NoCall, CallRecords, LockFree, Working, Beginning, NoEtag
      <3>2. /\ Len(partial.bytes) \in 0 .. SizeBytes
            /\ partial.etag \in Objects \cup {NoEtag}
        BY <1>2, AcquisitionAssumption DEF PartialFits, PartialRecords
      <3> QED
        BY <3>1, <3>2 DEF CallRecords, Working
    <2> HIDE DEF c
    <2>3. partial.etag # NoEtag
      BY <1>7 DEF decidePartialDownload
    <2>4. CallFits(c, d)
      BY <1>5, <2>2, <2>3 DEF CallFits, LockFree, Working, Beginning
    <2>5. c.pc \notin LockFree
      BY <2>2 DEF LockFree
    <2> QED
      BY <1>1, <1>2, <1>5, <1>7, <2>1, <2>2, <2>4, <2>5, HolderKeeps
  <1> QED
    BY <1>4, <1>6, <1>7 DEF Observe, Decide

LEMMA RemoveKeeps ==
  ASSUME AcquisitionInv, NEW p \in Processes, RemovePartial(p)
  PROVE  AcquisitionInv'
  <1>1. /\ proc[p].pc = "remove" /\ proc[p].pc \notin LockFree
        /\ partial' = NoPartial /\ CallGoto(p, "mkdir")
        /\ UNCHANGED <<remote, lock, verified>> /\ outcome' = "none"
    BY DEF RemovePartial, CallAt, LockFree
  <1>2. CallFits([pc |-> "mkdir", offset |-> proc[p].offset,
                  etag |-> proc[p].etag, serving |-> proc[p].serving,
                  got |-> proc[p].got], NoPartial)
    BY <1>1, Holder DEF CallFits, LockFree, Working, Beginning, NoPartial
  <1>3. "mkdir" \in Working
    BY DEF Working, Beginning
  <1> QED
    BY <1>1, <1>2, <1>3, Holder, NoPartialFits, GoesOnKeeps

LEMMA InitializeKeeps ==
  ASSUME AcquisitionInv, NEW p \in Processes, Initialize(p)
  PROVE  AcquisitionInv'
  <1>1. /\ proc[p].pc \in {"mkdir", "proof", "artifact", "state"}
        /\ proc[p].pc \notin LockFree
        /\ UNCHANGED <<remote, verified>>
    BY DEF Initialize, CallAt, LockFree
  <1>2. /\ proc[p] \in CallRecords /\ CallFits(proc[p], partial)
        /\ PartialFits(partial) /\ ~verified.dir
    BY <1>1, Holder
  <1>3. /\ proc[p].offset = 0 /\ proc[p].etag = NoEtag /\ proc[p].got = 0
        /\ partial.bytes = <<>>
        /\ proc[p].pc = "mkdir" => ~partial.dir
        /\ proc[p].pc \in {"artifact", "state"} => partial.proof
    BY <1>1, <1>2 DEF CallFits, Beginning
  <1>4. PICK pc \in {"proof", "artifact", "state", "request"} :
          /\ CallGoto(p, pc)
          /\ UNCHANGED lock /\ outcome' = "none"
          /\ partial' \in PartialRecords
          /\ partial'.bytes = partial.bytes /\ partial'.etag = partial.etag
          /\ pc \in {"artifact", "state", "request"} => partial'.proof
    <2>1. partial \in PartialRecords
      BY <1>2 DEF PartialFits
    <2>2. CASE CallAt(p, "mkdir")
      BY <2>1, <2>2, <1>3 DEF Initialize, CallAt, PartialRecords
    <2>3. CASE CallAt(p, "proof")
      BY <2>1, <2>3 DEF Initialize, CallAt, PartialRecords
    <2>4. CASE CallAt(p, "artifact")
      BY <2>1, <2>4, <1>3 DEF Initialize, CallAt, PartialRecords
    <2>5. CASE CallAt(p, "state")
      BY <2>1, <2>5, <1>3 DEF Initialize, CallAt, PartialRecords
    <2> QED
      BY <2>2, <2>3, <2>4, <2>5 DEF Initialize
  <1>5. PartialFits(partial')
    BY <1>2, <1>4 DEF PartialFits
  <1>6. CallFits([pc |-> pc, offset |-> proc[p].offset,
                  etag |-> proc[p].etag, serving |-> proc[p].serving,
                  got |-> proc[p].got], partial')
    BY <1>3, <1>4 DEF CallFits, LockFree, Working, Beginning
  <1>7. pc \in Working
    BY DEF Working, Beginning
  <1> QED
    BY <1>1, <1>2, <1>4, <1>5, <1>6, <1>7, GoesOnKeeps

(* The three answers to a request.                                         *)
LEMMA FullResponseKeeps ==
  ASSUME AcquisitionInv, NEW p \in Processes, NEW tagged \in BOOLEAN,
         NEW ranges \in BOOLEAN, FullResponse(p, tagged, ranges)
  PROVE  AcquisitionInv'
  <1>1. /\ proc[p].pc = "request" /\ proc[p].pc \notin LockFree
        /\ proc[p].etag = NoEtag
        /\ UNCHANGED <<remote, lock, verified>> /\ outcome' = "none"
    BY DEF FullResponse, CallAt, LockFree
  <1>2. /\ proc[p] \in CallRecords /\ CallFits(proc[p], partial)
        /\ PartialFits(partial) /\ ~verified.dir /\ remote \in Objects
    BY <1>1, Holder DEF AcquisitionInv
  <1> DEFINE c == [proc[p] EXCEPT !.pc = "body", !.serving = remote]
             d == [partial EXCEPT !.etag = IF tagged THEN remote ELSE NoEtag,
                                  !.ranges = ranges, !.bytes = <<>>]
  <1>3. proc' = [proc EXCEPT ![p] = c] /\ partial' = d
    BY DEF FullResponse
  <1>4. /\ d \in PartialRecords /\ d.bytes = <<>> /\ d.proof = partial.proof
        /\ d.etag \in {remote, NoEtag}
    <2>1. <<>> \in Seq(Objects) /\ partial \in PartialRecords
      BY <1>2 DEF PartialFits
    <2>2. (IF tagged THEN remote ELSE NoEtag) \in {remote, NoEtag}
      OBVIOUS
    <2> QED
      BY <1>2, <2>1, <2>2 DEF PartialRecords
  <1>5. /\ c \in CallRecords /\ c.pc = "body" /\ c.serving = remote
        /\ c.got = proc[p].got
    BY <1>2 DEF CallRecords, Working
  <1> HIDE DEF c, d
  <1>6. PartialFits(d)
    BY <1>2, <1>4, AcquisitionAssumption DEF PartialFits, OneObject
  <1>7. CallFits(c, d)
    BY <1>1, <1>2, <1>4, <1>5
    DEF CallFits, OneObject, LockFree, Working, Beginning
  <1>8. c.pc \notin LockFree
    BY <1>5 DEF LockFree
  <1> QED
    BY <1>1, <1>2, <1>3, <1>5, <1>6, <1>7, <1>8, HolderKeeps

LEMMA ResumeResponseKeeps ==
  ASSUME AcquisitionInv, NEW p \in Processes, ResumeResponse(p)
  PROVE  AcquisitionInv'
  <1>1. /\ proc[p].pc = "request" /\ proc[p].pc \notin LockFree
        /\ proc[p].etag # NoEtag /\ remote = proc[p].etag
        /\ UNCHANGED <<remote, lock, partial, verified>> /\ outcome' = "none"
    BY DEF ResumeResponse, CallAt, LockFree
  <1>2. /\ proc[p] \in CallRecords /\ CallFits(proc[p], partial)
        /\ PartialFits(partial) /\ ~verified.dir /\ remote \in Objects
    BY <1>1, Holder DEF AcquisitionInv
  <1> DEFINE c == [proc[p] EXCEPT !.pc = "body", !.serving = remote,
                                  !.got = proc[p].offset]
  <1>3. proc' = [proc EXCEPT ![p] = c]
    BY DEF ResumeResponse
  <1>4. /\ c \in CallRecords /\ c.pc = "body" /\ c.serving = remote
        /\ c.got = proc[p].offset
    BY <1>2 DEF CallRecords, Working
  <1> HIDE DEF c
  <1>5. CallFits(c, partial)
    BY <1>1, <1>2, <1>4
    DEF CallFits, PartialFits, OneObject, LockFree, Working, Beginning
  <1>6. c.pc \notin LockFree
    BY <1>4 DEF LockFree
  <1> QED
    BY <1>1, <1>2, <1>3, <1>4, <1>5, <1>6, HolderKeeps

LEMMA ResumeRefusedKeeps ==
  ASSUME AcquisitionInv, NEW p \in Processes, ResumeRefused(p)
  PROVE  AcquisitionInv'
  <1>1. /\ proc[p].pc = "request" /\ proc[p].pc \notin LockFree
        /\ UNCHANGED <<remote, lock, partial, verified>> /\ outcome' = "none"
    BY DEF ResumeRefused, CallAt, LockFree
  <1>2. PartialFits(partial) /\ ~verified.dir
    BY <1>1, Holder
  <1> DEFINE c == [NoCall EXCEPT !.pc = "remove"]
  <1>3. proc' = [proc EXCEPT ![p] = c]
    BY DEF ResumeRefused
  <1>4. /\ c \in CallRecords /\ c.pc = "remove" /\ c.offset = 0
        /\ c.etag = NoEtag /\ c.got = 0
    BY AcquisitionAssumption
    DEF NoCall, CallRecords, Working, Beginning, NoEtag
  <1> HIDE DEF c
  <1>5. CallFits(c, partial) /\ c.pc \notin LockFree
    BY <1>4 DEF CallFits, LockFree, Working, Beginning
  <1> QED
    BY <1>1, <1>2, <1>3, <1>4, <1>5, HolderKeeps

(* A chunk written behind the bytes that are counted.                      *)
LEMMA ChunkWritten ==
  ASSUME AcquisitionInv, NEW p \in Processes, proc[p].pc = "body",
         proc[p].got < SizeBytes, NEW bytes,
         bytes = Append(SubSeq(partial.bytes, 1, proc[p].got), proc[p].serving)
  PROVE  /\ bytes \in Seq(Objects) /\ Len(bytes) = proc[p].got + 1
         /\ OneObject(bytes, proc[p].serving) /\ proc[p].serving \in Objects
         /\ partial.etag # NoEtag => proc[p].serving = partial.etag
  <1>1. /\ proc[p] \in CallRecords /\ CallFits(proc[p], partial)
        /\ PartialFits(partial)
    BY Holder DEF LockFree
  <1>2. /\ partial.bytes \in Seq(Objects) /\ proc[p].serving \in Objects
        /\ proc[p].got = Len(partial.bytes)
        /\ OneObject(partial.bytes, proc[p].serving)
        /\ partial.etag # NoEtag => proc[p].serving = partial.etag
    BY <1>1 DEF CallFits, PartialFits, PartialRecords
  <1>3. SubSeq(partial.bytes, 1, Len(partial.bytes)) = partial.bytes
    BY <1>2
  <1> QED
    BY <1>2, <1>3 DEF OneObject

LEMMA ChunkKeeps ==
  ASSUME AcquisitionInv, NEW p \in Processes, Chunk(p)
  PROVE  AcquisitionInv'
  <1>1. /\ proc[p].pc = "body" /\ proc[p].pc \notin LockFree
        /\ proc[p].got < SizeBytes
        /\ UNCHANGED <<remote, lock, verified>> /\ outcome' = "none"
    BY DEF Chunk, CallAt, LockFree
  <1>2. /\ proc[p] \in CallRecords /\ CallFits(proc[p], partial)
        /\ PartialFits(partial) /\ ~verified.dir
    BY <1>1, Holder
  <1> DEFINE bytes == Append(SubSeq(partial.bytes, 1, proc[p].got),
                             proc[p].serving)
             d == [partial EXCEPT !.bytes = bytes]
             c == [proc[p] EXCEPT !.got = proc[p].got + 1]
  <1>3. partial' = d /\ proc' = [proc EXCEPT ![p] = c]
    BY DEF Chunk
  <1>4. /\ bytes \in Seq(Objects) /\ Len(bytes) = proc[p].got + 1
        /\ OneObject(bytes, proc[p].serving) /\ proc[p].serving \in Objects
        /\ partial.etag # NoEtag => proc[p].serving = partial.etag
    BY <1>1, ChunkWritten
  <1> HIDE DEF bytes
  <1>5. /\ d \in PartialRecords /\ d.bytes = bytes /\ d.etag = partial.etag
        /\ d.proof = partial.proof
    BY <1>2, <1>4 DEF PartialFits, PartialRecords
  <1>6. proc[p].got \in Nat
    BY <1>2, AcquisitionAssumption DEF CallRecords
  <1>7. /\ c \in CallRecords /\ c.pc = "body" /\ c.got = proc[p].got + 1
        /\ c.serving = proc[p].serving
    <2>1. proc[p].got + 1 \in 0 .. SizeBytes
      BY <1>1, <1>6, AcquisitionAssumption
    <2> QED
      BY <1>1, <1>2, <2>1 DEF CallRecords
  <1> HIDE DEF c, d
  <1>8. PartialFits(d)
    <2>1. Len(d.bytes) <= SizeBytes
      BY <1>1, <1>4, <1>5, <1>6, AcquisitionAssumption
    <2>2. \E o \in Objects : OneObject(d.bytes, o)
      BY <1>4, <1>5
    <2>3. d.etag # NoEtag => OneObject(d.bytes, d.etag)
      BY <1>4, <1>5
    <2> QED
      BY <1>5, <2>1, <2>2, <2>3 DEF PartialFits
  <1>9. CallFits(c, d)
    BY <1>1, <1>2, <1>4, <1>5, <1>7
    DEF CallFits, LockFree, Working, Beginning
  <1>10. c.pc \notin LockFree
    BY <1>7 DEF LockFree
  <1> QED
    BY <1>1, <1>2, <1>3, <1>7, <1>8, <1>9, <1>10, HolderKeeps

LEMMA RequestFailsKeeps ==
  ASSUME AcquisitionInv, NEW p \in Processes, NEW partway \in BOOLEAN,
         NEW saved \in BOOLEAN, RequestFails(p, partway, saved)
  PROVE  AcquisitionInv'
  <1> DEFINE got == IF CallAt(p, "request") THEN proc[p].offset
                                            ELSE proc[p].got
             d == [partial EXCEPT
                    !.counted = IF saved THEN got ELSE @,
                    !.bytes = IF partway
                              THEN Append(SubSeq(@, 1, got), proc[p].serving)
                              ELSE @]
  <1>1. /\ proc[p].pc \in {"request", "body"} /\ proc[p].pc \notin LockFree
        /\ partway => proc[p].pc = "body" /\ proc[p].got < SizeBytes
        /\ partial' = d /\ End(p, "failed") /\ UNCHANGED <<remote, verified>>
    BY DEF RequestFails, CallAt, LockFree
  <1>2. /\ proc[p] \in CallRecords /\ CallFits(proc[p], partial)
        /\ PartialFits(partial) /\ ~verified.dir
    BY <1>1, Holder
  <1>3. PartialFits(d)
    <2> DEFINE bytes == IF partway
                        THEN Append(SubSeq(partial.bytes, 1, got),
                                    proc[p].serving)
                        ELSE partial.bytes
               counted == IF saved THEN got ELSE partial.counted
    <2>1. CASE partway
      <3>1. got = proc[p].got /\ proc[p].got \in Nat
        BY <1>1, <1>2, <2>1, AcquisitionAssumption DEF CallAt, CallRecords
      <3>2. /\ bytes \in Seq(Objects) /\ Len(bytes) = proc[p].got + 1
            /\ OneObject(bytes, proc[p].serving) /\ proc[p].serving \in Objects
            /\ partial.etag # NoEtag => proc[p].serving = partial.etag
        BY <1>1, <2>1, <3>1, ChunkWritten
      <3>3. Len(bytes) <= SizeBytes
        BY <1>1, <2>1, <3>1, <3>2, AcquisitionAssumption
      <3>4. counted \in 0 .. SizeBytes
        BY <1>2, <3>1 DEF CallRecords, PartialFits, PartialRecords
      <3> HIDE DEF bytes, counted
      <3>5. d = [partial EXCEPT !.counted = counted, !.bytes = bytes]
        BY DEF bytes, counted
      <3>6. d \in PartialRecords /\ d.bytes = bytes /\ d.etag = partial.etag
        BY <1>2, <3>2, <3>4, <3>5 DEF PartialFits, PartialRecords
      <3> HIDE DEF d
      <3> QED
        BY <3>2, <3>3, <3>6 DEF PartialFits
    <2>2. CASE ~partway
      <3>1. counted \in 0 .. SizeBytes
        BY <1>2 DEF CallRecords, PartialFits, PartialRecords
      <3> HIDE DEF counted
      <3>2. d = [partial EXCEPT !.counted = counted, !.bytes = partial.bytes]
        BY <2>2 DEF counted
      <3>3. /\ d \in PartialRecords /\ d.bytes = partial.bytes
            /\ d.etag = partial.etag
        BY <1>2, <3>1, <3>2 DEF PartialFits, PartialRecords
      <3> HIDE DEF d
      <3> QED
        BY <1>2, <3>3 DEF PartialFits
    <2> QED
      BY <2>1, <2>2
  <1> HIDE DEF d
  <1> QED
    BY <1>1, <1>2, <1>3, EndsKeeps

\* A call with a complete, verified artifact goes on to pc.
LEMMA PromotionGoesOn ==
  ASSUME AcquisitionInv, NEW p \in Processes, proc[p].pc \notin LockFree,
         proc[p].pc # "afterLock",
         NEW pc \in {"verify", "rename", "record", "check", "publish"},
         CallGoto(p, pc), UNCHANGED <<remote, lock, verified>>,
         outcome' = "none", PartialFits(partial'), partial'.proof,
         pc # "verify" => partial'.bytes = Signed,
         pc \in {"record", "check", "publish"} => partial'.named,
         pc \in {"check", "publish"} => partial'.record
  PROVE  AcquisitionInv'
  <1>1. pc \in Working /\ ~verified.dir
    BY Holder DEF Working
  <1>2. CallFits([pc |-> pc, offset |-> proc[p].offset,
                  etag |-> proc[p].etag, serving |-> proc[p].serving,
                  got |-> proc[p].got], partial')
    BY DEF CallFits, LockFree, Working, Beginning
  <1> QED
    BY <1>1, <1>2, GoesOnKeeps

\* A call that ends and removes the partial directory.
LEMMA RemovalEnds ==
  ASSUME AcquisitionInv, NEW p \in Processes, proc[p].pc \notin LockFree,
         proc[p].pc # "afterLock", partial' = NoPartial,
         End(p, "checksum"), UNCHANGED <<remote, verified>>
  PROVE  AcquisitionInv'
  <1>1. ~verified.dir /\ ~NoPartial.dir
    BY Holder DEF NoPartial
  <1> QED
    BY <1>1, NoPartialFits, EndsKeeps

LEMMA BodyEndsKeeps ==
  ASSUME AcquisitionInv, NEW p \in Processes, BodyEnds(p)
  PROVE  AcquisitionInv'
  <1>1. /\ proc[p].pc = "body" /\ proc[p].pc \notin LockFree
        /\ UNCHANGED <<remote, verified>>
    BY DEF BodyEnds, CallAt, LockFree
  <1>2. CASE DigestMatches(partial.bytes)
    <2> DEFINE d == [partial EXCEPT !.counted = SizeBytes]
    <2>1. /\ partial' = d /\ CallGoto(p, "verify") /\ UNCHANGED lock
          /\ outcome' = "none"
      BY <1>2 DEF BodyEnds
    <2>2. PartialFits(partial) /\ partial.proof
      BY <1>1, Holder DEF CallFits, Working, Beginning
    <2>3. /\ d \in PartialRecords /\ d.bytes = partial.bytes
          /\ d.etag = partial.etag /\ d.proof = partial.proof
      <3>1. SizeBytes \in 0 .. SizeBytes
        BY AcquisitionAssumption
      <3> QED
        BY <2>2, <3>1 DEF PartialFits, PartialRecords
    <2> HIDE DEF d
    <2>4. PartialFits(d) /\ d.proof
      BY <2>2, <2>3 DEF PartialFits
    <2> QED
      BY <1>1, <2>1, <2>4, PromotionGoesOn
  <1>3. CASE ~DigestMatches(partial.bytes)
    BY <1>1, <1>3, RemovalEnds DEF BodyEnds
  <1> QED
    BY <1>2, <1>3

LEMMA VerifyKeeps ==
  ASSUME AcquisitionInv, NEW p \in Processes, Verify(p)
  PROVE  AcquisitionInv'
  <1>1. /\ proc[p].pc = "verify" /\ proc[p].pc \notin LockFree
        /\ UNCHANGED <<remote, verified>>
    BY DEF Verify, CallAt, LockFree
  <1>2. CASE DigestMatches(partial.bytes)
    <2>1. /\ partial' = partial /\ CallGoto(p, "rename") /\ UNCHANGED lock
          /\ outcome' = "none" /\ partial.bytes = Signed
      BY <1>2 DEF Verify, DigestMatches
    <2>2. PartialFits(partial) /\ partial.proof
      BY <1>1, Holder DEF CallFits, Working, Beginning
    <2> QED
      BY <1>1, <2>1, <2>2, PromotionGoesOn
  <1>3. CASE ~DigestMatches(partial.bytes)
    BY <1>1, <1>3, RemovalEnds DEF Verify
  <1> QED
    BY <1>2, <1>3

LEMMA RenameKeeps ==
  ASSUME AcquisitionInv, NEW p \in Processes, RenameArtifact(p)
  PROVE  AcquisitionInv'
  <1>1. /\ proc[p].pc = "rename" /\ proc[p].pc \notin LockFree
        /\ UNCHANGED <<remote, verified>>
    BY DEF RenameArtifact, CallAt, LockFree
  <1>2. /\ PartialFits(partial) /\ partial.proof /\ partial.bytes = Signed
        /\ ~verified.dir
    BY <1>1, Holder DEF CallFits, Working, Beginning
  <1> DEFINE d == [partial EXCEPT !.file = FALSE, !.named = TRUE]
  <1>3. /\ partial' = d /\ CallGoto(p, "record") /\ UNCHANGED lock
        /\ outcome' = "none"
    BY <1>2, FindTells DEF RenameArtifact
  <1>4. /\ d \in PartialRecords /\ d.bytes = partial.bytes /\ d.named
        /\ d.etag = partial.etag /\ d.proof = partial.proof
    BY <1>2 DEF PartialFits, PartialRecords
  <1> HIDE DEF d
  <1>5. PartialFits(d)
    BY <1>2, <1>4 DEF PartialFits
  <1> QED
    BY <1>1, <1>2, <1>3, <1>4, <1>5, PromotionGoesOn

LEMMA RecordKeeps ==
  ASSUME AcquisitionInv, NEW p \in Processes, WriteRecord(p)
  PROVE  AcquisitionInv'
  <1>1. /\ proc[p].pc = "record" /\ proc[p].pc \notin LockFree
        /\ UNCHANGED <<remote, lock, verified>> /\ outcome' = "none"
        /\ CallGoto(p, "check")
    BY DEF WriteRecord, CallAt, LockFree
  <1>2. /\ PartialFits(partial) /\ partial.proof /\ partial.bytes = Signed
        /\ partial.named
    BY <1>1, Holder DEF CallFits, Working, Beginning
  <1> DEFINE d == [partial EXCEPT !.record = TRUE]
  <1>3. partial' = d
    BY DEF WriteRecord
  <1>4. /\ d \in PartialRecords /\ d.bytes = partial.bytes /\ d.record
        /\ d.etag = partial.etag /\ d.proof = partial.proof
        /\ d.named = partial.named
    BY <1>2 DEF PartialFits, PartialRecords
  <1> HIDE DEF d
  <1>5. PartialFits(d)
    BY <1>2, <1>4 DEF PartialFits
  <1> QED
    BY <1>1, <1>2, <1>3, <1>4, <1>5, PromotionGoesOn

LEMMA CheckKeeps ==
  ASSUME AcquisitionInv, NEW p \in Processes, CheckFiles(p)
  PROVE  AcquisitionInv'
  <1>1. /\ proc[p].pc = "check" /\ proc[p].pc \notin LockFree
        /\ UNCHANGED <<remote, verified>>
    BY DEF CheckFiles, CallAt, LockFree
  <1>2. /\ PartialFits(partial) /\ partial.proof /\ partial.bytes = Signed
        /\ partial.named /\ partial.record
    BY <1>1, Holder DEF CallFits, Working, Beginning
  <1> DEFINE d == [partial EXCEPT !.state = FALSE]
  <1>3. /\ partial' = d /\ CallGoto(p, "publish") /\ UNCHANGED lock
        /\ outcome' = "none"
    BY <1>2 DEF CheckFiles, verifyReleaseFiles, DigestMatches
  <1>4. /\ d \in PartialRecords /\ d.bytes = partial.bytes
        /\ d.etag = partial.etag /\ d.proof = partial.proof
        /\ d.named = partial.named /\ d.record = partial.record
    BY <1>2 DEF PartialFits, PartialRecords
  <1> HIDE DEF d
  <1>5. PartialFits(d)
    BY <1>2, <1>4 DEF PartialFits
  <1> QED
    BY <1>1, <1>2, <1>3, <1>4, <1>5, PromotionGoesOn

LEMMA PublishKeeps ==
  ASSUME AcquisitionInv, NEW p \in Processes, Publish(p) \/ PublishFails(p)
  PROVE  AcquisitionInv'
  <1>1. proc[p].pc = "publish" /\ proc[p].pc \notin LockFree
    BY DEF Publish, PublishFails, CallAt, LockFree
  <1>2. /\ PartialFits(partial) /\ partial.proof /\ partial.bytes = Signed
        /\ partial.named /\ partial.record /\ ~verified.dir
    BY <1>1, Holder DEF CallFits, Working, Beginning
  <1>3. CASE Publish(p)
    <2>1. /\ End(p, "acquired") /\ partial' = NoPartial /\ remote' = remote
          /\ verified' = [dir |-> TRUE, proof |-> partial.proof,
                          record |-> partial.record, bytes |-> partial.bytes]
      BY <1>3 DEF Publish
    <2>2. CachedReleaseIsWhole'
      BY <1>2, <2>1 DEF CachedReleaseIsWhole, Signed
    <2> QED
      BY <1>1, <2>1, <2>2, NoPartialFits, EndsKeeps
  <1>4. CASE PublishFails(p)
    BY <1>1, <1>2, <1>4, EndsKeeps DEF PublishFails
  <1> QED
    BY <1>3, <1>4

\* What is left of the partial directory without the files that are lost.
Leftover(removed, bytes) ==
  [partial EXCEPT !.proof = partial.proof /\ "proof" \notin removed,
                  !.file = partial.file /\ "file" \notin removed,
                  !.state = partial.state /\ "state" \notin removed,
                  !.named = partial.named /\ "named" \notin removed,
                  !.record = partial.record /\ "record" \notin removed,
                  !.bytes = bytes]

LEMMA LeftoverRecord ==
  ASSUME partial \in PartialRecords, NEW removed, NEW bytes \in Seq(Objects)
  PROVE  /\ Leftover(removed, bytes) \in PartialRecords
         /\ Leftover(removed, bytes).bytes = bytes
         /\ Leftover(removed, bytes).etag = partial.etag
  <1> DEFINE a == [partial EXCEPT !.proof = partial.proof
                             /\ "proof" \notin removed]
             b == [a EXCEPT !.file = partial.file
                             /\ "file" \notin removed]
             c == [b EXCEPT !.state = partial.state
                             /\ "state" \notin removed]
             d == [c EXCEPT !.named = partial.named
                             /\ "named" \notin removed]
             e == [d EXCEPT !.record = partial.record
                             /\ "record" \notin removed]
  <1>0. Leftover(removed, bytes) = [e EXCEPT !.bytes = bytes]
    BY DEF Leftover
  <1>1. a \in PartialRecords /\ a.etag = partial.etag
    BY DEF PartialRecords
  <1> HIDE DEF a
  <1>2. b \in PartialRecords /\ b.etag = partial.etag
    BY <1>1 DEF PartialRecords
  <1> HIDE DEF b
  <1>3. c \in PartialRecords /\ c.etag = partial.etag
    BY <1>2 DEF PartialRecords
  <1> HIDE DEF c
  <1>4. d \in PartialRecords /\ d.etag = partial.etag
    BY <1>3 DEF PartialRecords
  <1> HIDE DEF d
  <1>5. e \in PartialRecords /\ e.etag = partial.etag
    BY <1>4 DEF PartialRecords
  <1> HIDE DEF e
  <1> QED
    BY <1>0, <1>5 DEF PartialRecords

LEMMA CrashKeeps ==
  ASSUME AcquisitionInv, NEW p \in Processes, CallCrashes(p)
  PROVE  AcquisitionInv'
  <1>1. /\ proc' = [proc EXCEPT ![p] = NoCall] /\ outcome' = "none"
        /\ lock' = IF lock = p THEN "stale" ELSE lock
        /\ UNCHANGED <<remote, verified>>
    BY DEF CallCrashes
  <1>2. NoCall \in CallRecords /\ NoCall.pc = "idle"
    BY AcquisitionAssumption
    DEF NoCall, CallRecords, LockFree, Working, Beginning, NoEtag
  <1>3. \A d : CallFits(NoCall, d)
    BY DEF CallFits, NoCall, LockFree, Working, Beginning
  <1>4. PartialFits(partial') /\ (partial' = partial \/ proc[p].pc = "remove")
    <2>1. CASE partial' = partial
      BY <2>1 DEF AcquisitionInv
    <2>2. CASE proc[p].pc = "remove" /\ partial' \in HalfRemoved
      <3>1. PartialFits(partial)
        BY DEF AcquisitionInv
      <3>2. PICK removed \in SUBSET {"proof", "file", "state", "named", "record"} :
              partial' = [partial EXCEPT
                   !.proof = partial.proof /\ "proof" \notin removed,
                   !.file = partial.file /\ "file" \notin removed,
                   !.state = partial.state /\ "state" \notin removed,
                   !.named = partial.named /\ "named" \notin removed,
                   !.record = partial.record /\ "record" \notin removed,
                   !.bytes = IF {"file", "named"} \subseteq removed
                             THEN <<>> ELSE partial.bytes]
        BY <2>2 DEF HalfRemoved
      <3> DEFINE bytes == IF {"file", "named"} \subseteq removed
                          THEN <<>> ELSE partial.bytes
      <3>3. bytes \in {partial.bytes, <<>>}
        OBVIOUS
      <3>4. <<>> \in Seq(Objects) /\ partial.bytes \in Seq(Objects)
        BY <3>1 DEF PartialFits, PartialRecords
      <3>5. /\ partial' \in PartialRecords /\ partial'.bytes = bytes
            /\ partial'.etag = partial.etag
        <4>1. bytes \in Seq(Objects)
          BY <3>3, <3>4
        <4>2. partial \in PartialRecords
          BY <3>1 DEF PartialFits
        <4> HIDE DEF bytes
        <4>3. partial' = Leftover(removed, bytes)
          BY <3>2 DEF bytes, Leftover
        <4> QED
          BY <4>1, <4>2, <4>3, LeftoverRecord
      <3> QED
        BY <2>2, <3>1, <3>3, <3>5, AcquisitionAssumption DEF PartialFits, OneObject
    <2> QED
      BY <2>1, <2>2 DEF CallCrashes, CallAt
  <1>5. /\ proc' \in [Processes -> CallRecords] /\ proc'[p] = NoCall
        /\ \A q \in Processes : q # p => proc'[q] = proc[q]
    BY <1>1, <1>2 DEF AcquisitionInv
  <1>6. \A q \in Processes : CallFits(proc'[q], partial')
    <2> SUFFICES ASSUME NEW q \in Processes, q # p
                 PROVE  CallFits(proc[q], partial')
      BY <1>3, <1>5
    <2>1. CallFits(proc[q], partial)
      BY DEF AcquisitionInv
    <2>2. proc[p].pc = "remove" => proc[q].pc \in LockFree
      BY DEF AcquisitionInv, LockFree
    <2> QED
      BY <1>4, <2>1, <2>2, WaitsForLock
  <1>7. \A q \in Processes : proc'[q].pc \notin LockFree => lock' = q
    BY <1>1, <1>2, <1>5 DEF AcquisitionInv, LockFree
  <1>8. VerifiedFits'
    BY <1>1, <1>2, <1>5
    DEF AcquisitionInv, VerifiedFits, CachedReleaseIsWhole, Signed, Working,
        Beginning
  <1> QED
    BY <1>1, <1>4, <1>5, <1>6, <1>7, <1>8
    DEF AcquisitionInv, LeftoverNeverBlocks, ChecksumFailureIsNotSticky

LEMMA HostKeeps ==
  ASSUME AcquisitionInv, LockExpires \/ \E o \in Objects : Republish(o)
  PROVE  AcquisitionInv'
  <1>1. /\ UNCHANGED <<partial, verified, proc>> /\ outcome' = "none"
        /\ remote' \in Objects
        /\ \/ lock' = lock
           \/ lock = "stale" /\ lock' = "free"
    BY DEF LockExpires, Republish, AcquisitionInv
  <1>2. VerifiedFits'
    BY <1>1 DEF AcquisitionInv, VerifiedFits, CachedReleaseIsWhole, Signed
  <1>3. \A p \in Processes : proc[p].pc \notin LockFree => lock' = p
    BY <1>1, AcquisitionAssumption DEF AcquisitionInv
  <1> QED
    BY <1>1, <1>2, <1>3
    DEF AcquisitionInv, LeftoverNeverBlocks, ChecksumFailureIsNotSticky

LEMMA AcquisitionStepKeeps ==
  AcquisitionInv /\ [AcquisitionNext]_acquisitionVars => AcquisitionInv'
  <1> SUFFICES ASSUME AcquisitionInv, [AcquisitionNext]_acquisitionVars
               PROVE  AcquisitionInv'
    OBVIOUS
  <1>1. CASE UNCHANGED acquisitionVars
    BY <1>1
    DEF acquisitionVars, AcquisitionInv, VerifiedFits, CachedReleaseIsWhole,
        Signed, LeftoverNeverBlocks, ChecksumFailureIsNotSticky
  <1>2. CASE AcquisitionNext
    BY <1>2, WithoutLockKeeps, FindAfterLockKeeps, ObserveKeeps, RemoveKeeps,
       InitializeKeeps, FullResponseKeeps, ResumeResponseKeeps,
       ResumeRefusedKeeps, ChunkKeeps, RequestFailsKeeps, BodyEndsKeeps,
       VerifyKeeps, RenameKeeps, RecordKeeps, CheckKeeps, PublishKeeps,
       CrashKeeps, HostKeeps
    DEF AcquisitionNext
  <1> QED
    BY <1>1, <1>2

(* CacheIsSound: for any number of processes that acquire a release of any *)
(* size from a source that may republish anything, whatever crashes, what  *)
(* the cache holds is whole and of one object, and no leftover is in the   *)
(* way of the next call.                                                   *)
THEOREM AcquiredSoundly == AcquisitionSpec => []CacheIsSound
  <1>1. AcquisitionInv => CacheIsSound
    <2> SUFFICES ASSUME AcquisitionInv PROVE CacheIsSound
      OBVIOUS
    <2>1. NeverSpliced
      <3>1. PICK o \in Objects : OneObject(partial.bytes, o)
        BY DEF AcquisitionInv, PartialFits
      <3> DEFINE S == {partial.bytes[i] : i \in DOMAIN partial.bytes}
      <3>2. partial.bytes \in Seq(Objects)
        BY DEF AcquisitionInv, PartialFits, PartialRecords
      <3>3. S \subseteq {o}
        BY <3>1, <3>2 DEF OneObject
      <3>4. Cardinality({o}) = 1 /\ IsFiniteSet({o})
        BY FS_Singleton
      <3>5. Cardinality(S) <= 1
        BY <3>3, <3>4, FS_Subset
      <3> QED
        BY <3>5 DEF NeverSpliced
    <2>2. CachedIsNotFetched
      BY DEF AcquisitionInv, VerifiedFits, CachedIsNotFetched, Working
    <2>3. CachedReleaseIsWhole
      BY DEF AcquisitionInv, VerifiedFits, CachedReleaseIsWhole
    <2> QED
      BY <2>1, <2>2, <2>3 DEF AcquisitionInv, CacheIsSound
  <1> QED
    BY <1>1, AcquisitionStarts, AcquisitionStepKeeps, PTL DEF AcquisitionSpec

-----------------------------------------------------------------------------
(* The Local Secret Store                                                  *)

SecretRecords == [version : Nat, key : Nat]
PinRecords == [id : Nat, revision : Nat, entries : [Aliases -> Nat]]
VaultRecords ==
  [id : Nat, revision : Nat, records : [Aliases -> SecretRecords],
   digest : PinRecords,
   protection : [profile : {"none", "passphrase", "native"}, aad : PinRecords,
                 key : Nat]]
ServiceRecords == [key : Nat, id : Nat, pin : PinRecords]
CommandRecords ==
  [at : {"idle", "new", "prompt", "open", "built", "locked", "inventory",
         "send"},
   cmd : {"none", "init", "set", "remove", "migrate"},
   service : ServiceRecords, expected : Nat, candidate : VaultRecords,
   snapshot : PinRecords, built : Nat]
RunnerRecords ==
  [at : {"down", "session", "refresh", "sending"}, service : ServiceRecords,
   native : BOOLEAN, ready : BOOLEAN, pin : PinRecords, snapshot : PinRecords,
   starting : BOOLEAN]

JobRecords ==
  [at : {"none", "queued", "claimed", "checked", "served", "refused"},
   pin : PinRecords, got : [Aliases -> Nat]]

\* A vault that opens.  A vault is created together with its master key, so
\* one number stands for both.
VaultFits(v) ==
  /\ v \in VaultRecords /\ v.id # 0 /\ v.revision # 0
  /\ DigestHolds(v) /\ ProtectorOpens(v)
  /\ v.protection.key = v.id /\ Decryptable(v, v.id)

\* A pin of a vault that was on disk, where now v is.
PinWasHeld(pin, v) == 1 <= pin.revision /\ pin.revision <= v.revision

\* The candidate differs from the vault v on disk by what the command built.
ChangesOnly(c, r, v) ==
  \A a \in Aliases :
    r.candidate.records[a].version =
      IF r.cmd \in {"set", "remove"} /\ a = AliasOf[c]
      THEN r.built ELSE v.records[a].version

\* What a command has prepared: a vault that opens, of the revision after
\* the one it has seen, and on that revision it changes what it built only.
CommandFits(c, r, v, keeper) ==
  /\ r.service.key = r.service.id
  /\ r.at = "built" /\ r.cmd # "migrate" => VaultFits(r.candidate)
  /\ r.at = "built" /\ r.cmd = "init" =>
       /\ r.candidate.revision = 1
       /\ \A a \in Aliases : r.candidate.records[a].version = 0
  /\ r.at = "built" /\ r.cmd \in {"set", "remove"} =>
       /\ v # NoVault /\ r.candidate.id = v.id
       /\ r.expected <= v.revision
       /\ r.candidate.revision = r.expected + 1
       /\ r.expected = v.revision => ChangesOnly(c, r, v)
  /\ r.at = "built" => r.cmd \in {"init", "set", "remove", "migrate"}
  /\ r.at = "new" => r.cmd = "init"
  /\ r.at = "locked" =>
       /\ keeper = c /\ VaultFits(r.candidate)
       /\ r.candidate.revision = v.revision + 1
       /\ v # NoVault => r.candidate.id = v.id
       /\ ChangesOnly(c, r, v)
  /\ r.at = "send" => PinWasHeld(r.snapshot, v)

\* The pin of a ready Runner is that of its service, whose key it has.
RunnerFits ==
  /\ runner \in RunnerRecords
  /\ runner.service.key = runner.service.id
  /\ runner.at = "sending" =>
       /\ PinWasHeld(runner.snapshot, disk) /\ runner.service.key # 0
       /\ runner.snapshot.id = runner.service.id
  /\ runner.pin # NoPin =>
       /\ runner.service.pin = runner.pin /\ runner.service.key # 0
       /\ runner.pin.id = runner.service.id

ServerFits ==
  /\ server \in [pin : PinRecords,
                 status : {"none", "ready", "locked", "unavailable"}]
  /\ server.pin.revision <= disk.revision
  /\ server.status = "ready" => server.pin.revision # 0

\* A run is pinned to an inventory that was on disk, and is claimed by a
\* Runner that has that very inventory.
JobFits ==
  /\ job \in JobRecords
  /\ job.at # "none" => job.pin \in PinRecords /\ PinWasHeld(job.pin, disk)
  /\ job.at \in {"claimed", "checked"} =>
       runner.at = "session" /\ job.pin = runner.pin
  /\ RunGetsPinnedSecrets
  /\ RefusedOnlyAfterChange

VaultInv ==
  /\ disk = NoVault \/ VaultFits(disk)
  /\ disk \in VaultRecords /\ fresh \in Nat
  /\ NoSilentOverwrite /\ ledger = [a \in Aliases |-> ledger[a]]
  /\ cli \in [Commands -> CommandRecords]
  /\ \A c \in Commands : CommandFits(c, cli[c], disk, holder)
  /\ RunnerFits /\ ServerFits /\ JobFits

LEMMA NoVaultRecord ==
  /\ NoVault \in VaultRecords /\ NoPin \in PinRecords
  /\ NoVault.id = 0 /\ NoVault.revision = 0 /\ NoPin.revision = 0
  /\ \A a \in Aliases : NoVault.records[a].version = 0
  /\ NoRecords \in [Aliases -> SecretRecords]
  BY DEF NoVault, NoPin, NoRecords, DigestOf, VaultRecords, PinRecords,
         SecretRecords

LEMMA NoCommandRecord ==
  /\ NoCommand \in CommandRecords /\ NoCommand.at = "idle"
  /\ NoCommand.service.key = NoCommand.service.id
  BY NoVaultRecord DEF NoCommand, CommandRecords, Locked, ServiceRecords

LEMMA NoCommandFits ==
  ASSUME NEW c, NEW v, NEW keeper PROVE CommandFits(c, NoCommand, v, keeper)
  BY NoCommandRecord DEF CommandFits

LEMMA NoJobRecord == NoJob \in JobRecords /\ NoJob.at = "none"
  BY NoVaultRecord DEF NoJob, JobRecords, PinRecords

LEMMA DownRecord ==
  /\ Down \in RunnerRecords /\ Down.at = "down" /\ Down.pin = NoPin
  /\ Down.service.key = Down.service.id
  BY NoVaultRecord DEF Down, RunnerRecords, Locked, ServiceRecords

LEMMA VaultStarts == VaultInit => VaultInv
  <1> SUFFICES ASSUME VaultInit PROVE VaultInv
    OBVIOUS
  <1>1. RunnerFits
    BY DownRecord DEF VaultInit, RunnerFits
  <1>2. ServerFits
    BY NoVaultRecord DEF VaultInit, ServerFits, NoInventory
  <1>3. JobFits
    BY NoJobRecord DEF VaultInit, JobFits, NoJob, RunGetsPinnedSecrets,
           RefusedOnlyAfterChange
  <1>4. NoSilentOverwrite /\ ledger = [a \in Aliases |-> ledger[a]]
    BY DEF VaultInit, NoSilentOverwrite, NoVault, NoPin, NoRecords, DigestOf
  <1> QED
    BY <1>1, <1>2, <1>3, <1>4, NoVaultRecord, NoCommandRecord, NoCommandFits
    DEF VaultInit, VaultInv

(* The vault a command builds opens, for the key its records are under.    *)
LEMMA NewVaultFits ==
  ASSUME NEW v \in VaultRecords, NEW records \in [Aliases -> SecretRecords],
         NEW profile \in {"none", "passphrase", "native"}, v.id # 0,
         \A a \in Aliases : records[a].version # 0 => records[a].key = v.id
  PROVE  LET new == NewVault(v, records, profile, v.id)
         IN  /\ VaultFits(new) /\ new.id = v.id /\ new.records = records
             /\ new.revision = v.revision + 1
  <1> DEFINE new == NewVault(v, records, profile, v.id)
             pin == DigestOf(v.id, v.revision + 1, records)
  <1>1. pin \in PinRecords
    <2>1. \A a \in Aliases : records[a].version \in Nat
      BY DEF SecretRecords
    <2>2. v.id \in Nat /\ v.revision + 1 \in Nat
      BY DEF VaultRecords
    <2> QED
      BY <2>1, <2>2 DEF DigestOf, PinRecords
  <1>2. /\ new.id = v.id /\ new.revision = v.revision + 1
        /\ new.records = records /\ new.digest = pin
        /\ new.protection.aad = pin /\ new.protection.key = v.id
    BY DEF NewVault, Wrap
  <1>3. new \in VaultRecords
    BY <1>1 DEF NewVault, Wrap, VaultRecords
  <1>4. v.revision + 1 # 0
    BY DEF VaultRecords
  <1> HIDE DEF new
  <1>5. VaultFits(new)
    BY <1>2, <1>3, <1>4
    DEF VaultFits, DigestHolds, ProtectorOpens, Decryptable
  <1> QED
    BY <1>2, <1>5 DEF new

(* A step of a command that leaves the vault alone.                        *)
LEMMA CommandStep ==
  ASSUME VaultInv, NEW c \in Commands, NEW r \in CommandRecords,
         cli' = [cli EXCEPT ![c] = r], NEW keeper, holder' = keeper,
         \A d \in Commands \ {c} : holder = d => keeper = d,
         CommandFits(c, r, disk, keeper),
         UNCHANGED <<disk, runner, job, ledger>>, fresh' \in Nat, ServerFits'
  PROVE  VaultInv'
  <1>1. /\ cli' \in [Commands -> CommandRecords] /\ cli'[c] = r
        /\ \A d \in Commands : d # c => cli'[d] = cli[d]
    BY DEF VaultInv
  <1>2. \A d \in Commands : CommandFits(d, cli'[d], disk, keeper)
    <2> SUFFICES ASSUME NEW d \in Commands, d # c
                 PROVE  CommandFits(d, cli[d], disk, keeper)
      BY <1>1
    <2>1. CommandFits(d, cli[d], disk, holder)
      BY DEF VaultInv
    <2> QED
      BY <2>1 DEF CommandFits
  <1>3. RunnerFits' /\ JobFits' /\ NoSilentOverwrite'
    BY DEF VaultInv, RunnerFits, JobFits, NoSilentOverwrite,
           RunGetsPinnedSecrets, RefusedOnlyAfterChange, PinWasHeld, Pin
  <1> QED
    BY <1>1, <1>2, <1>3 DEF VaultInv

LEMMA ServerStays ==
  ASSUME VaultInv, UNCHANGED <<disk, server>> PROVE ServerFits'
  BY DEF VaultInv, ServerFits

LEMMA BeginKeeps ==
  ASSUME VaultInv, NEW c \in Commands,
         NEW cmd \in {"init", "set", "remove", "migrate"}, BeginCommand(c, cmd)
  PROVE  VaultInv'
  <1> DEFINE r == [NoCommand EXCEPT
                     !.at = IF cmd = "init" THEN "new" ELSE "prompt",
                     !.cmd = cmd]
  <1>1. /\ cli' = [cli EXCEPT ![c] = r] /\ fresh' = fresh
        /\ UNCHANGED <<disk, holder, runner, server, job, ledger>>
    BY DEF BeginCommand
  <1>2. /\ r \in CommandRecords /\ r.at \in {"new", "prompt"}
        /\ r.at = "new" => r.cmd = "init"
        /\ r.service = NoCommand.service
    BY NoCommandRecord DEF CommandRecords
  <1> HIDE DEF r
  <1>3. CommandFits(c, r, disk, holder)
    BY <1>2, NoCommandRecord DEF CommandFits
  <1>4. ServerFits' /\ fresh \in Nat
    BY <1>1, ServerStays DEF VaultInv
  <1> QED
    BY <1>1, <1>2, <1>3, <1>4, CommandStep

\* The commands that leave the keeper and the control plane alone.
LEMMA OwnStep ==
  ASSUME VaultInv, NEW c \in Commands, NEW r \in CommandRecords,
         cli' = [cli EXCEPT ![c] = r], CommandFits(c, r, disk, holder),
         UNCHANGED <<disk, holder, runner, server, job, ledger>>,
         fresh' \in Nat
  PROVE  VaultInv'
  BY CommandStep, ServerStays

\* A command's record, and the vault it finds on disk.
LEMMA OnDisk ==
  ASSUME VaultInv, NEW c \in Commands
  PROVE  /\ cli[c] \in CommandRecords /\ CommandFits(c, cli[c], disk, holder)
         /\ disk \in VaultRecords /\ fresh \in Nat
         /\ Exists => VaultFits(disk)
         /\ disk.revision # 0 => Exists
         /\ Unlocked(cli[c].service) =>
              Exists /\ cli[c].service.key = disk.id /\ disk.id # 0
  BY NoVaultRecord DEF VaultInv, Exists, Unlocked, VaultFits, CommandFits

LEMMA InitializeVaultKeeps ==
  ASSUME VaultInv, NEW c \in Commands, InitializeVault(c)
  PROVE  VaultInv'
  <1> DEFINE f == fresh + 1
             blank == [NoVault EXCEPT !.id = f]
             new == NewVault(blank, NoRecords, "passphrase", f)
             r == [cli[c] EXCEPT !.at = "built", !.built = f,
                                 !.candidate = new]
  <1>1. /\ cli' = [cli EXCEPT ![c] = r] /\ fresh' = f
        /\ UNCHANGED <<disk, holder, runner, server, job, ledger>>
    BY DEF InitializeVault
  <1>2. /\ cli[c] \in CommandRecords /\ f \in Nat /\ f # 0
        /\ CommandFits(c, cli[c], disk, holder) /\ cli[c].cmd = "init"
    BY OnDisk DEF InitializeVault, CommandFits
  <1>3. blank \in VaultRecords /\ blank.id = f /\ blank.revision = 0
    BY <1>2, NoVaultRecord DEF VaultRecords
  <1>4. \A a \in Aliases : NoRecords[a].version = 0
    BY DEF NoRecords
  <1> HIDE DEF blank, f
  <1>5. /\ VaultFits(new) /\ new.id = f /\ new.records = NoRecords
        /\ new.revision = 1
    BY <1>2, <1>3, <1>4, NewVaultFits, NoVaultRecord
  <1> HIDE DEF new
  <1>6. /\ r \in CommandRecords /\ r.at = "built" /\ r.candidate = new
        /\ r.cmd = cli[c].cmd /\ r.service = cli[c].service
    BY <1>2, <1>5 DEF CommandRecords, VaultFits
  <1> HIDE DEF r
  <1>7. CommandFits(c, r, disk, holder)
    BY <1>2, <1>4, <1>5, <1>6 DEF CommandFits
  <1> QED
    BY <1>1, <1>2, <1>6, <1>7, OwnStep

LEMMA UnlockKeeps ==
  ASSUME VaultInv, NEW c \in Commands, Unlock(c)
  PROVE  VaultInv'
  <1> DEFINE s == Adopted(disk.protection.key, disk.id)
             r == [cli[c] EXCEPT !.service = s, !.at = "open"]
  <1>1. /\ cli' = [cli EXCEPT ![c] = r] /\ fresh' = fresh
        /\ UNCHANGED <<disk, holder, runner, server, job, ledger>>
    BY DEF Unlock
  <1>2. /\ cli[c] \in CommandRecords /\ fresh \in Nat
        /\ VaultFits(disk) /\ disk \in VaultRecords
    BY OnDisk DEF Unlock
  <1>3. s \in ServiceRecords /\ s.key = s.id
    BY <1>2, NoVaultRecord DEF VaultFits, VaultRecords, Adopted, ServiceRecords
  <1> HIDE DEF s
  <1>4. r \in CommandRecords /\ r.at = "open" /\ r.service = s
    BY <1>2, <1>3 DEF CommandRecords
  <1> HIDE DEF r
  <1>5. CommandFits(c, r, disk, holder)
    BY <1>3, <1>4 DEF CommandFits
  <1> QED
    BY <1>1, <1>2, <1>4, <1>5, OwnStep

\* What set and remove build: the vault on disk with one alias changed.
LEMMA BuiltFits ==
  ASSUME VaultInv, NEW c \in Commands, Unlocked(cli[c].service),
         cli[c].cmd \in {"set", "remove"}, NEW built \in Nat,
         NEW record \in SecretRecords, record.version = built,
         built # 0 => record.key = disk.id, fresh' \in Nat,
         UNCHANGED <<disk, holder, runner, server, job, ledger>>,
         cli' = [cli EXCEPT ![c].at = "built", ![c].built = built,
                   ![c].expected = disk.revision,
                   ![c].candidate =
                      NewVault(disk,
                               [disk.records EXCEPT ![AliasOf[c]] = record],
                               disk.protection.profile, cli[c].service.key)]
  PROVE  VaultInv'
  <1> DEFINE records == [disk.records EXCEPT ![AliasOf[c]] = record]
             new == NewVault(disk, records, disk.protection.profile,
                             cli[c].service.key)
             r == [cli[c] EXCEPT !.at = "built", !.built = built,
                     !.expected = disk.revision, !.candidate = new]
  <1>1. cli' = [cli EXCEPT ![c] = r]
    BY Zenon
  <1>2. /\ cli[c] \in CommandRecords /\ VaultFits(disk) /\ disk # NoVault
        /\ CommandFits(c, cli[c], disk, holder)
        /\ cli[c].service.key = disk.id /\ disk.id # 0
        /\ disk \in VaultRecords
    BY OnDisk DEF Exists
  <1>3. /\ records \in [Aliases -> SecretRecords]
        /\ \A a \in Aliases :
             records[a] = IF a = AliasOf[c] THEN record ELSE disk.records[a]
    BY <1>2, VaultAssumption DEF VaultRecords
  <1>4. disk.protection.profile \in {"none", "passphrase", "native"}
    BY <1>2 DEF VaultRecords
  <1> HIDE DEF records
  <1>5. /\ VaultFits(new) /\ new.id = disk.id /\ new.records = records
        /\ new.revision = disk.revision + 1
    <2>1. \A a \in Aliases : records[a].version # 0 => records[a].key = disk.id
      BY <1>2, <1>3 DEF VaultFits, Decryptable
    <2> QED
      BY <1>2, <1>3, <1>4, <2>1, NewVaultFits
  <1> HIDE DEF new
  <1>6. /\ r \in CommandRecords /\ r.at = "built" /\ r.candidate = new
        /\ r.cmd = cli[c].cmd /\ r.service = cli[c].service
        /\ r.built = built /\ r.expected = disk.revision
    <2>1. disk.revision \in Nat /\ new \in VaultRecords
      BY <1>2, <1>5 DEF VaultRecords, VaultFits
    <2> QED
      BY <1>2, <2>1 DEF CommandRecords
  <1> HIDE DEF r
  <1>7. ChangesOnly(c, r, disk)
    BY <1>3, <1>5, <1>6 DEF ChangesOnly
  <1>8. CommandFits(c, r, disk, holder)
    <2>1. disk.revision <= disk.revision
      BY <1>2 DEF VaultRecords
    <2> QED
      BY <1>2, <1>5, <1>6, <1>7, <2>1 DEF CommandFits
  <1> QED
    BY <1>1, <1>6, <1>8, OwnStep

LEMMA SetSecretKeeps ==
  ASSUME VaultInv, NEW c \in Commands, SetSecret(c)
  PROVE  VaultInv'
  <1> DEFINE f == fresh + 1
             record == Encrypted(f, cli[c].service.key)
  <1>1. /\ Unlocked(cli[c].service) /\ cli[c].cmd = "set" /\ fresh' = f
        /\ UNCHANGED <<disk, holder, runner, server, job, ledger>>
        /\ cli' = [cli EXCEPT ![c].at = "built", ![c].built = f,
                     ![c].expected = disk.revision,
                     ![c].candidate =
                        NewVault(disk,
                                 [disk.records EXCEPT ![AliasOf[c]] = record],
                                 disk.protection.profile, cli[c].service.key)]
    BY DEF SetSecret
  <1>2. cli[c].service.key = disk.id /\ f \in Nat /\ disk \in VaultRecords
    BY <1>1, OnDisk
  <1>3. record \in SecretRecords /\ record.version = f /\ record.key = disk.id
    BY <1>2 DEF Encrypted, SecretRecords, VaultRecords
  <1> HIDE DEF record, f
  <1> QED
    BY <1>1, <1>2, <1>3, BuiltFits

LEMMA RemoveSecretKeeps ==
  ASSUME VaultInv, NEW c \in Commands, RemoveSecret(c)
  PROVE  VaultInv'
  <1> DEFINE record == NoRecords[AliasOf[c]]
  <1>1. /\ Unlocked(cli[c].service) /\ cli[c].cmd = "remove"
        /\ UNCHANGED <<disk, holder, runner, server, job, ledger>>
        /\ fresh' = fresh
        /\ cli' = [cli EXCEPT ![c].at = "built", ![c].built = 0,
                     ![c].expected = disk.revision,
                     ![c].candidate =
                        NewVault(disk,
                                 [disk.records EXCEPT ![AliasOf[c]] = record],
                                 disk.protection.profile, cli[c].service.key)]
    BY DEF RemoveSecret
  <1>2. record \in SecretRecords /\ record.version = 0
    BY VaultAssumption DEF NoRecords, SecretRecords
  <1>3. fresh' \in Nat /\ 0 \in Nat /\ (0 # 0 => record.key = disk.id)
    BY <1>1, OnDisk
  <1>4. cli[c].cmd \in {"set", "remove"}
    BY <1>1
  <1> HIDE DEF record
  <1> QED
    BY <1>1, <1>2, <1>3, <1>4, BuiltFits

LEMMA BeginMigrationKeeps ==
  ASSUME VaultInv, NEW c \in Commands, BeginMigration(c)
  PROVE  VaultInv'
  <1> DEFINE r == [cli[c] EXCEPT !.at = "built", !.expected = disk.revision]
  <1>1. /\ cli' = [cli EXCEPT ![c] = r] /\ cli[c].cmd = "migrate"
        /\ UNCHANGED <<disk, holder, runner, server, job, ledger, fresh>>
    BY DEF BeginMigration
  <1>2. /\ cli[c] \in CommandRecords /\ CommandFits(c, cli[c], disk, holder)
        /\ disk.revision \in Nat /\ fresh \in Nat
    BY OnDisk DEF VaultRecords
  <1>3. /\ r \in CommandRecords /\ r.at = "built" /\ r.cmd = "migrate"
        /\ r.service = cli[c].service
    BY <1>1, <1>2 DEF CommandRecords
  <1> HIDE DEF r
  <1>4. CommandFits(c, r, disk, holder)
    BY <1>2, <1>3 DEF CommandFits
  <1> QED
    BY <1>1, <1>2, <1>3, <1>4, OwnStep

LEMMA ReadInventoryKeeps ==
  ASSUME VaultInv, NEW c \in Commands, ReadInventory(c)
  PROVE  VaultInv'
  <1> DEFINE pin == Pin(disk)
             r == [cli[c] EXCEPT !.at = "send", !.snapshot = pin]
  <1>1. /\ cli' = [cli EXCEPT ![c] = r] /\ Unlocked(cli[c].service)
        /\ UNCHANGED <<disk, holder, runner, server, job, ledger, fresh>>
    BY DEF ReadInventory
  <1>2. /\ cli[c] \in CommandRecords /\ CommandFits(c, cli[c], disk, holder)
        /\ fresh \in Nat /\ VaultFits(disk)
    BY <1>1, OnDisk
  <1>3. pin \in PinRecords /\ PinWasHeld(pin, disk)
    BY <1>2 DEF Pin, VaultFits, VaultRecords, DigestHolds, DigestOf, PinWasHeld
  <1> HIDE DEF pin
  <1>4. /\ r \in CommandRecords /\ r.at = "send" /\ r.snapshot = pin
        /\ r.service = cli[c].service
    BY <1>2, <1>3 DEF CommandRecords
  <1> HIDE DEF r
  <1>5. CommandFits(c, r, disk, holder)
    BY <1>2, <1>3, <1>4 DEF CommandFits
  <1> QED
    BY <1>1, <1>2, <1>4, <1>5, OwnStep

LEMMA TakeLockKeeps ==
  ASSUME VaultInv, NEW c \in Commands, TakeLock(c)
  PROVE  VaultInv'
  <1> DEFINE new == IF cli[c].cmd = "migrate" THEN MigrationCandidate
                                               ELSE cli[c].candidate
             r == [cli[c] EXCEPT !.at = "locked", !.candidate = new]
  <1>1. /\ cli[c].at = "built" /\ holder = Nobody /\ holder' = c
        /\ MayReplace(c) /\ cli' = [cli EXCEPT ![c] = r]
        /\ UNCHANGED <<disk, runner, server, job, ledger>> /\ fresh' = fresh
    BY DEF TakeLock
  <1>2. /\ cli[c] \in CommandRecords /\ CommandFits(c, cli[c], disk, holder)
        /\ disk \in VaultRecords /\ fresh \in Nat
        /\ Exists => VaultFits(disk)
    BY OnDisk
  <1>3. /\ VaultFits(new) /\ new.revision = disk.revision + 1
        /\ Exists => new.id = disk.id
        /\ \A a \in Aliases :
             new.records[a].version =
               IF cli[c].cmd \in {"set", "remove"} /\ a = AliasOf[c]
               THEN cli[c].built ELSE disk.records[a].version
    <2>1. CASE cli[c].cmd = "init"
      <3>1. disk = NoVault /\ new = cli[c].candidate
        BY <1>1, <2>1 DEF MayReplace, Exists
      <3> HIDE DEF new
      <3> QED
        BY <1>1, <1>2, <2>1, <3>1, NoVaultRecord DEF CommandFits, Exists
    <2>2. CASE cli[c].cmd \in {"set", "remove"}
      <3>1. disk.revision = cli[c].expected /\ new = cli[c].candidate
        BY <1>1, <2>2 DEF MayReplace, RevisionExpected
      <3> HIDE DEF new
      <3> QED
        BY <1>1, <1>2, <2>2, <3>1 DEF CommandFits, ChangesOnly
    <2>3. CASE cli[c].cmd = "migrate"
      <3>1. disk.protection.profile = "passphrase"
        BY <1>1, <2>3 DEF MayReplace
      <3>2. VaultFits(disk)
        BY <1>2, <3>1 DEF Exists, NoVault
      <3>3. new = NewVault(disk, disk.records, "native", disk.id)
        BY <2>3, <3>2 DEF MigrationCandidate, VaultFits
      <3> HIDE DEF new
      <3>4. /\ disk.records \in [Aliases -> SecretRecords] /\ disk.id # 0
            /\ \A a \in Aliases :
                 disk.records[a].version # 0 => disk.records[a].key = disk.id
        BY <3>2 DEF VaultFits, Decryptable, VaultRecords
      <3>5. /\ VaultFits(new) /\ new.id = disk.id
            /\ new.records = disk.records /\ new.revision = disk.revision + 1
        BY <1>2, <3>3, <3>4, NewVaultFits
      <3> QED
        BY <2>3, <3>5
    <2> QED
      BY <1>1, <1>2, <2>1, <2>2, <2>3 DEF CommandFits
  <1> HIDE DEF new
  <1>4. /\ r \in CommandRecords /\ r.at = "locked" /\ r.candidate = new
        /\ r.cmd = cli[c].cmd /\ r.service = cli[c].service
        /\ r.built = cli[c].built
    BY <1>2, <1>3 DEF CommandRecords, VaultFits
  <1> HIDE DEF r
  <1>5. ChangesOnly(c, r, disk)
    BY <1>3, <1>4 DEF ChangesOnly
  <1>6. CommandFits(c, r, disk, c)
    BY <1>2, <1>3, <1>4, <1>5 DEF CommandFits, Exists
  <1>7. \A d \in Commands : holder # d
    BY <1>1, VaultAssumption DEF Nobody
  <1>8. ServerFits'
    BY <1>1, ServerStays
  <1> QED
    BY <1>1, <1>2, <1>4, <1>6, <1>7, <1>8, CommandStep

(* The write: the next revision of the vault, with what the command built. *)
LEMMA ReplaceKeeps ==
  ASSUME VaultInv, NEW c \in Commands, Replace(c)
  PROVE  VaultInv'
  <1> DEFINE new == cli[c].candidate
             s == IF cli[c].cmd \in {"init", "migrate"}
                  THEN Adopted(new.protection.key, new.id)
                  ELSE [cli[c].service EXCEPT !.pin = NoPin]
             r == [cli[c] EXCEPT !.at = "inventory", !.candidate = NoVault,
                                 !.service = s]
  <1>1. /\ cli[c].at = "locked" /\ disk' = new /\ holder' = Nobody
        /\ cli' = [cli EXCEPT ![c] = r] /\ fresh' = fresh
        /\ ledger' = IF cli[c].cmd \in {"set", "remove"}
                     THEN [ledger EXCEPT ![AliasOf[c]] = cli[c].built]
                     ELSE ledger
        /\ UNCHANGED <<runner, server, job>>
    BY DEF Replace
  <1>2. /\ cli[c] \in CommandRecords /\ CommandFits(c, cli[c], disk, holder)
        /\ disk \in VaultRecords /\ fresh \in Nat
        /\ holder = c /\ VaultFits(new) /\ new.revision = disk.revision + 1
        /\ Exists => new.id = disk.id
        /\ ChangesOnly(c, cli[c], disk)
    BY <1>1, OnDisk DEF CommandFits, Exists
  <1>3. NoSilentOverwrite' /\ ledger' = [a \in Aliases |-> ledger'[a]]
    <2>1. /\ \A a \in Aliases : disk.records[a].version = ledger[a]
          /\ ledger = [a \in Aliases |-> ledger[a]]
      BY DEF VaultInv, NoSilentOverwrite
    <2>2. \A a \in Aliases :
            ledger'[a] = IF cli[c].cmd \in {"set", "remove"} /\ a = AliasOf[c]
                         THEN cli[c].built ELSE ledger[a]
      BY <1>1, <2>1
    <2>3. \A a \in Aliases : new.records[a].version = ledger'[a]
      BY <1>2, <2>1, <2>2 DEF ChangesOnly
    <2> QED
      BY <1>1, <2>1, <2>3 DEF NoSilentOverwrite
  <1>4. s \in ServiceRecords /\ s.key = s.id
    <2>1. CASE cli[c].cmd \in {"init", "migrate"}
      BY <1>2, <2>1, NoVaultRecord
      DEF VaultFits, VaultRecords, Adopted, ServiceRecords
    <2>2. CASE cli[c].cmd \notin {"init", "migrate"}
      BY <1>2, <2>2, NoVaultRecord
      DEF CommandFits, CommandRecords, ServiceRecords
    <2> QED
      BY <2>1, <2>2
  <1> HIDE DEF s
  <1>5. r \in CommandRecords /\ r.at = "inventory" /\ r.service = s
    BY <1>2, <1>4, NoVaultRecord DEF CommandRecords
  <1> HIDE DEF r, new
  <1>6. /\ cli' \in [Commands -> CommandRecords] /\ cli'[c] = r
        /\ \A d \in Commands : d # c => cli'[d] = cli[d]
    BY <1>1, <1>5 DEF VaultInv
  <1>7. new # NoVault /\ disk.revision \in Nat
    BY <1>2, NoVaultRecord DEF VaultFits, VaultRecords
  <1>8. \A d \in Commands : CommandFits(d, cli'[d], new, Nobody)
    <2>1. CommandFits(c, r, new, Nobody)
      BY <1>4, <1>5 DEF CommandFits
    <2>2. ASSUME NEW d \in Commands, d # c
          PROVE  CommandFits(d, cli[d], new, Nobody)
      <3>1. CommandFits(d, cli[d], disk, holder) /\ cli[d] \in CommandRecords
        BY OnDisk
      <3>2. cli[d].at # "locked"
        BY <1>2, <2>2, <3>1 DEF CommandFits
      <3>3. cli[d].at = "send" => PinWasHeld(cli[d].snapshot, new)
        BY <1>2, <1>7, <3>1
        DEF CommandFits, PinWasHeld, CommandRecords, PinRecords
      <3>4. ASSUME cli[d].at = "built", cli[d].cmd \in {"set", "remove"}
            PROVE  /\ cli[d].candidate.id = new.id
                   /\ cli[d].expected <= new.revision
                   /\ cli[d].expected # new.revision
        <4>1. /\ Exists /\ cli[d].candidate.id = disk.id
              /\ cli[d].expected <= disk.revision /\ cli[d].expected \in Nat
          BY <3>1, <3>4 DEF CommandFits, CommandRecords, Exists
        <4> QED
          BY <1>2, <1>7, <4>1
      <3> QED
        BY <1>7, <3>1, <3>2, <3>3, <3>4 DEF CommandFits
    <2> QED
      BY <1>6, <2>1, <2>2
  <1>9. \A pin \in PinRecords : PinWasHeld(pin, disk) => PinWasHeld(pin, new)
    BY <1>2, <1>7 DEF PinWasHeld, PinRecords
  <1>10. RunnerFits'
    BY <1>1, <1>9 DEF VaultInv, RunnerFits, RunnerRecords
  <1>11. ServerFits'
    BY <1>1, <1>2, <1>7 DEF VaultInv, ServerFits, PinRecords
  <1>12. JobFits'
    <2>1. job.at # "none" => Pin(new) # job.pin
      <3>1. Pin(new).revision = new.revision
        BY <1>2 DEF VaultFits, DigestHolds, DigestOf, Pin
      <3> QED
        BY <1>2, <1>7, <3>1 DEF VaultInv, JobFits, PinWasHeld, PinRecords
    <2> QED
      BY <1>1, <1>9, <2>1
      DEF VaultInv, JobFits, RunGetsPinnedSecrets, RefusedOnlyAfterChange
  <1>13. new \in VaultRecords
    BY <1>2 DEF VaultFits
  <1> QED
    BY <1>1, <1>2, <1>3, <1>6, <1>8, <1>10, <1>11, <1>12, <1>13 DEF VaultInv

LEMMA SnapshotAccepted ==
  ASSUME VaultInv, NEW pin \in PinRecords, PinWasHeld(pin, disk),
         disk' = disk, server' = Accepted(pin)
  PROVE  ServerFits'
  <1>1. server' = [pin |-> pin, status |-> "ready"] /\ pin.revision \in Nat
    BY DEF Accepted, PinRecords
  <1> QED
    BY <1>1 DEF ServerFits, PinWasHeld

LEMMA CommandEndKeeps ==
  ASSUME VaultInv, NEW c \in Commands, CliSynchronizes(c) \/ GivesUp(c)
  PROVE  VaultInv'
  <1>1. /\ cli' = [cli EXCEPT ![c] = NoCommand] /\ fresh' = fresh
        /\ UNCHANGED <<disk, runner, job, ledger>>
        /\ holder' = holder \/ holder = c
    BY DEF CliSynchronizes, GivesUp
  <1>2. ServerFits'
    <2>1. CASE CliSynchronizes(c)
      <3>1. /\ cli[c].snapshot \in PinRecords
            /\ PinWasHeld(cli[c].snapshot, disk)
        BY <2>1, OnDisk DEF CliSynchronizes, CommandFits, CommandRecords
      <3> QED
        BY <1>1, <2>1, <3>1, SnapshotAccepted DEF CliSynchronizes
    <2>2. CASE GivesUp(c)
      BY <1>1, <2>2, ServerStays DEF GivesUp
    <2> QED
      BY <2>1, <2>2
  <1>3. fresh \in Nat
    BY OnDisk
  <1>4. \A d \in Commands \ {c} : holder = d => holder' = d
    BY <1>1
  <1> QED
    BY <1>1, <1>2, <1>3, <1>4, NoCommandRecord, NoCommandFits, CommandStep

(* A step that leaves the vault and the commands alone.                    *)
LEMMA RunnerStep ==
  ASSUME VaultInv, UNCHANGED <<disk, holder, cli, ledger, fresh>>,
         RunnerFits', ServerFits', JobFits'
  PROVE  VaultInv'
  <1>1. \A c \in Commands : CommandFits(c, cli'[c], disk', holder')
    BY DEF VaultInv
  <1>2. NoSilentOverwrite'
    BY DEF VaultInv, NoSilentOverwrite
  <1> QED
    BY <1>1, <1>2 DEF VaultInv

\* The inventory a status report leaves behind.
LEMMA StatusKept ==
  ASSUME VaultInv, NEW status \in {"locked", "unavailable"}, disk' = disk,
         server' = StatusReported(status)
  PROVE  ServerFits' /\ server'.pin = server.pin
  <1>1. /\ server \in [pin : PinRecords,
                       status : {"none", "ready", "locked", "unavailable"}]
        /\ server.pin.revision <= disk.revision
    BY DEF VaultInv, ServerFits
  <1>2. CASE server = NoInventory
    BY <1>1, <1>2 DEF VaultInv, ServerFits, StatusReported
  <1>3. CASE server # NoInventory
    <2>1. server' = [server EXCEPT !.status = status]
      BY <1>3 DEF StatusReported
    <2>2. /\ server' \in [pin : PinRecords,
                       status : {"none", "ready", "locked", "unavailable"}]
          /\ server'.pin = server.pin /\ server'.status = status
      BY <1>1, <2>1
    <2> QED
      BY <1>1, <2>2 DEF ServerFits
  <1> QED
    BY <1>2, <1>3

LEMMA JobRecord == VaultInv => job \in JobRecords
  BY DEF VaultInv, JobFits

\* A run that no Runner has claimed is not disturbed by what Runners do.
LEMMA JobStays ==
  ASSUME VaultInv, UNCHANGED <<disk, job>>,
         job.at \in {"claimed", "checked"} => UNCHANGED runner
  PROVE  JobFits'
  BY DEF VaultInv, JobFits, PinWasHeld, RunGetsPinnedSecrets,
         RefusedOnlyAfterChange, Pin

LEMMA PrepareKeeps ==
  ASSUME VaultInv, PrepareWithoutSecrets \/ PrepareUnlocked
  PROVE  VaultInv'
  <1>1. /\ runner.at = "down" /\ job' = job
        /\ UNCHANGED <<disk, holder, cli, ledger, fresh>>
    BY DEF PrepareWithoutSecrets, PrepareUnlocked
  <1>2. JobFits'
    BY <1>1, JobStays DEF VaultInv, JobFits
  <1>3. CASE PrepareWithoutSecrets
    <2>1. runner' = [Down EXCEPT !.at = "session"]
      BY <1>3 DEF PrepareWithoutSecrets
    <2>2. /\ runner' \in RunnerRecords /\ runner'.at = "session"
          /\ runner'.pin = NoPin /\ runner'.service = Down.service
      BY <2>1, DownRecord DEF RunnerRecords
    <2>3. RunnerFits'
      BY <2>2, DownRecord DEF RunnerFits
    <2>4. server' = StatusReported(StoreStatus)
      BY <1>3 DEF PrepareWithoutSecrets
    <2>5. StoreStatus \in {"locked", "unavailable"}
      BY DEF StoreStatus
    <2>6. ServerFits'
      BY <1>1, <2>4, <2>5, StatusKept
    <2> QED
      BY <1>1, <1>2, <2>3, <2>6, RunnerStep
  <1>4. CASE PrepareUnlocked
    <2> DEFINE s == Adopted(disk.protection.key, disk.id)
               n == (disk.protection.profile = "native")
    <2>1. /\ runner' = [Down EXCEPT !.at = "refresh", !.starting = TRUE,
                          !.native = n, !.service = s]
          /\ Exists /\ server' = server
      BY <1>4 DEF PrepareUnlocked
    <2>2. s \in ServiceRecords /\ s.key = s.id
      BY <2>1, NoVaultRecord
      DEF VaultInv, Exists, VaultFits, VaultRecords, Adopted, ServiceRecords
    <2>3. n \in BOOLEAN
      OBVIOUS
    <2> HIDE DEF s, n
    <2>4. /\ runner' \in RunnerRecords /\ runner'.at = "refresh"
          /\ runner'.pin = NoPin /\ runner'.service = s
      <3>1. Down \in RunnerRecords /\ Down.pin = NoPin
        BY DownRecord
      <3> DEFINE r1 == [Down EXCEPT !.at = "refresh", !.starting = TRUE]
                 r2 == [r1 EXCEPT !.native = n]
      <3>2. r1 \in RunnerRecords /\ r1.at = "refresh" /\ r1.pin = NoPin
        BY <3>1 DEF RunnerRecords
      <3>3. runner' = [r2 EXCEPT !.service = s]
        BY <2>1, Zenon
      <3> HIDE DEF r1
      <3>4. r2 \in RunnerRecords /\ r2.at = "refresh" /\ r2.pin = NoPin
        BY <2>3, <3>2 DEF RunnerRecords
      <3> HIDE DEF r2
      <3> QED
        BY <2>2, <3>3, <3>4 DEF RunnerRecords
    <2>5. RunnerFits'
      BY <2>2, <2>4 DEF RunnerFits
    <2>6. ServerFits'
      BY <1>1, <2>1, ServerStays
    <2> QED
      BY <1>1, <1>2, <2>5, <2>6, RunnerStep
  <1> QED
    BY <1>3, <1>4

LEMMA ReconnectKeeps ==
  ASSUME VaultInv, ReconnectSession
  PROVE  VaultInv'
  <1>1. /\ runner' = [runner EXCEPT !.at = "refresh"]
        /\ job.at \notin {"claimed", "checked"}
        /\ UNCHANGED <<disk, holder, cli, server, job, fresh, ledger>>
    BY DEF ReconnectSession
  <1>2. /\ runner' \in RunnerRecords /\ runner'.at = "refresh"
        /\ runner'.service = runner.service /\ runner'.pin = runner.pin
    BY <1>1 DEF VaultInv, RunnerFits, RunnerRecords
  <1>3. RunnerFits'
    BY <1>2 DEF VaultInv, RunnerFits
  <1>4. JobFits' /\ ServerFits'
    BY <1>1, JobStays, ServerStays
  <1> QED
    BY <1>1, <1>3, <1>4, RunnerStep

LEMMA RefreshReadsKeeps ==
  ASSUME VaultInv, RefreshReads
  PROVE  VaultInv'
  <1> DEFINE pin == Pin(disk)
  <1>1. /\ runner' = [runner EXCEPT !.at = "sending", !.ready = FALSE,
                        !.pin = NoPin, !.snapshot = pin]
        /\ runner.at = "refresh" /\ Unlocked(runner.service)
        /\ UNCHANGED <<disk, holder, cli, server, job, fresh, ledger>>
    BY DEF RefreshReads
  <1>2. /\ VaultFits(disk) /\ runner \in RunnerRecords
        /\ runner.service.key = runner.service.id /\ runner.service.key # 0
        /\ runner.service.id = disk.id
    BY <1>1 DEF VaultInv, Unlocked, Exists, RunnerFits
  <1>3. pin \in PinRecords /\ PinWasHeld(pin, disk) /\ pin.id = disk.id
    BY <1>2 DEF Pin, VaultFits, VaultRecords, DigestHolds, DigestOf, PinWasHeld
  <1> HIDE DEF pin
  <1>4. /\ runner' \in RunnerRecords /\ runner'.at = "sending"
        /\ runner'.pin = NoPin /\ runner'.snapshot = pin
        /\ runner'.service = runner.service
    <2> DEFINE r1 == [runner EXCEPT !.at = "sending", !.ready = FALSE]
    <2>1. /\ r1 \in RunnerRecords /\ r1.at = "sending"
          /\ r1.service = runner.service
      BY <1>2 DEF RunnerRecords
    <2>2. runner' = [r1 EXCEPT !.pin = NoPin, !.snapshot = pin]
      BY <1>1, Zenon
    <2> HIDE DEF r1
    <2> QED
      BY <1>3, <2>1, <2>2, NoVaultRecord DEF RunnerRecords
  <1>5. RunnerFits'
    BY <1>1, <1>2, <1>3, <1>4 DEF RunnerFits
  <1>6. JobFits' /\ ServerFits'
    BY <1>1, JobStays, ServerStays DEF VaultInv, JobFits
  <1> QED
    BY <1>1, <1>5, <1>6, RunnerStep

\* The snapshot of a refresh in flight, sent by a Runner without a run.
LEMMA Sending ==
  ASSUME VaultInv, runner.at = "sending"
  PROVE  /\ runner \in RunnerRecords /\ runner.snapshot \in PinRecords
         /\ PinWasHeld(runner.snapshot, disk)
         /\ runner.service \in ServiceRecords
         /\ runner.service.key = runner.service.id /\ runner.service.key # 0
         /\ runner.snapshot.id = runner.service.id
         /\ job.at \notin {"claimed", "checked"}
  BY DEF VaultInv, RunnerFits, RunnerRecords, JobFits

LEMMA RefreshEndsKeeps ==
  ASSUME VaultInv, RefreshEnds
  PROVE  VaultInv'
  <1> DEFINE s == [runner.service EXCEPT !.pin = runner.snapshot]
             now == IsReady(s)
  <1>1. /\ runner' = [runner EXCEPT !.at = "session", !.starting = FALSE,
                        !.service = s, !.pin = runner.snapshot, !.ready = now]
        /\ runner.at = "sending" /\ server' = Accepted(runner.snapshot)
        /\ UNCHANGED <<disk, holder, cli, job, fresh, ledger>>
    BY DEF RefreshEnds
  <1>2. now \in BOOLEAN
    BY DEF IsReady
  <1>3. /\ s \in ServiceRecords /\ s.key = s.id /\ s.key # 0
        /\ s.pin = runner.snapshot /\ s.id = runner.snapshot.id
    BY <1>1, Sending DEF ServiceRecords
  <1> HIDE DEF s, now
  <1>4. /\ runner' \in RunnerRecords /\ runner'.at = "session"
        /\ runner'.pin = runner.snapshot /\ runner'.service = s
    <2> DEFINE r1 == [runner EXCEPT !.at = "session", !.starting = FALSE]
               r2 == [r1 EXCEPT !.service = s, !.pin = runner.snapshot]
    <2>1. r1 \in RunnerRecords /\ r1.at = "session"
      BY <1>1, Sending DEF RunnerRecords
    <2>2. runner' = [r2 EXCEPT !.ready = now]
      BY <1>1, Zenon
    <2> HIDE DEF r1
    <2>3. /\ r2 \in RunnerRecords /\ r2.at = "session" /\ r2.service = s
          /\ r2.pin = runner.snapshot
      BY <1>1, <1>3, <2>1, Sending DEF RunnerRecords
    <2> HIDE DEF r2
    <2> QED
      BY <1>2, <2>2, <2>3 DEF RunnerRecords
  <1>5. RunnerFits'
    BY <1>3, <1>4 DEF RunnerFits
  <1>6. JobFits' /\ ServerFits'
    BY <1>1, Sending, JobStays, SnapshotAccepted
  <1> QED
    BY <1>1, <1>5, <1>6, RunnerStep

LEMMA RefreshFailsKeeps ==
  ASSUME VaultInv, RefreshFails
  PROVE  VaultInv'
  <1>1. /\ runner.at = "sending"
        /\ UNCHANGED <<disk, holder, cli, job, fresh, ledger>>
        /\ server' = server \/ server' = Accepted(runner.snapshot)
    BY DEF RefreshFails
  <1>2. PICK at \in {"session", "refresh"} :
           \/ runner' = Down
           \/ runner' = [runner EXCEPT !.starting = FALSE, !.at = at]
    <2>1. \/ runner' = Down
          \/ runner' = [runner EXCEPT !.starting = FALSE, !.at = "session"]
          \/ runner' = [runner EXCEPT !.starting = FALSE, !.at = "refresh"]
      <3>1. \/ runner' = IF runner.starting
                         THEN [runner EXCEPT !.at = "session",
                                             !.starting = FALSE]
                         ELSE Down
            \/ runner' = [runner EXCEPT !.starting = FALSE,
                            !.at = IF runner.at = "sending" /\ runner.starting
                                   THEN "session" ELSE "refresh"]
        BY Zenon DEF RefreshFails
      <3> DEFINE later == IF runner.at = "sending" /\ runner.starting
                         THEN "session" ELSE "refresh"
      <3>2. later \in {"session", "refresh"}
        OBVIOUS
      <3>3. \/ runner' = Down
            \/ runner' = [runner EXCEPT !.at = "session", !.starting = FALSE]
            \/ runner' = [runner EXCEPT !.starting = FALSE, !.at = later]
        BY <3>1, Zenon
      <3> HIDE DEF later
      <3>4. [runner EXCEPT !.at = "session", !.starting = FALSE]
              = [runner EXCEPT !.starting = FALSE, !.at = "session"]
        BY <1>1, Sending DEF RunnerRecords
      <3> QED
        BY <3>2, <3>3, <3>4, Zenon
    <2> QED
      BY <2>1
  <1>3. RunnerFits'
    <2>1. CASE runner' = Down
      BY <2>1, DownRecord DEF RunnerFits
    <2>2. CASE runner' = [runner EXCEPT !.starting = FALSE, !.at = at]
      <3>1. /\ runner' \in RunnerRecords /\ runner'.at = at
            /\ runner'.service = runner.service /\ runner'.pin = runner.pin
        BY <1>1, <2>2, Sending DEF RunnerRecords
      <3> QED
        BY <3>1 DEF VaultInv, RunnerFits
    <2> QED
      BY <1>2, <2>1, <2>2
  <1>4. JobFits' /\ ServerFits'
    BY <1>1, Sending, JobStays, ServerStays, SnapshotAccepted
  <1> QED
    BY <1>1, <1>3, <1>4, RunnerStep

LEMMA RunnerStopKeeps ==
  ASSUME VaultInv, RunnerStops
  PROVE  VaultInv'
  <1>1. /\ runner' = Down
        /\ UNCHANGED <<disk, holder, cli, server, fresh, ledger>>
        /\ \/ job.at \in {"claimed", "checked"} /\ job' = NoJob
           \/ job.at \notin {"claimed", "checked"} /\ job' = job
    BY DEF RunnerStops
  <1>2. RunnerFits' /\ ServerFits'
    BY <1>1, DownRecord, ServerStays DEF RunnerFits
  <1>3. JobFits'
    <2>1. CASE job' = NoJob
      BY <2>1, NoJobRecord DEF JobFits, NoJob, RunGetsPinnedSecrets, RefusedOnlyAfterChange
    <2>2. CASE job' = job /\ job.at \notin {"claimed", "checked"}
      BY <1>1, <2>2, JobStays
    <2> QED
      BY <1>1, <2>1, <2>2
  <1> QED
    BY <1>1, <1>2, <1>3, RunnerStep

\* The steps of a run leave everything else alone.
LEMMA JobStep ==
  ASSUME VaultInv, UNCHANGED <<disk, holder, cli, runner, server, fresh,
                               ledger>>, JobFits'
  PROVE  VaultInv'
  <1>1. RunnerFits' /\ ServerFits'
    BY ServerStays DEF VaultInv, RunnerFits, PinWasHeld
  <1> QED
    BY <1>1, RunnerStep

\* A Runner that has claimed a run has the key and the pin of the vault, as
\* long as the vault is the one the run was pinned to.
LEMMA ClaimedIsReady ==
  ASSUME VaultInv, job.at \in {"claimed", "checked"}, Pin(disk) = job.pin
  PROVE  /\ IsReady(runner.service) /\ Unlocked(runner.service)
         /\ Decryptable(disk, runner.service.key)
  <1>1. job.pin \in PinRecords /\ 1 <= job.pin.revision /\ job.pin = runner.pin
    BY DEF VaultInv, JobFits, PinWasHeld
  <1>2. runner.pin # NoPin
    BY <1>1, NoVaultRecord
  <1>3. /\ runner.service.pin = runner.pin /\ runner.service.key # 0
        /\ runner.service.key = runner.service.id
        /\ runner.pin.id = runner.service.id
    BY <1>2 DEF VaultInv, RunnerFits
  <1>4. disk # NoVault
    BY <1>1, NoVaultRecord DEF Pin, NoVault
  <1>5. VaultFits(disk)
    BY <1>4 DEF VaultInv
  <1>6. Pin(disk).id = disk.id
    BY <1>5 DEF VaultFits, DigestHolds, DigestOf, Pin
  <1> QED
    BY <1>1, <1>2, <1>3, <1>4, <1>5, <1>6
    DEF IsReady, Unlocked, Exists, VaultFits

LEMMA DispatchKeeps ==
  ASSUME VaultInv, Dispatch
  PROVE  VaultInv'
  <1>1. /\ job' = [NoJob EXCEPT !.at = "queued", !.pin = server.pin]
        /\ server.status = "ready"
        /\ UNCHANGED <<disk, holder, cli, runner, server, fresh, ledger>>
    BY DEF Dispatch
  <1>2. job' \in JobRecords /\ job'.at = "queued" /\ job'.pin = server.pin
    BY <1>1, NoJobRecord DEF JobRecords, VaultInv, ServerFits
  <1>3. server.pin \in PinRecords /\ PinWasHeld(server.pin, disk)
    BY <1>1 DEF VaultInv, ServerFits, PinRecords, PinWasHeld
  <1>4. JobFits'
    BY <1>1, <1>2, <1>3
    DEF JobFits, PinWasHeld, RunGetsPinnedSecrets, RefusedOnlyAfterChange
  <1> QED
    BY <1>1, <1>4, JobStep

\* A run that moves on with its pin, or is over.
LEMMA RunEndsKeeps ==
  ASSUME VaultInv, RunEnds
  PROVE  VaultInv'
  <1>1. JobFits'
    BY NoJobRecord
    DEF RunEnds, JobFits, NoJob, RunGetsPinnedSecrets,
           RefusedOnlyAfterChange
  <1> QED
    BY <1>1, JobStep DEF RunEnds

LEMMA ClaimKeeps ==
  ASSUME VaultInv, Claim
  PROVE  VaultInv'
  <1>1. /\ job.at = "queued" /\ runner.at = "session"
        /\ UNCHANGED <<disk, holder, cli, runner, server, fresh, ledger>>
        /\ job' = IF PinsAgree THEN [job EXCEPT !.at = "claimed"] ELSE NoJob
    BY DEF Claim
  <1>2. CASE PinsAgree
    <2>1. job' \in JobRecords /\ job'.at = "claimed" /\ job'.pin = job.pin
      BY <1>1, <1>2, JobRecord DEF JobRecords
    <2>2. JobFits'
      BY <1>1, <1>2, <2>1
      DEF VaultInv, JobFits, PinWasHeld, PinsAgree, RunGetsPinnedSecrets,
          RefusedOnlyAfterChange
    <2> QED
      BY <1>1, <2>2, JobStep
  <1>3. CASE ~PinsAgree
    <2>1. JobFits'
      BY <1>1, <1>3, NoJobRecord
      DEF JobFits, NoJob, RunGetsPinnedSecrets, RefusedOnlyAfterChange
    <2> QED
      BY <1>1, <2>1, JobStep
  <1> QED
    BY <1>2, <1>3

LEMMA CheckReadyKeeps ==
  ASSUME VaultInv, CheckReady
  PROVE  VaultInv'
  <1>1. /\ job.at = "claimed"
        /\ UNCHANGED <<disk, holder, cli, runner, server, fresh, ledger>>
        /\ \/ IsReady(runner.service) /\ job' = [job EXCEPT !.at = "checked"]
           \/ ~IsReady(runner.service) /\ job' = [job EXCEPT !.at = "refused"]
    BY DEF CheckReady
  <1>2. /\ job' \in JobRecords
        /\ job'.pin = job.pin /\ job'.at \in {"checked", "refused"}
        /\ job'.at = "refused" => Pin(disk) # job.pin
    BY <1>1, ClaimedIsReady, JobRecord DEF JobRecords
  <1>3. JobFits'
    BY <1>1, <1>2
    DEF VaultInv, JobFits, PinWasHeld, RunGetsPinnedSecrets,
        RefusedOnlyAfterChange, Pin
  <1> QED
    BY <1>1, <1>3, JobStep

(* The read: the values of the inventory the run was pinned to.            *)
LEMMA AcquireKeeps ==
  ASSUME VaultInv, Acquire
  PROVE  VaultInv'
  <1> DEFINE got == [a \in Aliases |-> disk.records[a].version]
  <1>1. /\ job.at = "checked"
        /\ UNCHANGED <<disk, holder, cli, runner, server, fresh, ledger>>
    BY DEF Acquire
  <1>2. got \in [Aliases -> Nat]
    BY DEF VaultInv, VaultRecords, SecretRecords
  <1>3. CASE /\ Unlocked(runner.service) /\ PinHolds
             /\ job' = [job EXCEPT !.at = "served", !.got = got]
    <2>1. /\ job' \in JobRecords
          /\ job'.at = "served" /\ job'.pin = job.pin /\ job'.got = got
      BY <1>3, <1>2, JobRecord DEF JobRecords
    <2>2. job.pin.entries = got
      BY <1>3 DEF Unlocked, DigestHolds, DigestOf, PinHolds, Pin
    <2> QED
      BY <1>1, <2>1, <2>2, JobStep
      DEF VaultInv, JobFits, PinWasHeld, RunGetsPinnedSecrets,
          RefusedOnlyAfterChange
  <1>4. CASE /\ ~(/\ Unlocked(runner.service) /\ PinHolds
                  /\ Decryptable(disk, runner.service.key))
             /\ job' = [job EXCEPT !.at = "refused"]
    <2>1. Pin(disk) # job.pin
      BY <1>1, <1>4, ClaimedIsReady DEF PinHolds
    <2>2. job' \in JobRecords /\ job'.at = "refused" /\ job'.pin = job.pin
      BY <1>4, JobRecord DEF JobRecords
    <2> QED
      BY <1>1, <2>1, <2>2, JobStep
      DEF VaultInv, JobFits, PinWasHeld, RunGetsPinnedSecrets,
          RefusedOnlyAfterChange, Pin
  <1> QED
    BY <1>3, <1>4 DEF Acquire

LEMMA VaultKeeps == VaultInv /\ [VaultNext]_vaultVars => VaultInv'
  <1> SUFFICES ASSUME VaultInv, [VaultNext]_vaultVars PROVE VaultInv'
    OBVIOUS
  <1>1. CASE UNCHANGED vaultVars
    <2>1. JobFits'
      BY <1>1, JobStays DEF vaultVars
    <2> QED
      BY <1>1, <2>1, JobStep DEF vaultVars
  <1>2. ASSUME NEW c \in Commands,
               \/ \E cmd \in {"init", "set", "remove", "migrate"} :
                    BeginCommand(c, cmd)
               \/ InitializeVault(c) \/ Unlock(c) \/ SetSecret(c)
               \/ RemoveSecret(c) \/ BeginMigration(c) \/ TakeLock(c)
               \/ Replace(c) \/ ReadInventory(c) \/ CliSynchronizes(c)
               \/ GivesUp(c)
        PROVE  VaultInv'
    BY <1>2, BeginKeeps, InitializeVaultKeeps, UnlockKeeps, SetSecretKeeps,
       RemoveSecretKeeps, BeginMigrationKeeps, TakeLockKeeps, ReplaceKeeps,
       ReadInventoryKeeps, CommandEndKeeps
  <1>3. CASE \/ PrepareWithoutSecrets \/ PrepareUnlocked \/ ReconnectSession
             \/ RefreshReads \/ RefreshEnds \/ RefreshFails \/ RunnerStops
    BY <1>3, PrepareKeeps, ReconnectKeeps, RefreshReadsKeeps,
       RefreshEndsKeeps, RefreshFailsKeeps, RunnerStopKeeps
  <1>4. CASE Dispatch \/ Claim \/ CheckReady \/ Acquire \/ RunEnds
    BY <1>4, DispatchKeeps, ClaimKeeps, CheckReadyKeeps, AcquireKeeps, RunEndsKeeps
  <1> QED
    BY <1>1, <1>2, <1>3, <1>4 DEF VaultNext

(* The inventory changes only by an accepted snapshot or a status report.  *)
LEMMA InventoryStep ==
  ASSUME VaultInv, [VaultNext]_vaultVars PROVE InventoryMovesForward
  <1>1. server.pin.revision \in Nat
    BY DEF VaultInv, ServerFits, PinRecords
  <1>2. CASE server'.pin = server.pin
    <2>1. server.pin.revision <= server.pin.revision
      BY <1>1
    <2> QED
      BY <1>2, <2>1 DEF InventoryMovesForward
  <1>3. ASSUME NEW pin \in PinRecords, Accepts(pin), server' = Accepted(pin)
        PROVE  InventoryMovesForward
    <2>1. server'.pin = pin /\ pin.revision \in Nat
      BY <1>3 DEF Accepted, PinRecords
    <2>2. CASE server = NoInventory
      BY <2>1, <2>2, NoVaultRecord DEF InventoryMovesForward, NoInventory
    <2>3. CASE server # NoInventory
      BY <1>1, <1>3, <2>1, <2>3 DEF InventoryMovesForward, Accepts, NotOlder
    <2> QED
      BY <2>2, <2>3
  <1>4. CASE \E c \in Commands : CliSynchronizes(c)
    <2>1. PICK c \in Commands : CliSynchronizes(c)
      BY <1>4
    <2>2. cli[c].snapshot \in PinRecords
      BY OnDisk DEF CommandRecords
    <2> QED
      BY <1>3, <2>1, <2>2 DEF CliSynchronizes
  <1>5. CASE RefreshEnds \/ RefreshFails
    <2>1. /\ runner.at = "sending"
          /\ \/ server' = server
             \/ /\ Accepts(runner.snapshot)
                /\ server' = Accepted(runner.snapshot)
      BY <1>5 DEF RefreshEnds, RefreshFails
    <2> QED
      BY <1>2, <1>3, <2>1, Sending
  <1>6. CASE PrepareWithoutSecrets
    <2>1. disk' = disk /\ server' = StatusReported(StoreStatus)
      BY <1>6 DEF PrepareWithoutSecrets
    <2>2. StoreStatus \in {"locked", "unavailable"}
      BY DEF StoreStatus
    <2> QED
      BY <1>2, <2>1, <2>2, StatusKept
  <1>7. CASE UNCHANGED server
    BY <1>2, <1>7
  <1> QED
    BY <1>4, <1>5, <1>6, <1>7
    DEF VaultNext, vaultVars, BeginCommand, InitializeVault, Unlock,
        SetSecret, RemoveSecret, BeginMigration, TakeLock, Replace,
        ReadInventory, GivesUp, PrepareUnlocked, ReconnectSession,
        RefreshReads, RunnerStops, Dispatch, Claim, CheckReady, Acquire,
        RunEnds

(***************************************************************************)
(* However many commands, revisions, crashes and Runner starts there are:  *)
(* the vault opens with its own protector and its key decrypts every       *)
(* record, no command silently overwrites another's change, a run is given *)
(* exactly the versions its pinned inventory lists and refused only when   *)
(* the vault has changed since, and the inventory the control plane keeps  *)
(* never goes back (commitMutation, acquireValues, synchronize).           *)
(***************************************************************************)
THEOREM SecretsKeptSoundly == VaultSpec => SecretsAreSound
  <1>1. VaultInv => /\ VaultOpens /\ NoSilentOverwrite
                    /\ RunGetsPinnedSecrets /\ RefusedOnlyAfterChange
    BY DEF VaultInv, VaultOpens, VaultFits, Exists, JobFits
  <1>2. VaultInv /\ [VaultNext]_vaultVars =>
          [InventoryMovesForward]_vaultVars
    BY InventoryStep
  <1> QED
    BY <1>1, <1>2, VaultStarts, VaultKeeps, PTL DEF VaultSpec, SecretsAreSound
===============================================================================
