------------------------ MODULE WorkflowEngineProofs ------------------------
(***************************************************************************)
(* Proofs about WorkflowEngine for every workflow, every recovery mode and *)
(* every deadline.                                                         *)
(*                                                                         *)
(* They rest on two inductive invariants.  EngineInv is about the order of *)
(* the steps, the approval gate, the arbiter and the deadline.  OutcomeInv *)
(* is about how an execution ends: that no effect is produced twice, that  *)
(* the result says what the steps went through, and that every status the  *)
(* engine announces is one its tables allow.  Where the function is (pc)   *)
(* determines what the run and the current step have announced, which      *)
(* causes can be with the arbiter, and which attempts are on record.       *)
(***************************************************************************)
EXTENDS WorkflowEngine, WellFoundedInduction, SequenceTheorems, TLAPS

-----------------------------------------------------------------------------
(* The arbiter                                                             *)

(* Every non-empty set of natural numbers has a least element.             *)
LEMMA LeastNatural ==
  ASSUME NEW T, T \subseteq Nat, T # {}
  PROVE  \E x \in T : \A y \in T : x <= y
  <1>1. PICK x \in T : \A y \in T : ~(<<y, x>> \in OpToRel(<, Nat))
    BY NatLessThanWellFounded, WFMin
  <1>2. \A y \in T : ~(y < x)
    BY <1>1 DEF OpToRel
  <1> QED
    BY <1>2

(* A tie priority is a number, and the deadline's is the only smallest.    *)
LEMMA PriorityType ==
  ASSUME NEW cause \in RacingCause
  PROVE  /\ TIE_PRIORITY(cause) \in 0..2
         /\ TIE_PRIORITY(cause) = 0 => cause = "total_timeout"
  BY DEF TIE_PRIORITY

(* The sort of the candidates has a first element.                         *)
LEMMA WinnerExists ==
  ASSUME NEW cs \in Seq(Candidate), cs # <<>>
  PROVE  \E i \in DOMAIN cs : \A j \in DOMAIN cs : Precedes(i, j, cs)
  <1> DEFINE prio(k) == TIE_PRIORITY(cs[k].cause)
  <1>1. /\ \A k \in DOMAIN cs : cs[k] \in Candidate
        /\ DOMAIN cs \subseteq Nat
        /\ DOMAIN cs # {}
    <2>1. DOMAIN cs = 1..Len(cs) /\ Len(cs) \in Nat
      OBVIOUS
    <2>2. Len(cs) # 0
      OBVIOUS
    <2>3. 1 \in DOMAIN cs
      BY <2>1, <2>2
    <2> QED
      BY <2>1, <2>3
  <1>2. \A k \in DOMAIN cs : cs[k].at \in Nat /\ prio(k) \in Nat
    BY <1>1, PriorityType DEF Candidate
  <1> HIDE DEF prio
  <1>3. PICK a \in {cs[k].at : k \in DOMAIN cs} :
               \A b \in {cs[k].at : k \in DOMAIN cs} : a <= b
    <2>1. {cs[k].at : k \in DOMAIN cs} # {}
      BY <1>1
    <2> QED
      BY <1>2, <2>1, LeastNatural
  <1> DEFINE earliest == {k \in DOMAIN cs : cs[k].at = a}
  <1>4. PICK p \in {prio(k) : k \in earliest} :
               \A q \in {prio(k) : k \in earliest} : p <= q
    <2>1. {prio(k) : k \in earliest} # {}
      BY <1>3
    <2> QED
      BY <1>2, <2>1, LeastNatural
  <1> DEFINE first == {k \in earliest : prio(k) = p}
  <1>5. PICK i \in first : \A j \in first : i <= j
    <2>1. first # {} /\ first \subseteq Nat
      BY <1>1, <1>4
    <2> QED
      BY <2>1, LeastNatural
  <1>6. ASSUME NEW j \in DOMAIN cs
        PROVE  Precedes(i, j, cs)
    <2>1. a <= cs[j].at
      BY <1>3
    <2>2. CASE cs[j].at # a
      BY <2>1, <2>2, <1>2, <1>5 DEF Precedes
    <2>3. CASE cs[j].at = a
      <3>1. prio(i) = p /\ p <= prio(j)
        BY <2>3, <1>4, <1>5
      <3>2. prio(j) = p => i <= j
        BY <2>3, <1>5
      <3> QED
        BY <2>3, <3>1, <3>2, <1>1, <1>2, <1>5 DEF Precedes, prio
    <2> QED
      BY <2>2, <2>3
  <1> QED
    BY <1>5, <1>6

(* lockWinner keeps a winner, finds one whenever there is a candidate, and *)
(* the one it finds sorts before every other.                              *)
LEMMA LockWinner ==
  ASSUME NEW cs \in Seq(Candidate), locked \in Candidate \cup {NoCause}
  PROVE  /\ lockWinner(cs) \in Candidate \cup {NoCause}
         /\ locked # NoCause => lockWinner(cs) = locked
         /\ lockWinner(cs) = NoCause <=> locked = NoCause /\ cs = <<>>
         /\ locked = NoCause /\ cs # <<>> =>
              \E i \in DOMAIN cs :
                /\ lockWinner(cs) = cs[i]
                /\ \A j \in DOMAIN cs : Precedes(i, j, cs)
  <1>1. NoCause \notin Candidate
    BY DEF NoCause, Candidate, RacingCause
  <1>2. CASE locked # NoCause
    BY <1>1, <1>2 DEF lockWinner
  <1>3. CASE locked = NoCause /\ cs = <<>>
    BY <1>3 DEF lockWinner
  <1>4. CASE locked = NoCause /\ cs # <<>>
    <2> DEFINE i == CHOOSE i \in DOMAIN cs : \A j \in DOMAIN cs : Precedes(i, j, cs)
    <2>1. i \in DOMAIN cs /\ \A j \in DOMAIN cs : Precedes(i, j, cs)
      BY <1>4, WinnerExists
    <2>2. lockWinner(cs) = cs[i]
      BY <1>4 DEF lockWinner
    <2>3. cs[i] \in Candidate
      BY <2>1
    <2> HIDE DEF i
    <2> QED
      BY <1>1, <1>4, <2>1, <2>2, <2>3
  <1> QED
    BY <1>2, <1>3, <1>4

-----------------------------------------------------------------------------
(* The inductive invariant                                                 *)

(* The loop walks the steps: those behind it succeeded, approvals among    *)
(* them with a granted answer, and those ahead of it are untouched.        *)
Walked ==
  /\ \A i \in Steps : i < current =>
       /\ status[i] = "succeeded"
       /\ workflow[i] = "approval" => answer[i] = "approved"
  /\ \A i \in Steps : i > current =>
       /\ status[i] \in {"pending", "skipped"}
       /\ attempts[i] = <<>>

InStep ==
  {"approvalHead", "awaitingApproval", "approvalAnswered", "attemptHead",
   "executing", "awaitingRepair", "repairAnswered", "settle"}

(* Where the function is says what kind of step it is at, and that an      *)
(* attempt is open.                                                        *)
AtStep ==
  /\ pc \in InStep => current \in Steps
  /\ pc \in {"approvalHead", "awaitingApproval", "approvalAnswered"} =>
       workflow[current] = "approval"
  /\ pc \in {"attemptHead", "executing", "awaitingRepair", "repairAnswered"} =>
       workflow[current] # "approval"
  /\ pc \in {"awaitingApproval", "approvalAnswered", "executing"} =>
       attempts[current] # <<>>
  /\ pc \in {"new", "validating", "cancelling"} => current = 1

(* Something is known to end the run.                                      *)
Ending == stepError # "none" \/ locked # NoCause \/ candidates # <<>>

(* An approval step that is being settled was not granted.                 *)
RefusedIsEnding == pc = "settle" /\ workflow[current] = "approval" => Ending

(* An abort that was heard is with the arbiter.                            *)
AbortRecorded ==
  signal /\ pc \notin {"new", "validating", "cancelling", "stopping", "done"}
    => locked # NoCause \/ candidates # <<>>

(* No cause is dated in the future.                                        *)
CandidatesPast == \A k \in DOMAIN candidates : candidates[k].at <= now

EngineInv ==
  /\ TypeOK
  /\ Walked
  /\ AtStep
  /\ RefusedIsEnding
  /\ AbortRecorded
  /\ CandidatesPast
  /\ DeadlineWins

-----------------------------------------------------------------------------
(* What the arbiter's operations preserve                                  *)

(* cs is a list of candidates none of which is dated after now.            *)
Recorded(cs) ==
  /\ cs \in Seq(Candidate)
  /\ \A k \in DOMAIN cs : cs[k].at <= now

(* cs holds the deadline if it has passed and nothing was chosen yet.      *)
DeadlineNoticed(cs) ==
  locked = NoCause /\ now >= Deadline =>
    \E k \in DOMAIN cs : cs[k] = [cause |-> "total_timeout", at |-> Deadline]

(* Recording a present or past cause adds it to the list, or drops it once *)
(* a winner is locked.                                                     *)
LEMMA RecordFacts ==
  ASSUME NEW cs, Recorded(cs), now \in Nat,
         NEW cause \in RacingCause, NEW at \in Nat, at <= now
  PROVE  /\ Recorded(record(cs, cause, at))
         /\ cs # <<>> \/ locked = NoCause => record(cs, cause, at) # <<>>
         /\ \A k \in DOMAIN cs : /\ k \in DOMAIN record(cs, cause, at)
                                 /\ record(cs, cause, at)[k] = cs[k]
         /\ locked = NoCause =>
              \E k \in DOMAIN record(cs, cause, at) :
                record(cs, cause, at)[k] = [cause |-> cause, at |-> at]
  <1> DEFINE c == [cause |-> cause, at |-> at]
  <1>1. CASE locked # NoCause
    BY <1>1 DEF Recorded, record
  <1>2. CASE locked = NoCause
    <2>1. record(cs, cause, at) = Append(cs, c)
      BY <1>2 DEF record
    <2>2. c \in Candidate /\ c.at <= now /\ cs \in Seq(Candidate)
      BY DEF Candidate, Recorded
    <2> HIDE DEF c
    <2>3. /\ Append(cs, c) \in Seq(Candidate)
          /\ Append(cs, c) # <<>>
          /\ Len(Append(cs, c)) = Len(cs) + 1
          /\ \A i \in 1..Len(cs) : Append(cs, c)[i] = cs[i]
          /\ Append(cs, c)[Len(cs) + 1] = c
      BY <2>2, AppendProperties
    <2>4. DOMAIN cs = 1..Len(cs) /\ Len(cs) \in Nat
      BY <2>2
    <2>5. DOMAIN Append(cs, c) = 1..(Len(cs) + 1)
      BY <2>3
    <2>6. \A k \in DOMAIN Append(cs, c) : k \in DOMAIN cs \/ k = Len(cs) + 1
      BY <2>4, <2>5
    <2>7. \A k \in DOMAIN Append(cs, c) : Append(cs, c)[k].at <= now
      BY <2>2, <2>3, <2>4, <2>6 DEF Recorded
    <2>8. /\ \A k \in DOMAIN cs : k \in DOMAIN Append(cs, c)
          /\ Len(cs) + 1 \in DOMAIN Append(cs, c)
      BY <2>4, <2>5
    <2> QED
      BY <2>1, <2>3, <2>4, <2>7, <2>8 DEF Recorded, c
  <1> QED
    BY <1>1, <1>2

(* Looking at the clock keeps the list and notices the deadline.           *)
LEMMA DeadlineFacts ==
  ASSUME NEW cs, Recorded(cs), now \in Nat
  PROVE  /\ Recorded(recordDeadlineIfElapsed(cs))
         /\ cs # <<>> => recordDeadlineIfElapsed(cs) # <<>>
         /\ DeadlineNoticed(recordDeadlineIfElapsed(cs))
  <1>0. Deadline \in Nat /\ "total_timeout" \in RacingCause
    BY TimeAssumption DEF RacingCause
  <1>1. CASE now >= Deadline
    <2>1. recordDeadlineIfElapsed(cs) = record(cs, "total_timeout", Deadline)
      BY <1>1 DEF recordDeadlineIfElapsed
    <2> QED
      BY <1>0, <1>1, <2>1, RecordFacts DEF DeadlineNoticed
  <1>2. CASE ~(now >= Deadline)
    BY <1>2 DEF recordDeadlineIfElapsed, DeadlineNoticed
  <1> QED
    BY <1>1, <1>2

(* A cause chosen after the clock was looked at is the deadline, or came   *)
(* before it.                                                              *)
LEMMA WinnerBeforeDeadline ==
  ASSUME NEW cs, Recorded(cs), DeadlineNoticed(cs), now \in Nat,
         locked \in Candidate \cup {NoCause}, DeadlineWins,
         lockWinner(cs) # NoCause, lockWinner(cs).cause # "total_timeout"
  PROVE  lockWinner(cs).at < Deadline
  <1>0. cs \in Seq(Candidate) /\ Deadline \in Nat
    BY TimeAssumption DEF Recorded
  <1>1. CASE locked # NoCause
    BY <1>0, <1>1, LockWinner DEF DeadlineWins
  <1>2. CASE locked = NoCause
    <2>1. cs # <<>>
      BY <1>0, <1>2, LockWinner
    <2>2. PICK i \in DOMAIN cs : /\ lockWinner(cs) = cs[i]
                                /\ \A j \in DOMAIN cs : Precedes(i, j, cs)
      BY <1>0, <1>2, <2>1, LockWinner
    <2>3. cs[i] \in Candidate /\ cs[i].at <= now
      BY <1>0, <2>2 DEF Recorded
    <2>4. cs[i].at \in Nat /\ cs[i].cause \in RacingCause
      BY <2>3 DEF Candidate
    <2>5. CASE ~(now >= Deadline)
      BY <1>0, <2>2, <2>3, <2>4, <2>5
    <2>6. CASE now >= Deadline
      <3>1. PICK k \in DOMAIN cs :
              cs[k] = [cause |-> "total_timeout", at |-> Deadline]
        BY <1>2, <2>6 DEF DeadlineNoticed
      <3>2. TIE_PRIORITY("total_timeout") = 0
        BY DEF TIE_PRIORITY
      <3>3. TIE_PRIORITY(cs[i].cause) \in 0..2 /\ TIE_PRIORITY(cs[i].cause) # 0
        BY <2>2, <2>4, PriorityType
      <3>4. Precedes(i, k, cs)
        BY <2>2, <3>1
      <3>5. cs[k].at = Deadline /\ cs[k].cause = "total_timeout"
        BY <3>1
      <3> QED
        BY <1>0, <2>2, <2>4, <3>2, <3>3, <3>4, <3>5 DEF Precedes
    <2> QED
      BY <2>5, <2>6
  <1> QED
    BY <1>1, <1>2

-----------------------------------------------------------------------------
(* What every step does to the arbiter                                     *)

Known == locked # NoCause \/ candidates # <<>>

ArbiterMoves ==
  /\ candidates' \in Seq(Candidate)
  /\ locked' \in Candidate \cup {NoCause}
  /\ CandidatesPast'
  /\ DeadlineWins'
  /\ Known => Known'

(* Choosing the primary cause from a list that has seen the clock.         *)
LEMMA ChooseMoves ==
  ASSUME EngineInv, now' = now, NEW cs, Recorded(cs), DeadlineNoticed(cs),
         candidates # <<>> => cs # <<>>,
         NEW more, Recorded(more), cs # <<>> => more # <<>>,
         candidates' = more, locked' = lockWinner(cs)
  PROVE  /\ ArbiterMoves
         /\ locked' = NoCause => ~Known /\ now < Deadline
  <1>1. /\ now \in Nat /\ locked \in Candidate \cup {NoCause}
        /\ Deadline \in Nat /\ DeadlineWins
    BY TimeAssumption DEF EngineInv, TypeOK
  <1>2. cs \in Seq(Candidate)
    BY DEF Recorded
  <1>3. /\ locked' \in Candidate \cup {NoCause}
        /\ locked # NoCause => locked' # NoCause
        /\ locked' = NoCause <=> locked = NoCause /\ cs = <<>>
    BY <1>1, <1>2, LockWinner
  <1>4. DeadlineWins'
    BY <1>1, WinnerBeforeDeadline DEF DeadlineWins
  <1>5. candidates' \in Seq(Candidate) /\ CandidatesPast'
    BY DEF Recorded, CandidatesPast
  <1>6. locked' = NoCause => now < Deadline
    BY <1>1, <1>3 DEF DeadlineNoticed
  <1> QED
    BY <1>3, <1>4, <1>5, <1>6 DEF ArbiterMoves, Known

(* The list the engine holds has been recorded, and so has what a look at  *)
(* the clock makes of it.                                                  *)
LEMMA AtHand ==
  ASSUME EngineInv
  PROVE  /\ now \in Nat
         /\ Recorded(candidates)
         /\ Recorded(recordDeadlineIfElapsed(candidates))
         /\ DeadlineNoticed(recordDeadlineIfElapsed(candidates))
         /\ candidates # <<>> => recordDeadlineIfElapsed(candidates) # <<>>
  <1>1. now \in Nat /\ Recorded(candidates)
    BY TimeAssumption DEF EngineInv, TypeOK, CandidatesPast, Recorded
  <1> QED
    BY <1>1, DeadlineFacts

(* A list that already noticed the deadline may be added to.               *)
LEMMA RecordMore ==
  ASSUME NEW cs, Recorded(cs), DeadlineNoticed(cs), now \in Nat,
         NEW cause \in RacingCause
  PROVE  /\ Recorded(record(cs, cause, now))
         /\ DeadlineNoticed(record(cs, cause, now))
         /\ cs # <<>> \/ locked = NoCause => record(cs, cause, now) # <<>>
  <1>1. now <= now
    OBVIOUS
  <1> QED
    BY <1>1, RecordFacts DEF DeadlineNoticed

(* The causes the engine records itself.                                   *)
LEMMA CausesType ==
  /\ {"adapter_start_failed", "run_cancelled", "total_timeout", "step_failed",
      "step_timeout"} \subseteq RacingCause
  /\ \A d : approvalCause(d) \in RacingCause /\ repairCause(d) \in RacingCause
  BY DEF RacingCause, approvalCause, repairCause

(* No step records a cause at a wrong time or unseats a chosen one: the    *)
(* candidates stay causes recorded up to now, and the winner, once chosen, *)
(* is kept.                                                                *)
LEMMA ArbiterStep ==
  ASSUME EngineInv, [Next]_vars
  PROVE  ArbiterMoves
  <1> USE AtHand
  <1>0. ASSUME UNCHANGED arbiterVars, now' \in Nat, now' >= now
        PROVE  ArbiterMoves
    <2>1. candidates \in Seq(Candidate)
      BY DEF EngineInv, TypeOK
    <2>2. \A k \in DOMAIN candidates : candidates[k] \in Candidate
      BY <2>1
    <2>3. \A k \in DOMAIN candidates : candidates[k].at \in Nat
      BY <2>2 DEF Candidate
    <2> QED
      BY <1>0, <2>3 DEF EngineInv, TypeOK, arbiterVars, ArbiterMoves,
         CandidatesPast, DeadlineWins, Known
  <1>1. CASE Tick
    BY <1>0, <1>1 DEF Tick
  <1>2. CASE Timer
    <2>1. Deadline \in Nat /\ Deadline <= now /\ "total_timeout" \in RacingCause
      BY <1>2, TimeAssumption, CausesType DEF Timer
    <2>2. /\ Recorded(candidates')
          /\ candidates # <<>> => candidates' # <<>>
          /\ UNCHANGED <<locked, now>>
      BY <1>2, <2>1, RecordFacts DEF Timer
    <2> QED
      BY <2>2 DEF ArbiterMoves, EngineInv, TypeOK, Recorded, CandidatesPast,
         DeadlineWins, Known
  <1>3. CASE Abort
    <2>1. now <= now /\ "run_cancelled" \in RacingCause
      BY CausesType
    <2>2. /\ Recorded(candidates')
          /\ candidates # <<>> => candidates' # <<>>
          /\ UNCHANGED <<locked, now>>
      BY <1>3, <2>1, RecordFacts DEF Abort
    <2> QED
      BY <2>2 DEF ArbiterMoves, EngineInv, TypeOK, Recorded, CandidatesPast,
         DeadlineWins, Known
  <1>4. CASE Begin
    BY <1>0, <1>4 DEF Begin
  <1>5. CASE Preflight
    BY <1>0, <1>5 DEF Preflight
  <1>6. CASE Cancelled
    BY <1>0, <1>6 DEF Cancelled, clockVars
  <1>7. CASE StepHead
    <2>1. CASE UNCHANGED arbiterVars
      BY <1>0, <1>7, <2>1 DEF StepHead
    <2>2. CASE ChoosePrimary(recordDeadlineIfElapsed(candidates))
      BY <1>7, <2>2, ChooseMoves DEF StepHead, ChoosePrimary
    <2> QED
      BY <1>7, <2>1, <2>2 DEF StepHead
  <1>8. CASE RequestApproval
    BY <1>0, <1>8 DEF RequestApproval, clockVars
  <1>9. CASE ApprovalResumes
    <2> DEFINE cs == recordDeadlineIfElapsed(candidates)
    <2>1. approvalCause(answer[current]) \in RacingCause
      BY CausesType
    <2>2. /\ now' = now
          /\ locked' = lockWinner(cs)
          /\ \/ candidates' = cs
             \/ candidates' = record(cs, approvalCause(answer[current]), now)
      BY <1>9 DEF ApprovalResumes
    <2>3. Recorded(candidates') /\ (cs # <<>> => candidates' # <<>>)
      BY <2>1, <2>2, RecordMore
    <2> QED
      BY <2>2, <2>3, ChooseMoves
  <1>10. CASE AttemptHead
    BY <1>10, ChooseMoves DEF AttemptHead, ChoosePrimary
  <1>11. CASE RepairResumes
    <2> DEFINE cs == recordDeadlineIfElapsed(candidates)
    <2>1. repairCause(answer[current]) \in RacingCause
      BY CausesType
    <2>2. /\ now' = now
          /\ locked' = lockWinner(cs)
          /\ \/ candidates' = cs
             \/ candidates' = record(cs, repairCause(answer[current]), now)
      BY <1>11 DEF RepairResumes
    <2>3. Recorded(candidates') /\ (cs # <<>> => candidates' # <<>>)
      BY <2>1, <2>2, RecordMore
    <2> QED
      BY <2>2, <2>3, ChooseMoves
  <1>12. CASE Settle
    <2> DEFINE cs == recordDeadlineIfElapsed(candidates)
               cause == IF stepError = "timeout" THEN "step_timeout"
                                                 ELSE "step_failed"
    <2>1. cause \in RacingCause
      BY CausesType
    <2>2. /\ now' = now
          /\ candidates' = IF stepError = "none" THEN cs ELSE record(cs, cause, now)
          /\ locked' = lockWinner(candidates')
      BY <1>12 DEF Settle, ChoosePrimary
    <2> HIDE DEF cause
    <2>3. /\ Recorded(candidates')
          /\ DeadlineNoticed(candidates')
          /\ cs # <<>> => candidates' # <<>>
      BY <2>1, <2>2, RecordMore
    <2> QED
      BY <2>2, <2>3, ChooseMoves
  <1>13. CASE Finish
    BY <1>0, <1>13 DEF Finish
  <1>14. ASSUME NEW ok \in BOOLEAN, AdapterStarts(ok)
         PROVE  ArbiterMoves
    <2> DEFINE base == IF ok THEN candidates
                             ELSE record(candidates, "adapter_start_failed", now)
    <2>1. now <= now /\ "adapter_start_failed" \in RacingCause
      BY CausesType
    <2>2. Recorded(base) /\ (candidates # <<>> => base # <<>>)
      BY <2>1, RecordFacts
    <2>3. /\ Recorded(recordDeadlineIfElapsed(base))
          /\ DeadlineNoticed(recordDeadlineIfElapsed(base))
          /\ base # <<>> => recordDeadlineIfElapsed(base) # <<>>
      BY <2>2, DeadlineFacts
    <2>4. /\ now' = now
          /\ candidates' = recordDeadlineIfElapsed(base)
          /\ locked' = lockWinner(recordDeadlineIfElapsed(base))
      BY <1>14 DEF AdapterStarts, ChoosePrimary
    <2> QED
      BY <2>2, <2>3, <2>4, ChooseMoves
  <1>15. CASE StepSucceeds
    BY <1>0, <1>15 DEF StepSucceeds, clockVars
  <1>16. ASSUME NEW f \in StepFailure, StepFails(f)
         PROVE  ArbiterMoves
    BY <1>0, <1>16 DEF StepFails, clockVars
  <1>17. ASSUME NEW clean \in BOOLEAN, AdapterStops(clean)
         PROVE  ArbiterMoves
    BY <1>0, <1>17 DEF AdapterStops, clockVars
  <1>18. ASSUME NEW d \in ApprovalDecision, ApprovalAnswers(d)
         PROVE  ArbiterMoves
    BY <1>0, <1>18 DEF ApprovalAnswers, clockVars
  <1>19. CASE ApprovalRequestFails
    BY <1>0, <1>19 DEF ApprovalRequestFails, clockVars
  <1>20. ASSUME NEW d \in RepairDecision, RepairAnswers(d)
         PROVE  ArbiterMoves
    BY <1>0, <1>20 DEF RepairAnswers, clockVars
  <1>21. CASE RepairRequestFails
    BY <1>0, <1>21 DEF RepairRequestFails, clockVars
  <1>22. CASE UNCHANGED vars
    BY <1>0, <1>22 DEF vars, clockVars
  <1> QED
    BY <1>1, <1>2, <1>3, <1>4, <1>5, <1>6, <1>7, <1>8, <1>9, <1>10, <1>11,
       <1>12, <1>13, <1>14, <1>15, <1>16, <1>17, <1>18, <1>19, <1>20, <1>21,
       <1>22 DEF Next, Engine, Adapter, Coordinators

-----------------------------------------------------------------------------
(* What every step does to the records of the steps                        *)

(* The workflow is a non-empty sequence of step types.                     *)
LEMMA WorkflowType ==
  ASSUME TypeOK
  PROVE  /\ workflow \in Seq(StepType)
         /\ Len(workflow) \in Nat \ {0}
         /\ Steps = 1..Len(workflow)
         /\ current \in Nat
  <1>1. workflow \in Seq(StepType) /\ Len(workflow) > 0
    BY WorkflowsAssumption DEF TypeOK
  <1> QED
    BY <1>1 DEF TypeOK, Steps

(* Opening an attempt adds it to its step's list and to no other.          *)
LEMMA BeginAttempt ==
  ASSUME TypeOK, NEW i \in Steps, NEW t \in RetryTrigger, beginAttempt(i, t)
  PROVE  /\ attempts' \in [Steps -> Seq(Attempt)]
         /\ attempts'[i] # <<>>
         /\ \A j \in Steps : j # i => attempts'[j] = attempts[j]
  <1> DEFINE a == [trigger |-> t, status |-> "running", effect |-> "unknown"]
  <1>1. a \in Attempt
    BY DEF Attempt, StepAttemptStatus, EffectCertainty
  <1>2. attempts \in [Steps -> Seq(Attempt)] /\ attempts[i] \in Seq(Attempt)
    BY DEF TypeOK
  <1>3. attempts' = [attempts EXCEPT ![i] = Append(attempts[i], a)]
    BY DEF beginAttempt
  <1> HIDE DEF a
  <1>4. Append(attempts[i], a) \in Seq(Attempt) /\ Append(attempts[i], a) # <<>>
    BY <1>1, <1>2, AppendProperties
  <1> QED
    BY <1>2, <1>3, <1>4

(* Finishing an attempt rewrites the last of its step's list.              *)
LEMMA FinishAttempt ==
  ASSUME TypeOK, NEW i \in Steps, attempts[i] # <<>>,
         NEW st \in StepAttemptStatus, NEW eff \in EffectCertainty,
         finishAttempt(i, st, eff)
  PROVE  /\ attempts' \in [Steps -> Seq(Attempt)]
         /\ \A j \in Steps : j # i => attempts'[j] = attempts[j]
  <1> DEFINE n == Len(attempts[i])
             a == [trigger |-> LastAttempt(i).trigger, status |-> st,
                   effect |-> eff]
             s == [attempts[i] EXCEPT ![n] = a]
  <1>1. attempts \in [Steps -> Seq(Attempt)] /\ attempts[i] \in Seq(Attempt)
    BY DEF TypeOK
  <1>2. n \in 1..Len(attempts[i])
    <2>1. n \in Nat /\ n # 0
      BY <1>1
    <2> QED
      BY <2>1
  <1>3. attempts[i][n] \in Attempt
    BY <1>1, <1>2
  <1>4. a \in Attempt
    BY <1>3 DEF Attempt, LastAttempt
  <1>5. attempts' = [attempts EXCEPT ![i] = s]
    BY DEF finishAttempt
  <1> HIDE DEF a
  <1>6. s \in Seq(Attempt)
    BY <1>1, <1>2, <1>4, ExceptSeq
  <1> HIDE DEF s
  <1> QED
    BY <1>1, <1>5, <1>6

(* The statuses the helpers return.                                        *)
LEMMA StatusTypes ==
  /\ \A c : terminalStatusFor(c) \in TerminalEngineRunStatus \cap EngineStepStatus
  /\ \A c : stepStatusFor(c) \in EngineStepStatus
  /\ \A c : attemptStatusFor(c) \in StepAttemptStatus
  /\ \A d : approvalAttemptStatus(d) \in StepAttemptStatus
  /\ TerminalEngineRunStatus \subseteq EngineRunStatus
  /\ {"succeeded", "failed"} \subseteq StepAttemptStatus
  /\ {"completed", "read_only", "unknown"} \subseteq EffectCertainty
  /\ {"running", "succeeded", "skipped", "waiting_for_approval",
      "waiting_for_repair"} \subseteq EngineStepStatus
  /\ {"validating", "starting", "running", "cancelling", "cancelled", "failed",
      "waiting_for_approval", "waiting_for_repair"} \subseteq EngineRunStatus
  BY DEF terminalStatusFor, stepStatusFor, attemptStatusFor,
     approvalAttemptStatus, TerminalEngineRunStatus, EngineStepStatus,
     TerminalEngineStepStatus, EngineRunStatus, StepAttemptStatus,
     TerminalAttemptStatus, EffectCertainty

(* A failure's effect is an effect certainty, and its disposition one of   *)
(* the retry policy's.                                                     *)
LEMMA FailureTypes ==
  ASSUME NEW f \in StepFailure, NEW i
  PROVE  /\ f.effect \in EffectCertainty
         /\ DispositionOf(i, f) \in {"none", "automatic_retry", "manual_repair",
                                     "locator_proposal", "new_run_required"}
  <1>1. f.effect \in EffectCertainty
    BY DEF StepFailure, Failure, EffectCertainty
  <1>2. \A in : decideRetry(in) \in {"none", "automatic_retry", "manual_repair",
                                    "locator_proposal", "new_run_required"}
    BY DEF decideRetry
  <1> QED
    BY <1>1, <1>2 DEF DispositionOf

(* Skipping what is pending touches nothing else.                          *)
LEMMA SkipPending ==
  ASSUME TypeOK
  PROVE  /\ skipPending \in [Steps -> EngineStepStatus]
         /\ \A i \in Steps : status[i] = "succeeded" => skipPending[i] = "succeeded"
         /\ \A i \in Steps : status[i] \in {"pending", "skipped"} =>
              skipPending[i] \in {"pending", "skipped"}
  BY StatusTypes DEF TypeOK, skipPending

(* What is built is a result.                                              *)
LEMMA ResultType ==
  ASSUME NEW st \in TerminalEngineRunStatus, NEW cause \in TerminationCause
  PROVE  buildWorkflowExecutionResult(st, cause) \in
           [status : TerminalEngineRunStatus, cause : TerminationCause]
             \cup {NoResult, ThrownResult}
  BY DEF buildWorkflowExecutionResult

-----------------------------------------------------------------------------
(* Every step preserves the invariant                                      *)

(* Every step of the engine and of its environment keeps the types.        *)
LEMMA TypeStep ==
  ASSUME EngineInv, [Next]_vars
  PROVE  TypeOK'
  <1>0. TypeOK /\ candidates' \in Seq(Candidate) /\ locked' \in Candidate \cup {NoCause}
    BY ArbiterStep DEF EngineInv, ArbiterMoves
  <1>1. CASE Tick
    BY <1>1, <1>0, StatusTypes, SkipPending, TimeAssumption
       DEF Tick, TypeOK, Steps, clockVars, arbiterVars, loopVars, stepVars
  <1>2. CASE Timer
    BY <1>2, <1>0, StatusTypes, SkipPending, TimeAssumption
       DEF Timer, TypeOK, Steps, clockVars, arbiterVars, loopVars, stepVars
  <1>3. CASE Abort
    <2>1. signal' \in BOOLEAN /\ controller' \in BOOLEAN
      BY <1>3, <1>0 DEF Abort, TypeOK
    <2>2. UNCHANGED <<workflow, mode, now, timer, run, stepVars, loopVars, pc, result>>
      BY <1>3 DEF Abort
    <2> QED
      BY <2>1, <2>2, <1>0 DEF TypeOK, Steps, stepVars, loopVars
  <1>4. CASE Begin
    BY <1>4, <1>0, StatusTypes, SkipPending DEF Begin, CancelBeforeStart, TypeOK, Steps, loopVars
  <1>5. CASE Preflight
    <2>1. CASE signal
      BY <1>5, <2>1, <1>0, StatusTypes, SkipPending
         DEF Preflight, CancelBeforeStart, TypeOK, Steps, loopVars
    <2>2. CASE ~signal
      <3>1. buildWorkflowExecutionResult("failed", "preflight_failed") \in
              [status : TerminalEngineRunStatus, cause : TerminationCause]
                \cup {NoResult, ThrownResult}
        BY ResultType DEF TerminalEngineRunStatus, TerminationCause
      <3> QED
        BY <1>5, <2>2, <3>1, <1>0, StatusTypes, SkipPending
           DEF Preflight, TypeOK, Steps, loopVars
    <2> QED
      BY <2>1, <2>2
  <1>6. CASE Cancelled
    <2>1. buildWorkflowExecutionResult("cancelled", "run_cancelled") \in
            [status : TerminalEngineRunStatus, cause : TerminationCause]
              \cup {NoResult, ThrownResult}
      BY ResultType DEF TerminalEngineRunStatus, TerminationCause, RacingCause
    <2> QED
      BY <1>6, <2>1, <1>0, StatusTypes DEF Cancelled, TypeOK, Steps, clockVars, arbiterVars, loopVars, stepVars
  <1>7. CASE StepHead
    <2>1. /\ status' \in [Steps -> EngineStepStatus]
          /\ trigger' \in RetryTrigger
          /\ stepError' \in {"none", "timeout", "failure"}
      BY <1>7, <1>0, StatusTypes DEF StepHead, TypeOK, RetryTrigger
    <2>2. controller' \in BOOLEAN
      BY <1>7, <1>0 DEF StepHead, ChoosePrimary, TypeOK
    <2>3. pc' \in {"finish", "approvalHead", "attemptHead"}
      BY <1>7 DEF StepHead
    <2> QED
      BY <1>7, <2>1, <2>2, <2>3, <1>0 DEF StepHead, TypeOK, Steps
  <1>8. CASE RequestApproval
    <2>1. current \in Steps /\ "initial" \in RetryTrigger
      BY <1>8 DEF EngineInv, AtStep, InStep, RequestApproval, RetryTrigger
    <2>2. attempts' \in [Steps -> Seq(Attempt)]
      BY <1>8, <2>1, <1>0, BeginAttempt DEF RequestApproval
    <2> QED
      BY <1>8, <2>1, <2>2, <1>0, StatusTypes
         DEF RequestApproval, TypeOK, Steps, clockVars, loopVars
  <1>9. CASE ApprovalResumes
    <2>1. current \in Steps /\ attempts[current] # <<>>
      BY <1>9 DEF EngineInv, AtStep, InStep, ApprovalResumes
    <2>2. attempts' \in [Steps -> Seq(Attempt)]
      <3>1. attempts' # attempts =>
              \/ finishAttempt(current, "succeeded", "completed")
              \/ finishAttempt(current, approvalAttemptStatus(answer[current]),
                               "read_only")
        BY <1>9 DEF ApprovalResumes
      <3> QED
        BY <2>1, <3>1, <1>0, FinishAttempt, StatusTypes DEF TypeOK
    <2>3. status' \in [Steps -> EngineStepStatus] /\ run' \in EngineRunStatus
      BY <1>9, <1>0, StatusTypes DEF ApprovalResumes, TypeOK
    <2>4. current' \in 1..(Len(workflow) + 1)
      BY <1>9, <2>1, <1>0, WorkflowType DEF ApprovalResumes, TypeOK
    <2>5. controller' \in BOOLEAN
      BY <1>9 DEF ApprovalResumes
    <2>6. pc' \in {"settle", "stepHead"}
      BY <1>9 DEF ApprovalResumes
    <2> QED
      BY <1>9, <2>2, <2>3, <2>4, <2>5, <2>6, <1>0 DEF ApprovalResumes, TypeOK, Steps
  <1>10. CASE AttemptHead
    <2>1. current \in Steps /\ trigger \in RetryTrigger
      BY <1>10, <1>0 DEF EngineInv, AtStep, InStep, AttemptHead, TypeOK
    <2>2. attempts' \in [Steps -> Seq(Attempt)]
      BY <1>10, <2>1, <1>0, BeginAttempt DEF AttemptHead, TypeOK
    <2> QED
      BY <1>10, <2>1, <2>2, <1>0, StatusTypes
         DEF AttemptHead, ChoosePrimary, TypeOK, Steps, loopVars
  <1>11. CASE RepairResumes
    <2>1. /\ status' \in [Steps -> EngineStepStatus]
          /\ run' \in EngineRunStatus
          /\ trigger' \in RetryTrigger
      BY <1>11, <1>0, StatusTypes DEF RepairResumes, TypeOK, RetryTrigger
    <2>2. controller' \in BOOLEAN /\ pc' \in {"settle", "attemptHead"}
      BY <1>11 DEF RepairResumes
    <2> QED
      BY <1>11, <2>1, <2>2, <1>0 DEF RepairResumes, TypeOK, Steps
  <1>12. CASE Settle
    <2>1. current \in Steps
      BY <1>12 DEF EngineInv, AtStep, InStep, Settle
    <2>2. status' \in [Steps -> EngineStepStatus]
      BY ZenonT(60), <1>12, <1>0, StatusTypes DEF Settle, TypeOK
    <2>3. current' \in 1..(Len(workflow) + 1)
      BY <1>12, <2>1, <1>0, WorkflowType DEF Settle, TypeOK
    <2>4. controller' \in BOOLEAN /\ pc' \in {"stepHead", "finish"}
      BY <1>12 DEF Settle, ChoosePrimary
    <2> QED
      BY <1>12, <2>2, <2>3, <2>4, <1>0 DEF Settle, TypeOK, Steps
  <1>13. CASE Finish
    BY <1>13, <1>0, StatusTypes, SkipPending, TimeAssumption
       DEF Finish, TypeOK, Steps, clockVars, arbiterVars, loopVars, stepVars
  <1>14. ASSUME NEW ok \in BOOLEAN, AdapterStarts(ok)
         PROVE  TypeOK'
    BY <1>14, <1>0, StatusTypes, SkipPending, TimeAssumption
       DEF AdapterStarts, ChoosePrimary, TypeOK, Steps, clockVars, arbiterVars, loopVars, stepVars
  <1>15. CASE StepSucceeds
    <2>1. current \in Steps /\ attempts[current] # <<>>
      BY <1>15 DEF EngineInv, AtStep, InStep, StepSucceeds
    <2>2. attempts' \in [Steps -> Seq(Attempt)]
      BY <1>15, <2>1, <1>0, FinishAttempt, StatusTypes DEF StepSucceeds
    <2> QED
      BY <1>15, <2>2, <1>0 DEF StepSucceeds, TypeOK, Steps, clockVars, loopVars
  <1>16. ASSUME NEW f \in StepFailure, StepFails(f)
         PROVE  TypeOK'
    <2>1. current \in Steps /\ attempts[current] # <<>>
      BY <1>16 DEF EngineInv, AtStep, InStep, StepFails
    <2>2. attempts' \in [Steps -> Seq(Attempt)]
      BY <1>16, <2>1, <1>0, FinishAttempt, FailureTypes, StatusTypes DEF StepFails
    <2>3. disposition' \in {"none", "automatic_retry", "manual_repair",
                            "locator_proposal", "new_run_required"}
      BY <1>16, FailureTypes DEF StepFails
    <2>4. /\ status' \in [Steps -> EngineStepStatus]
          /\ run' \in EngineRunStatus
          /\ trigger' \in RetryTrigger
      BY <1>16, <1>0, StatusTypes DEF StepFails, TypeOK, RetryTrigger
    <2>5. /\ stepError' \in {"none", "timeout", "failure"}
          /\ pc' \in {"attemptHead", "awaitingRepair", "settle"}
      BY <1>16, <1>0 DEF StepFails, TypeOK
    <2> QED
      BY <1>16, <2>2, <2>3, <2>4, <2>5, <1>0 DEF StepFails, TypeOK, Steps, clockVars
  <1>17. ASSUME NEW clean \in BOOLEAN, AdapterStops(clean)
         PROVE  TypeOK'
    <2> DEFINE st == IF locked # NoCause THEN terminalStatusFor(locked.cause)
                     ELSE IF clean THEN "succeeded" ELSE "failed"
               cause == IF locked # NoCause THEN locked.cause
                        ELSE IF clean THEN "completed" ELSE "cleanup_failed"
    <2>1. st \in TerminalEngineRunStatus
      BY StatusTypes DEF TerminalEngineRunStatus
    <2>2. cause \in TerminationCause
      BY <1>0 DEF TypeOK, Candidate, TerminationCause
    <2>3. run' = st /\ result' = buildWorkflowExecutionResult(st, cause)
      BY <1>17 DEF AdapterStops
    <2> HIDE DEF st, cause
    <2>4. /\ run' \in EngineRunStatus
          /\ result' \in [status : TerminalEngineRunStatus, cause : TerminationCause]
                           \cup {NoResult, ThrownResult}
      BY <2>1, <2>2, <2>3, StatusTypes, ResultType
    <2> QED
      BY <1>17, <2>4, <1>0 DEF AdapterStops, TypeOK, Steps, clockVars, arbiterVars, loopVars, stepVars
  <1>18. ASSUME NEW d \in ApprovalDecision, ApprovalAnswers(d)
         PROVE  TypeOK'
    BY <1>18, <1>0, StatusTypes, SkipPending, TimeAssumption
       DEF ApprovalAnswers, TypeOK, Steps, clockVars, arbiterVars, loopVars, stepVars
  <1>19. CASE ApprovalRequestFails
    <2>1. current \in Steps /\ attempts[current] # <<>>
      BY <1>19 DEF EngineInv, AtStep, InStep, ApprovalRequestFails
    <2>2. attempts' \in [Steps -> Seq(Attempt)]
      BY <1>19, <2>1, <1>0, FinishAttempt, StatusTypes DEF ApprovalRequestFails
    <2> QED
      BY <1>19, <2>2, <1>0 DEF ApprovalRequestFails, TypeOK, Steps, clockVars, loopVars
  <1>20. ASSUME NEW d \in RepairDecision, RepairAnswers(d)
         PROVE  TypeOK'
    BY <1>20, <1>0, StatusTypes, SkipPending, TimeAssumption
       DEF RepairAnswers, TypeOK, Steps, clockVars, arbiterVars, loopVars, stepVars
  <1>21. CASE RepairRequestFails
    BY <1>21, <1>0, StatusTypes, SkipPending, TimeAssumption
       DEF RepairRequestFails, TypeOK, Steps, clockVars, arbiterVars, loopVars, stepVars
  <1>22. CASE UNCHANGED vars
    BY <1>22, <1>0 DEF vars, TypeOK, Steps, clockVars, arbiterVars, loopVars, stepVars
  <1> QED
    BY <1>1, <1>2, <1>3, <1>4, <1>5, <1>6, <1>7, <1>8, <1>9, <1>10,
       <1>11, <1>12, <1>13, <1>14, <1>15, <1>16, <1>17, <1>18, <1>19,
       <1>20, <1>21, <1>22 DEF Next, Engine, Adapter, Coordinators

(* An approval that is not granted, or is granted too late, leaves a cause *)
(* with the arbiter.                                                       *)
LEMMA RefusedIsKnown ==
  ASSUME EngineInv, ApprovalResumes, pc' = "settle"
  PROVE  Known'
  <1> DEFINE cs == recordDeadlineIfElapsed(candidates)
  <1>1. /\ Recorded(cs) /\ DeadlineNoticed(cs) /\ now \in Nat
        /\ locked \in Candidate \cup {NoCause}
        /\ approvalCause(answer[current]) \in RacingCause
    BY AtHand, CausesType DEF EngineInv, TypeOK
  <1>2. CASE lockWinner(cs) # NoCause
    BY <1>2 DEF ApprovalResumes, Known
  <1>3. CASE lockWinner(cs) = NoCause
    <2>1. candidates' = record(cs, approvalCause(answer[current]), now)
      BY <1>3 DEF ApprovalResumes
    <2>2. locked = NoCause
      BY <1>1, <1>3, LockWinner DEF Recorded
    <2> QED
      BY <1>1, <2>1, <2>2, RecordMore DEF Known
  <1> QED
    BY <1>2, <1>3

(* A step that is settled without a cause has nothing against it.          *)
LEMMA SettledIsNotEnding ==
  ASSUME EngineInv, Settle, locked' = NoCause
  PROVE  ~Ending
  <1> DEFINE cs == recordDeadlineIfElapsed(candidates)
             cause == IF stepError = "timeout" THEN "step_timeout"
                                               ELSE "step_failed"
  <1>1. /\ Recorded(cs) /\ DeadlineNoticed(cs) /\ now \in Nat
        /\ candidates # <<>> => cs # <<>>
        /\ locked \in Candidate \cup {NoCause}
        /\ cause \in RacingCause
    BY AtHand, CausesType DEF EngineInv, TypeOK
  <1>2. /\ candidates' = IF stepError = "none" THEN cs ELSE record(cs, cause, now)
        /\ lockWinner(candidates') = NoCause
    BY DEF Settle, ChoosePrimary
  <1> HIDE DEF cause
  <1>3. candidates' \in Seq(Candidate)
    BY <1>1, <1>2, RecordMore DEF Recorded
  <1>4. locked = NoCause /\ candidates' = <<>>
    BY <1>1, <1>2, <1>3, LockWinner
  <1>5. stepError = "none"
    BY <1>1, <1>2, <1>4, RecordMore
  <1> QED
    BY <1>1, <1>2, <1>4, <1>5 DEF Ending

WalkInv == Walked /\ AtStep /\ RefusedIsEnding /\ AbortRecorded

(* Every step keeps the shape of the walk: what lies behind the current    *)
(* step succeeded, what lies ahead is untouched, a refused gate is on its  *)
(* way to the end, and an abort the engine heard is a recorded cause.      *)
LEMMA WalkStep ==
  ASSUME EngineInv, [Next]_vars
  PROVE  WalkInv'
  <1>0. /\ TypeOK /\ WalkInv /\ (Known => Known')
        /\ Steps = 1..Len(workflow) /\ Len(workflow) \in Nat /\ current \in Nat
    BY ArbiterStep, WorkflowType DEF EngineInv, ArbiterMoves, WalkInv
  <1>1. CASE Tick
    BY <1>1, <1>0, SkipPending
       DEF Tick, clockVars, arbiterVars, loopVars, stepVars,
           WalkInv, Walked, AtStep, InStep, RefusedIsEnding, AbortRecorded, Ending, Known, Steps
  <1>2. CASE Timer
    BY <1>2, <1>0, SkipPending
       DEF Timer, clockVars, arbiterVars, loopVars, stepVars,
           WalkInv, Walked, AtStep, InStep, RefusedIsEnding, AbortRecorded, Ending, Known, Steps
  <1>3. CASE Abort
    <2>1. "run_cancelled" \in RacingCause /\ Recorded(candidates) /\ now \in Nat
      BY AtHand, CausesType
    <2>2. pc \notin {"new", "validating"} => Known'
      BY <1>3, <2>1, RecordFacts DEF Abort, Known
    <2> QED
      BY <1>3, <2>2, <1>0 DEF Abort, loopVars, stepVars, WalkInv, Walked, AtStep, InStep, RefusedIsEnding, AbortRecorded, Ending, Known, Steps
  <1>4. CASE Begin
    BY <1>4, <1>0, SkipPending
       DEF Begin, CancelBeforeStart, loopVars, WalkInv, Walked, AtStep, InStep, RefusedIsEnding, AbortRecorded, Ending, Known, Steps
  <1>5. CASE Preflight
    BY <1>5, <1>0, SkipPending
       DEF Preflight, CancelBeforeStart, loopVars, WalkInv, Walked, AtStep, InStep, RefusedIsEnding, AbortRecorded, Ending, Known, Steps
  <1>6. CASE Cancelled
    BY <1>6, <1>0, SkipPending
       DEF Cancelled, clockVars, arbiterVars, loopVars, stepVars,
           WalkInv, Walked, AtStep, InStep, RefusedIsEnding, AbortRecorded, Ending, Known, Steps
  <1>7. CASE StepHead
    <2>1. /\ pc = "stepHead" /\ pc' \in {"finish", "approvalHead", "attemptHead"}
          /\ \A j \in Steps : j # current => status'[j] = status[j]
          /\ UNCHANGED <<workflow, signal, attempts, answer, current>>
      BY <1>7, <1>0 DEF StepHead, TypeOK
    <2>2. /\ pc' # "finish" => current \in Steps
          /\ pc' = "approvalHead" => workflow[current] = "approval"
          /\ pc' = "attemptHead" => workflow[current] # "approval"
      BY <1>7, <1>0 DEF StepHead, TypeOK
    <2> QED
      BY <2>1, <2>2, <1>0 DEF WalkInv, Walked, AtStep, InStep, RefusedIsEnding, AbortRecorded, Ending, Known, Steps
  <1>8. CASE RequestApproval
    <2>1. current \in Steps /\ "initial" \in RetryTrigger
      BY <1>8, <1>0 DEF WalkInv, AtStep, InStep, RequestApproval, RetryTrigger
    <2>2. /\ attempts'[current] # <<>>
          /\ \A j \in Steps : j # current => attempts'[j] = attempts[j]
      BY <1>8, <2>1, <1>0, BeginAttempt DEF RequestApproval
    <2> QED
      BY <1>8, <2>1, <2>2, <1>0
         DEF RequestApproval, TypeOK, clockVars, arbiterVars, loopVars, WalkInv, Walked, AtStep, InStep, RefusedIsEnding, AbortRecorded, Ending, Known, Steps
  <1>9. CASE ApprovalResumes
    <2>1. /\ current \in Steps /\ attempts[current] # <<>>
          /\ workflow[current] = "approval"
      BY <1>9, <1>0 DEF WalkInv, AtStep, InStep, ApprovalResumes
    <2>2. \A j \in Steps : j # current => attempts'[j] = attempts[j]
      <3>1. attempts' # attempts =>
              \/ finishAttempt(current, "succeeded", "completed")
              \/ finishAttempt(current, approvalAttemptStatus(answer[current]),
                               "read_only")
        BY <1>9 DEF ApprovalResumes
      <3> QED
        BY <2>1, <3>1, <1>0, FinishAttempt, StatusTypes
    <2>3. pc' = "settle" => Known'
      BY <1>9, RefusedIsKnown
    <2>4. CASE pc' = "settle"
      BY <1>9, <2>1, <2>2, <2>3, <2>4, <1>0 DEF ApprovalResumes, WalkInv, Walked, AtStep, InStep, RefusedIsEnding, AbortRecorded, Ending, Known, Steps
    <2>5. CASE pc' # "settle"
      <3>1. /\ answer[current] = "approved"
            /\ status' = [status EXCEPT ![current] = "succeeded"]
            /\ current' = current + 1
            /\ pc' = "stepHead"
            /\ UNCHANGED <<workflow, answer, signal>>
        BY <1>9, <2>5 DEF ApprovalResumes
      <3>2. \A i \in Steps : i < current' => i < current \/ i = current
        BY <3>1, <1>0
      <3>3. \A i \in Steps : i > current' => i > current /\ i # current
        BY <3>1, <1>0
      <3>4. status \in [Steps -> EngineStepStatus]
        BY <1>0 DEF TypeOK
      <3>5. Walked'
        BY <2>2, <3>1, <3>2, <3>3, <3>4, <1>0 DEF WalkInv, Walked, Steps
      <3> QED
        BY <1>9, <3>1, <3>5, <1>0 DEF ApprovalResumes, WalkInv, Walked, AtStep, InStep, RefusedIsEnding, AbortRecorded, Ending, Known, Steps
    <2> QED
      BY <2>4, <2>5
  <1>10. CASE AttemptHead
    <2>1. current \in Steps /\ trigger \in RetryTrigger
      BY <1>10, <1>0 DEF WalkInv, AtStep, InStep, AttemptHead, TypeOK
    <2>2. /\ pc' = "executing" => attempts'[current] # <<>>
          /\ \A j \in Steps : j # current => attempts'[j] = attempts[j]
      BY <1>10, <2>1, <1>0, BeginAttempt DEF AttemptHead
    <2> QED
      BY <1>10, <2>1, <2>2, <1>0 DEF AttemptHead, loopVars, WalkInv, Walked, AtStep, InStep, RefusedIsEnding, AbortRecorded, Ending, Known, Steps
  <1>11. CASE RepairResumes
    <2>1. current \in Steps
      BY <1>11, <1>0 DEF WalkInv, AtStep, InStep, RepairResumes
    <2>2. /\ pc = "repairAnswered" /\ pc' \in {"attemptHead", "settle"}
          /\ \A j \in Steps : j # current => status'[j] = status[j]
          /\ UNCHANGED <<workflow, signal, attempts, answer, current>>
      BY <1>11, <1>0 DEF RepairResumes, TypeOK
    <2> QED
      BY <2>1, <2>2, <1>0 DEF WalkInv, Walked, AtStep, InStep, RefusedIsEnding, AbortRecorded, Ending, Known, Steps
  <1>12. CASE Settle
    <2>1. current \in Steps
      BY <1>12, <1>0 DEF WalkInv, AtStep, InStep, Settle
    <2>2. CASE locked' # NoCause
      BY <1>12, <2>1, <2>2, <1>0 DEF Settle, TypeOK, WalkInv, Walked, AtStep, InStep, RefusedIsEnding, AbortRecorded, Ending, Known, Steps
    <2>3. CASE locked' = NoCause
      <3>1. /\ status' = [status EXCEPT ![current] = "succeeded"]
            /\ current' = current + 1
            /\ pc' = "stepHead"
            /\ UNCHANGED <<workflow, answer, attempts, signal>>
        BY <1>12, <2>3 DEF Settle
      <3>2. workflow[current] # "approval"
        BY <1>12, <2>3, <1>0, SettledIsNotEnding DEF WalkInv, RefusedIsEnding, Settle
      <3>3. \A i \in Steps : i < current' => i < current \/ i = current
        BY <3>1, <1>0
      <3>4. \A i \in Steps : i > current' => i > current /\ i # current
        BY <3>1, <1>0
      <3>5. status \in [Steps -> EngineStepStatus]
        BY <1>0 DEF TypeOK
      <3>6. Walked'
        BY <3>1, <3>2, <3>3, <3>4, <3>5, <1>0 DEF WalkInv, Walked, Steps
      <3> QED
        BY <1>12, <3>1, <3>6, <1>0 DEF Settle, WalkInv, Walked, AtStep, InStep, RefusedIsEnding, AbortRecorded, Ending, Known, Steps
    <2> QED
      BY <2>2, <2>3
  <1>13. CASE Finish
    BY <1>13, <1>0, SkipPending
       DEF Finish, clockVars, arbiterVars, loopVars, stepVars,
           WalkInv, Walked, AtStep, InStep, RefusedIsEnding, AbortRecorded, Ending, Known, Steps
  <1>14. ASSUME NEW ok \in BOOLEAN, AdapterStarts(ok)
         PROVE  WalkInv'
    BY <1>14, <1>0, SkipPending
       DEF AdapterStarts, clockVars, arbiterVars, loopVars, stepVars,
           WalkInv, Walked, AtStep, InStep, RefusedIsEnding, AbortRecorded, Ending, Known, Steps
  <1>15. CASE StepSucceeds
    <2>1. current \in Steps /\ attempts[current] # <<>>
      BY <1>15, <1>0 DEF WalkInv, AtStep, InStep, StepSucceeds
    <2>2. \A j \in Steps : j # current => attempts'[j] = attempts[j]
      BY <1>15, <2>1, <1>0, FinishAttempt, StatusTypes DEF StepSucceeds
    <2> QED
      BY <1>15, <2>1, <2>2, <1>0
         DEF StepSucceeds, clockVars, arbiterVars, loopVars, WalkInv, Walked, AtStep, InStep, RefusedIsEnding, AbortRecorded, Ending, Known, Steps
  <1>16. ASSUME NEW f \in StepFailure, StepFails(f)
         PROVE  WalkInv'
    <2>1. current \in Steps /\ attempts[current] # <<>>
      BY <1>16, <1>0 DEF WalkInv, AtStep, InStep, StepFails
    <2>2. \A j \in Steps : j # current => attempts'[j] = attempts[j]
      BY <1>16, <2>1, <1>0, FinishAttempt, FailureTypes, StatusTypes DEF StepFails
    <2>3. /\ pc = "executing" /\ pc' \in {"attemptHead", "awaitingRepair", "settle"}
          /\ \A j \in Steps : j # current => status'[j] = status[j]
      BY <1>16, <1>0 DEF StepFails, TypeOK
    <2>4. UNCHANGED <<workflow, signal, candidates, locked, answer, current>>
      BY <1>16 DEF StepFails, clockVars, arbiterVars
    <2> QED
      BY <2>1, <2>2, <2>3, <2>4, <1>0 DEF WalkInv, Walked, AtStep, InStep, RefusedIsEnding, AbortRecorded, Ending, Known, Steps
  <1>17. ASSUME NEW clean \in BOOLEAN, AdapterStops(clean)
         PROVE  WalkInv'
    BY <1>17, <1>0, SkipPending
       DEF AdapterStops, clockVars, arbiterVars, loopVars, stepVars,
           WalkInv, Walked, AtStep, InStep, RefusedIsEnding, AbortRecorded, Ending, Known, Steps
  <1>18. ASSUME NEW d \in ApprovalDecision, ApprovalAnswers(d)
         PROVE  WalkInv'
    <2>1. current \in Steps
      BY <1>18, <1>0 DEF WalkInv, AtStep, InStep, ApprovalAnswers
    <2>2. \A j \in Steps : j # current => answer'[j] = answer[j]
      BY <1>18, <1>0 DEF ApprovalAnswers, TypeOK
    <2>3. UNCHANGED <<workflow, signal, candidates, locked, status, attempts, current>>
      BY <1>18 DEF ApprovalAnswers, clockVars, arbiterVars, loopVars
    <2> QED
      BY <1>18, <2>1, <2>2, <2>3, <1>0 DEF ApprovalAnswers, WalkInv, Walked, AtStep, InStep, RefusedIsEnding, AbortRecorded, Ending, Known, Steps
  <1>19. CASE ApprovalRequestFails
    <2>1. current \in Steps /\ attempts[current] # <<>>
      BY <1>19, <1>0 DEF WalkInv, AtStep, InStep, ApprovalRequestFails
    <2>2. \A j \in Steps : j # current => attempts'[j] = attempts[j]
      BY <1>19, <2>1, <1>0, FinishAttempt, StatusTypes DEF ApprovalRequestFails
    <2> QED
      BY <1>19, <2>1, <2>2, <1>0
         DEF ApprovalRequestFails, clockVars, arbiterVars, loopVars, WalkInv, Walked, AtStep, InStep, RefusedIsEnding, AbortRecorded, Ending, Known, Steps
  <1>20. ASSUME NEW d \in RepairDecision, RepairAnswers(d)
         PROVE  WalkInv'
    <2>1. current \in Steps
      BY <1>20, <1>0 DEF WalkInv, AtStep, InStep, RepairAnswers
    <2>2. \A j \in Steps : j # current => answer'[j] = answer[j]
      BY <1>20, <1>0 DEF RepairAnswers, TypeOK
    <2>3. UNCHANGED <<workflow, signal, candidates, locked, status, attempts, current>>
      BY <1>20 DEF RepairAnswers, clockVars, arbiterVars, loopVars
    <2> QED
      BY <1>20, <2>1, <2>2, <2>3, <1>0 DEF RepairAnswers, WalkInv, Walked, AtStep, InStep, RefusedIsEnding, AbortRecorded, Ending, Known, Steps
  <1>21. CASE RepairRequestFails
    BY <1>21, <1>0, SkipPending
       DEF RepairRequestFails, clockVars, arbiterVars, loopVars, stepVars,
           WalkInv, Walked, AtStep, InStep, RefusedIsEnding, AbortRecorded, Ending, Known, Steps
  <1>22. CASE UNCHANGED vars
    BY <1>22, <1>0 DEF vars, clockVars, arbiterVars, loopVars, stepVars,
       WalkInv, Walked, AtStep, InStep, RefusedIsEnding, AbortRecorded, Ending, Known, Steps
  <1> QED
    BY <1>1, <1>2, <1>3, <1>4, <1>5, <1>6, <1>7, <1>8, <1>9, <1>10,
       <1>11, <1>12, <1>13, <1>14, <1>15, <1>16, <1>17, <1>18, <1>19,
       <1>20, <1>21, <1>22 DEF Next, Engine, Adapter, Coordinators

(* The first state is walked no further than the first step.               *)
LEMMA InitInv ==
  ASSUME Init
  PROVE  EngineInv
  <1>1. TypeOK
    <2>1. Len(workflow) \in Nat /\ Len(workflow) > 0
      BY WorkflowsAssumption DEF Init
    <2>2. /\ <<>> \in Seq(Attempt) /\ <<>> \in Seq(Candidate)
      OBVIOUS
    <2>3. /\ status \in [Steps -> EngineStepStatus]
          /\ attempts \in [Steps -> Seq(Attempt)]
          /\ answer \in [Steps -> {"none"} \cup ApprovalDecision \cup RepairDecision]
      BY <2>2 DEF Init, EngineStepStatus
    <2>4. now \in 0..Horizon /\ current \in 1..(Len(workflow) + 1)
      BY <2>1, TimeAssumption DEF Init
    <2>5. run \in EngineRunStatus /\ trigger \in RetryTrigger
      BY DEF Init, EngineRunStatus, RetryTrigger
    <2> QED
      BY <2>2, <2>3, <2>4, <2>5 DEF Init, TypeOK
  <1>2. Walked /\ AtStep /\ RefusedIsEnding /\ AbortRecorded
    BY DEF Init, Walked, AtStep, InStep, RefusedIsEnding, AbortRecorded
  <1>3. CandidatesPast /\ DeadlineWins
    BY DEF Init, CandidatesPast, DeadlineWins
  <1> QED
    BY <1>1, <1>2, <1>3 DEF EngineInv

(* Every step of the engine and its environment preserves the invariant.   *)
LEMMA EngineInvStep ==
  ASSUME EngineInv, [Next]_vars
  PROVE  EngineInv'
  BY TypeStep, WalkStep, ArbiterStep DEF EngineInv, WalkInv, ArbiterMoves

(* The inductive invariant holds throughout every execution.               *)
LEMMA EngineInvariant == Spec => []EngineInv
  <1>1. Init => EngineInv
    BY InitInv
  <1>2. EngineInv /\ [Next]_vars => EngineInv'
    BY EngineInvStep
  <1> QED
    BY <1>1, <1>2, PTL DEF Spec

-----------------------------------------------------------------------------
(* Theorems                                                                *)

(* The locals and records of WorkflowEngine.executePrepared keep their     *)
(* types, for every workflow and every deadline.                           *)
THEOREM EngineTypeCorrect == Spec => []TypeOK
  <1>1. EngineInv => TypeOK
    BY DEF EngineInv
  <1> QED
    BY <1>1, EngineInvariant, PTL

(* The step loop never reaches a step before all earlier ones have         *)
(* succeeded.                                                              *)
THEOREM EngineKeepsOrder == Spec => []StepsInOrder
  <1>1. ASSUME EngineInv
        PROVE  StepsInOrder
    <2>1. Walked /\ Steps \subseteq Nat /\ current \in Nat
      BY <1>1, WorkflowType DEF EngineInv
    <2> QED
      BY <2>1 DEF Walked, StepsInOrder
  <1> QED
    BY <1>1, EngineInvariant, PTL

(* The adapter never performs a step that an approval gates unless the     *)
(* coordinator answered "approved" and the engine took the answer up in    *)
(* time.                                                                   *)
THEOREM EngineHoldsGate == Spec => []GateHeld
  <1>1. ASSUME EngineInv
        PROVE  GateHeld
    <2>1. /\ Walked /\ Steps = 1..Len(workflow)
          /\ Len(workflow) \in Nat /\ current \in Nat
      BY <1>1, WorkflowType DEF EngineInv
    <2>2. SUFFICES ASSUME NEW i \in Steps, isApprovalGatedStep(i),
                          attempts[i] # <<>>
                   PROVE  answer[i - 1] = "approved" /\ status[i - 1] = "succeeded"
      BY DEF GateHeld
    <2>3. i <= current
      BY <2>1, <2>2 DEF Walked
    <2>4. i - 1 \in Steps /\ i - 1 < current /\ workflow[i - 1] = "approval"
      BY <2>1, <2>2, <2>3 DEF isApprovalGatedStep
    <2> QED
      BY <2>1, <2>4 DEF Walked
  <1> QED
    BY <1>1, EngineInvariant, PTL

(* A run that ends at or after its deadline is reported as a total         *)
(* timeout.                                                                *)
THEOREM EngineReportsDeadline == Spec => []DeadlineWins
  <1>1. EngineInv => DeadlineWins
    BY DEF EngineInv
  <1> QED
    BY <1>1, EngineInvariant, PTL

(* Order, gate and deadline hold for every workflow and every deadline.    *)
THEOREM EngineRulesHold == Spec => []EngineRules
  BY EngineKeepsOrder, EngineHoldsGate, EngineReportsDeadline, PTL
     DEF EngineRules

(* The adapter is never asked to perform a step once the run is bound to   *)
(* end.                                                                    *)
THEOREM EngineStopsStarting == Spec => NothingStartsWhileEnding
  <1>1. ASSUME EngineInv, [Next]_vars, pc # "executing", pc' = "executing"
        PROVE  ~signal /\ now < Deadline /\ locked = NoCause
    <2>1. AttemptHead
      <3>1. ~(Tick \/ Timer \/ Abort \/ UNCHANGED vars)
        BY <1>1 DEF vars, Tick, Timer, Abort
      <3>2. ~(Begin \/ Preflight \/ Cancelled \/ StepHead \/ RequestApproval)
        BY <1>1 DEF Begin, Preflight, CancelBeforeStart, Cancelled, StepHead,
           RequestApproval
      <3>3. ~(ApprovalResumes \/ RepairResumes \/ Settle \/ Finish)
        BY <1>1 DEF ApprovalResumes, RepairResumes, Settle, Finish
      <3>4. ~Adapter
        <4>1. ~StepSucceeds /\ \A f \in StepFailure : ~StepFails(f)
          BY <1>1 DEF StepSucceeds, StepFails
        <4>2. \A b \in BOOLEAN : ~AdapterStarts(b) /\ ~AdapterStops(b)
          BY <1>1 DEF AdapterStarts, AdapterStops
        <4> QED
          BY <4>1, <4>2 DEF Adapter
      <3>5. ~Coordinators
        BY <1>1 DEF Coordinators, ApprovalAnswers, ApprovalRequestFails,
           RepairAnswers, RepairRequestFails
      <3> QED
        BY <1>1, <3>1, <3>2, <3>3, <3>4, <3>5 DEF Next, Engine
    <2>2. /\ locked' = NoCause /\ now' = now /\ pc = "attemptHead"
          /\ candidates' = recordDeadlineIfElapsed(candidates)
          /\ locked' = lockWinner(recordDeadlineIfElapsed(candidates))
      BY <1>1, <2>1 DEF AttemptHead, ChoosePrimary
    <2>3. ~Known /\ now < Deadline
      BY <1>1, <2>2, AtHand, ChooseMoves
    <2> QED
      BY <1>1, <2>2, <2>3 DEF EngineInv, AbortRecorded, Known
  <1> QED
    BY <1>1, EngineInvariant, PTL DEF Spec, NothingStartsWhileEnding

-----------------------------------------------------------------------------
(* The inductive invariant of the outcome                                  *)

(* An attempt after which another one repeats no effect.                   *)
Repeatable(a) ==
  /\ a.status \in {"failed", "timed_out"}
  /\ a.effect \in {"read_only", "not_started"}

LiveRun == {"running", "waiting_for_approval", "waiting_for_repair"}

(* How a cause leaves the step it strikes.                                 *)
Struck == {"failed", "cancelled", "timed_out", "interrupted"}

(* What can end a run before its first step.                               *)
StartCause == {"adapter_start_failed", "run_cancelled", "total_timeout"}

(* The status a run announces when the adapter is being stopped.           *)
StoppingStatus ==
  IF locked = NoCause THEN "running"
  ELSE IF locked.cause \in CancellingCause THEN "cancelling"
  ELSE terminalStatusFor(locked.cause)

(* Where the function is says what the run has announced.                  *)
RunFollows ==
  /\ pc = "new" => run = "pending"
  /\ pc = "validating" => run = "validating"
  /\ pc = "cancelling" => run = "cancelling"
  /\ pc = "starting" => run = "starting"
  /\ pc \in {"stepHead", "approvalHead", "attemptHead", "executing"} =>
       run = "running"
  /\ pc \in {"awaitingApproval", "approvalAnswered"} =>
       run = "waiting_for_approval"
  /\ pc \in {"awaitingRepair", "repairAnswered"} => run = "waiting_for_repair"
  /\ pc = "settle" => run \in LiveRun /\ (run = "running" \/ Ending)
  /\ pc = "finish" => /\ run \in LiveRun \cup {"starting"}
                      /\ locked = NoCause => run = "running"
  /\ pc = "stopping" => run = StoppingStatus

(* Nothing is chosen before a step is settled.                             *)
Unchosen == pc \notin {"settle", "finish", "stopping", "done"} => locked = NoCause

(* Only these causes are with the arbiter before the first step.           *)
StartCauses ==
  /\ run \in {"pending", "validating"} => candidates = <<>>
  /\ run = "starting" =>
       /\ \A k \in DOMAIN candidates : candidates[k].cause \in StartCause
       /\ locked # NoCause => locked.cause \in StartCause

(* And what each step's record says.                                       *)
StepsFollow ==
  /\ pc \in {"new", "validating", "starting"} =>
       current = 1 /\ \A i \in Steps : status[i] = "pending"
  /\ pc = "cancelling" => \A i \in Steps : status[i] = "skipped"
  /\ pc = "stepHead" =>
       \A i \in Steps : i >= current => status[i] = "pending"
  /\ pc \in InStep => \A i \in Steps : i > current => status[i] = "pending"
  /\ pc \in {"approvalHead", "attemptHead", "executing"} =>
       status[current] = "running"
  /\ pc \in {"awaitingApproval", "approvalAnswered"} =>
       status[current] = "waiting_for_approval"
  /\ pc \in {"awaitingRepair", "repairAnswered"} =>
       status[current] = "waiting_for_repair"
  /\ pc = "settle" =>
       \/ status[current] = "running"
       \/ status[current] \in {"waiting_for_approval", "waiting_for_repair"} /\ Ending
  /\ pc = "finish" =>
       IF locked = NoCause THEN current \notin Steps
       ELSE /\ current \in Steps
            /\ status[current] \in Struck \cup {"pending"}
            /\ \A i \in Steps : i > current => status[i] = "pending"
  /\ pc = "stopping" =>
       IF locked = NoCause THEN current \notin Steps
       ELSE /\ current \in Steps
            /\ status[current] \in Struck \cup {"skipped"}
            /\ \A i \in Steps : i > current => status[i] = "skipped"

(* Another attempt is started only after repeatable ones.                  *)
AttemptsFollow ==
  /\ pc \in {"new", "validating", "starting", "stepHead", "approvalHead"} =>
       \A i \in Steps : i >= current => attempts[i] = <<>>
  /\ \/ pc = "attemptHead"
     \/ pc \in {"awaitingRepair", "repairAnswered"} /\ disposition = "manual_repair"
     => \A k \in DOMAIN attempts[current] : Repeatable(attempts[current][k])

OutcomeInv ==
  /\ RunFollows /\ Unchosen /\ StartCauses /\ StepsFollow
  /\ AttemptsFollow /\ NoEffectRepeated /\ OutcomeMatchesSteps

-----------------------------------------------------------------------------
(* What the operations do to attempts and candidates                       *)

(* A started attempt joins the list behind the earlier ones.               *)
LEMMA BegunAttempt ==
  ASSUME TypeOK, NEW i \in Steps, NEW t \in RetryTrigger, beginAttempt(i, t)
  PROVE  /\ Len(attempts'[i]) = Len(attempts[i]) + 1
         /\ \A k \in 1..Len(attempts[i]) : attempts'[i][k] = attempts[i][k]
         /\ \A j \in Steps : j # i => attempts'[j] = attempts[j]
  <1> DEFINE a == [trigger |-> t, status |-> "running", effect |-> "unknown"]
  <1>1. a \in Attempt
    BY DEF Attempt, StepAttemptStatus, EffectCertainty
  <1>2. attempts \in [Steps -> Seq(Attempt)] /\ attempts[i] \in Seq(Attempt)
    BY DEF TypeOK
  <1>3. attempts' = [attempts EXCEPT ![i] = Append(attempts[i], a)]
    BY DEF beginAttempt
  <1> HIDE DEF a
  <1>4. attempts'[i] = Append(attempts[i], a)
    BY <1>2, <1>3
  <1>5. /\ Len(Append(attempts[i], a)) = Len(attempts[i]) + 1
        /\ \A k \in 1..Len(attempts[i]) : Append(attempts[i], a)[k] = attempts[i][k]
    BY <1>1, <1>2, AppendProperties
  <1> QED
    BY <1>2, <1>3, <1>4, <1>5

(* A finished attempt is the last of its step's list.                      *)
LEMMA FinishedAttempt ==
  ASSUME TypeOK, NEW i \in Steps, attempts[i] # <<>>,
         NEW st \in StepAttemptStatus, NEW eff \in EffectCertainty,
         finishAttempt(i, st, eff)
  PROVE  /\ Len(attempts'[i]) = Len(attempts[i])
         /\ \A k \in 1..Len(attempts[i]) :
              k < Len(attempts[i]) => attempts'[i][k] = attempts[i][k]
         /\ attempts'[i][Len(attempts[i])].status = st
         /\ attempts'[i][Len(attempts[i])].effect = eff
         /\ \A j \in Steps : j # i => attempts'[j] = attempts[j]
  <1> DEFINE n == Len(attempts[i])
             a == [trigger |-> LastAttempt(i).trigger, status |-> st,
                   effect |-> eff]
             s == [attempts[i] EXCEPT ![n] = a]
  <1>1. attempts \in [Steps -> Seq(Attempt)] /\ attempts[i] \in Seq(Attempt)
    BY DEF TypeOK
  <1>2. n \in 1..Len(attempts[i]) /\ DOMAIN attempts[i] = 1..Len(attempts[i])
    <2>1. n \in Nat /\ n # 0
      BY <1>1
    <2> QED
      BY <1>1, <2>1
  <1>3. attempts' = [attempts EXCEPT ![i] = s]
    BY DEF finishAttempt
  <1>4. a.status = st /\ a.effect = eff
    OBVIOUS
  <1> HIDE DEF a
  <1>5. Len(s) = n
    BY <1>1, <1>2
  <1>6. s[n] = a /\ \A k \in 1..n : k < n => s[k] = attempts[i][k]
    <2>1. s = [k \in 1..n |-> IF k = n THEN a ELSE attempts[i][k]]
      BY <1>2, Zenon
    <2> HIDE DEF s
    <2>2. n \in Nat
      BY <1>1
    <2> HIDE DEF n
    <2> QED
      BY <1>2, <2>1, <2>2
  <1>7. attempts'[i] = s
    BY <1>1, <1>3
  <1> HIDE DEF s
  <1> QED
    BY <1>1, <1>3, <1>4, <1>5, <1>6, <1>7

(* What record and the look at the clock add to a list.                    *)
LEMMA RecordOnly ==
  ASSUME NEW cs \in Seq(Candidate), NEW cause, NEW at,
         NEW k \in DOMAIN record(cs, cause, at)
  PROVE  \/ record(cs, cause, at)[k].cause = cause
         \/ k \in DOMAIN cs /\ record(cs, cause, at)[k] = cs[k]
  <1> DEFINE c == [cause |-> cause, at |-> at]
  <1>1. CASE locked # NoCause
    BY <1>1 DEF record
  <1>2. CASE locked = NoCause
    <2>1. record(cs, cause, at) = Append(cs, c) /\ c.cause = cause
      BY <1>2 DEF record
    <2> HIDE DEF c
    <2>2. /\ Len(Append(cs, c)) = Len(cs) + 1
          /\ \A i \in 1..Len(cs) : Append(cs, c)[i] = cs[i]
          /\ Append(cs, c)[Len(cs) + 1] = c
          /\ DOMAIN Append(cs, c) = 1..(Len(cs) + 1)
          /\ DOMAIN cs = 1..Len(cs) /\ Len(cs) \in Nat
      OBVIOUS
    <2> QED
      BY <2>1, <2>2
  <1> QED
    BY <1>1, <1>2

(* Looking at the clock adds the deadline at most.                         *)
LEMMA DeadlineOnly ==
  ASSUME NEW cs \in Seq(Candidate), NEW k \in DOMAIN recordDeadlineIfElapsed(cs)
  PROVE  \/ recordDeadlineIfElapsed(cs)[k].cause = "total_timeout"
         \/ k \in DOMAIN cs /\ recordDeadlineIfElapsed(cs)[k] = cs[k]
  BY RecordOnly DEF recordDeadlineIfElapsed

(* The statuses a cause leaves behind.                                     *)
LEMMA StruckStatuses ==
  \A c : /\ stepStatusFor(c) \in Struck
         /\ terminalStatusFor(c) \in Struck
         /\ terminalStatusFor(c) = "cancelled" <=> c \in CancellingCause
  BY DEF stepStatusFor, terminalStatusFor, Struck, CancellingCause

(* The retry policy sends back only failures that did nothing.             *)
LEMMA RetriedDidNothing ==
  ASSUME NEW i, NEW f \in StepFailure,
         DispositionOf(i, f) \in {"automatic_retry", "manual_repair"}
  PROVE  /\ attemptStatusFor(f.code) \in {"failed", "timed_out"}
         /\ f.effect \in {"read_only", "not_started"}
  <1> DEFINE in == [stepType |-> workflow[i], errorCode |-> f.code,
               effectCertainty |-> f.effect, recoveryMode |-> mode,
               automaticRetryCount |-> TriggerCount(i, "automatic_retry"),
               manualRetryCount |-> TriggerCount(i, "manual_retry"),
               totalAttemptCount |-> Len(attempts[i]),
               approvalGated |-> isApprovalGatedStep(i)]
  <1>1. decideRetry(in) \in {"automatic_retry", "manual_repair"}
    BY DEF DispositionOf
  <1>2. in.errorCode = f.code /\ in.effectCertainty = f.effect
    OBVIOUS
  <1> HIDE DEF in
  <1>3. RepeatIsSafe(in) /\ (AutomaticRetryAllowed(in) \/ ManualRepairAllowed(in))
    BY <1>1 DEF decideRetry
  <1>4. f.effect \in {"read_only", "not_started"}
    BY <1>2, <1>3 DEF RepeatIsSafe
  <1>5. f.code # "EXECUTION_CANCELLED"
    <2>1. AutomaticRetryAllowed(in) => f.code # "EXECUTION_CANCELLED"
      <3>1. AUTO_RETRY(in.stepType) \subseteq
              {"VERIFICATION_NOT_MATCHED", "LOCATOR_NOT_FOUND",
               "EXTRACTION_VALUE_UNAVAILABLE"}
        BY DEF AUTO_RETRY
      <3> QED
        BY <1>2, <3>1 DEF AutomaticRetryAllowed
    <2>2. classifyFailure("EXECUTION_CANCELLED") = "cancellation"
      BY DEF classifyFailure, VALIDATION_ERRORS, POLICY_ERRORS, APPROVAL_ERRORS,
         OUTPUT_ERRORS, INFRASTRUCTURE_ERRORS
    <2>3. ManualRepairAllowed(in) => f.code # "EXECUTION_CANCELLED"
      BY <1>2, <2>2 DEF ManualRepairAllowed, MANUAL_BLOCKED_CATEGORIES
    <2> QED
      BY <1>3, <2>1, <2>3
  <1> QED
    BY <1>4, <1>5 DEF attemptStatusFor

(* A repair that is not granted, or is granted too late, leaves a cause    *)
(* with the arbiter.                                                       *)
LEMMA UnrepairedIsKnown ==
  ASSUME EngineInv, RepairResumes, pc' = "settle"
  PROVE  Known'
  <1> DEFINE cs == recordDeadlineIfElapsed(candidates)
  <1>1. /\ Recorded(cs) /\ DeadlineNoticed(cs) /\ now \in Nat
        /\ locked \in Candidate \cup {NoCause}
        /\ repairCause(answer[current]) \in RacingCause
    BY AtHand, CausesType DEF EngineInv, TypeOK
  <1>2. CASE lockWinner(cs) # NoCause
    BY <1>2 DEF RepairResumes, Known
  <1>3. CASE lockWinner(cs) = NoCause
    <2>1. candidates' = record(cs, repairCause(answer[current]), now)
      BY <1>3 DEF RepairResumes
    <2>2. locked = NoCause
      BY <1>1, <1>3, LockWinner DEF Recorded
    <2> QED
      BY <1>1, <2>1, <2>2, RecordMore DEF Known
  <1> QED
    BY <1>2, <1>3

-----------------------------------------------------------------------------
(* Every step preserves the invariant                                      *)

(* A cause is chosen only on the way to the end.                           *)
LEMMA UnchosenStep ==
  ASSUME EngineInv, OutcomeInv, [Next]_vars
  PROVE  Unchosen'
  <1>0. OutcomeInv /\ Unchosen
    BY DEF OutcomeInv
  <1>1. CASE Tick
    BY <1>1, <1>0 DEF Tick, Unchosen, clockVars, arbiterVars, loopVars,
       stepVars
  <1>2. CASE Timer
    BY <1>2, <1>0 DEF Timer, Unchosen, clockVars, arbiterVars, loopVars,
       stepVars
  <1>3. CASE Abort
    BY <1>3, <1>0 DEF Abort, Unchosen, clockVars, arbiterVars, loopVars,
       stepVars
  <1>4. CASE Begin
    BY <1>4, <1>0 DEF Begin, CancelBeforeStart, Unchosen, clockVars,
       arbiterVars, loopVars, stepVars
  <1>5. CASE Preflight
    BY <1>5, <1>0 DEF Preflight, CancelBeforeStart, Unchosen, clockVars,
       arbiterVars, loopVars, stepVars
  <1>6. CASE Cancelled
    BY <1>6, <1>0 DEF Cancelled, Unchosen, clockVars, arbiterVars, loopVars,
       stepVars
  <1>7. CASE StepHead
    BY <1>7, <1>0 DEF StepHead, ChoosePrimary, Unchosen, clockVars,
       arbiterVars, loopVars, stepVars
  <1>8. CASE RequestApproval
    BY <1>8, <1>0 DEF RequestApproval, Unchosen, clockVars, arbiterVars,
       loopVars, stepVars
  <1>9. CASE ApprovalResumes
    BY <1>9, <1>0 DEF ApprovalResumes, Unchosen, clockVars, arbiterVars,
       loopVars, stepVars
  <1>10. CASE AttemptHead
    BY <1>10, <1>0 DEF AttemptHead, ChoosePrimary, Unchosen, clockVars,
       arbiterVars, loopVars, stepVars
  <1>11. CASE RepairResumes
    BY <1>11, <1>0 DEF RepairResumes, Unchosen, clockVars, arbiterVars,
       loopVars, stepVars
  <1>12. CASE Settle
    BY <1>12, <1>0 DEF Settle, ChoosePrimary, Unchosen, clockVars, arbiterVars,
       loopVars, stepVars
  <1>13. CASE Finish
    BY <1>13, <1>0 DEF Finish, Unchosen, clockVars, arbiterVars, loopVars,
       stepVars
  <1>14. ASSUME NEW ok \in BOOLEAN, AdapterStarts(ok) PROVE Unchosen'
    BY <1>14, <1>0 DEF AdapterStarts, ChoosePrimary, Unchosen, clockVars,
       arbiterVars, loopVars, stepVars
  <1>15. CASE StepSucceeds
    BY <1>15, <1>0 DEF StepSucceeds, Unchosen, clockVars, arbiterVars,
       loopVars, stepVars
  <1>16. ASSUME NEW f \in StepFailure, StepFails(f) PROVE Unchosen'
    BY <1>16, <1>0 DEF StepFails, Unchosen, clockVars, arbiterVars, loopVars,
       stepVars
  <1>17. ASSUME NEW clean \in BOOLEAN, AdapterStops(clean) PROVE Unchosen'
    BY <1>17, <1>0 DEF AdapterStops, Unchosen, clockVars, arbiterVars,
       loopVars, stepVars
  <1>18. ASSUME NEW d \in ApprovalDecision, ApprovalAnswers(d) PROVE Unchosen'
    BY <1>18, <1>0 DEF ApprovalAnswers, Unchosen, clockVars, arbiterVars,
       loopVars, stepVars
  <1>19. CASE ApprovalRequestFails
    BY <1>19, <1>0 DEF ApprovalRequestFails, Unchosen, clockVars, arbiterVars,
       loopVars, stepVars
  <1>20. ASSUME NEW d \in RepairDecision, RepairAnswers(d) PROVE Unchosen'
    BY <1>20, <1>0 DEF RepairAnswers, Unchosen, clockVars, arbiterVars,
       loopVars, stepVars
  <1>21. CASE RepairRequestFails
    BY <1>21, <1>0 DEF RepairRequestFails, Unchosen, clockVars, arbiterVars,
       loopVars, stepVars
  <1>22. CASE UNCHANGED vars
    BY <1>22, <1>0 DEF vars, Unchosen, clockVars, arbiterVars, loopVars,
       stepVars
  <1> QED
    BY <1>1, <1>2, <1>3, <1>4, <1>5, <1>6, <1>7, <1>8, <1>9, <1>10, <1>11,
       <1>12, <1>13, <1>14, <1>15, <1>16, <1>17, <1>18, <1>19, <1>20, <1>21,
       <1>22 DEF Next, Engine, Adapter, Coordinators

(* Before the first step only the adapter, the deadline and the caller     *)
(* have recorded a cause.                                                  *)
LEMMA StartCausesStep ==
  ASSUME EngineInv, OutcomeInv, [Next]_vars
  PROVE  StartCauses'
  <1>0. /\ TypeOK /\ EngineInv /\ OutcomeInv
        /\ candidates \in Seq(Candidate) /\ locked \in Candidate \cup {NoCause}
        /\ now \in Nat
    BY AtHand DEF EngineInv, TypeOK
  <1>1. CASE Tick
    BY <1>1, <1>0 DEF Tick, OutcomeInv, RunFollows, Unchosen, StartCauses,
       clockVars, arbiterVars, loopVars, stepVars
  <1>2. CASE Timer
    BY <1>2, <1>0, RecordOnly
       DEF Timer, OutcomeInv, StartCauses, RunFollows, StartCause, Awaiting, LiveRun
  <1>3. CASE Abort
    <2>1. CASE pc \in {"new", "validating"}
      BY <1>3, <1>0, <2>1 DEF Abort, OutcomeInv, StartCauses, RunFollows
    <2>2. CASE pc \notin {"new", "validating"}
      <3>1. /\ candidates' = record(candidates, "run_cancelled", now)
            /\ UNCHANGED <<run, locked>>
            /\ run \notin {"pending", "validating"}
        <4>1. /\ pc \notin {"new", "validating", "cancelling", "stopping", "done"}
              /\ candidates' = record(candidates, "run_cancelled", now)
              /\ UNCHANGED <<run, locked>>
          BY <1>3, <2>2 DEF Abort
        <4> QED
          BY <1>0, <4>1 DEF OutcomeInv, RunFollows, TypeOK, LiveRun
      <3> QED
        BY <1>0, <3>1, RecordOnly DEF OutcomeInv, StartCauses, StartCause
    <2> QED
      BY <2>1, <2>2
  <1>4. CASE Begin
    BY <1>4, <1>0 DEF Begin, CancelBeforeStart, OutcomeInv, RunFollows,
       Unchosen, StartCauses, clockVars, arbiterVars, loopVars, stepVars
  <1>5. CASE Preflight
    BY <1>5, <1>0 DEF Preflight, CancelBeforeStart, OutcomeInv, RunFollows,
       Unchosen, StartCauses, clockVars, arbiterVars, loopVars, stepVars
  <1>6. CASE Cancelled
    <2>1. run' \notin {"starting", "pending", "validating"}
      BY <1>6, <1>0 DEF Cancelled, OutcomeInv, RunFollows, LiveRun
    <2> QED
      BY <2>1 DEF StartCauses
  <1>7. CASE StepHead
    <2>1. run' \notin {"starting", "pending", "validating"}
      BY <1>7, <1>0 DEF StepHead, OutcomeInv, RunFollows, LiveRun
    <2> QED
      BY <2>1 DEF StartCauses
  <1>8. CASE RequestApproval
    <2>1. run' \notin {"starting", "pending", "validating"}
      BY <1>8, <1>0 DEF RequestApproval, OutcomeInv, RunFollows, LiveRun
    <2> QED
      BY <2>1 DEF StartCauses
  <1>9. CASE ApprovalResumes
    <2>1. run' \notin {"starting", "pending", "validating"}
      BY <1>9, <1>0 DEF ApprovalResumes, OutcomeInv, RunFollows, LiveRun
    <2> QED
      BY <2>1 DEF StartCauses
  <1>10. CASE AttemptHead
    <2>1. run' \notin {"starting", "pending", "validating"}
      BY <1>10, <1>0 DEF AttemptHead, OutcomeInv, RunFollows, LiveRun
    <2> QED
      BY <2>1 DEF StartCauses
  <1>11. CASE RepairResumes
    <2>1. run' \notin {"starting", "pending", "validating"}
      BY <1>11, <1>0 DEF RepairResumes, OutcomeInv, RunFollows, LiveRun
    <2> QED
      BY <2>1 DEF StartCauses
  <1>12. CASE Settle
    <2>1. run' \notin {"starting", "pending", "validating"}
      BY <1>12, <1>0 DEF Settle, OutcomeInv, RunFollows, LiveRun
    <2> QED
      BY <2>1 DEF StartCauses
  <1>13. CASE Finish
    <2>1. CASE locked = NoCause
      BY <1>13, <1>0, <2>1 DEF Finish, OutcomeInv, RunFollows, StartCauses
    <2>2. CASE locked # NoCause
      <3>1. run' \notin {"starting", "pending", "validating"}
        BY <1>13, <2>2, StruckStatuses DEF Finish, Struck
      <3> QED
        BY <3>1 DEF StartCauses
    <2> QED
      BY <2>1, <2>2
  <1>14. ASSUME NEW ok \in BOOLEAN, AdapterStarts(ok) PROVE StartCauses'
    <2> DEFINE cs == IF ok THEN candidates
                     ELSE record(candidates, "adapter_start_failed", now)
               all == recordDeadlineIfElapsed(cs)
    <2>1. /\ run = "starting" /\ candidates' = all /\ locked' = lockWinner(all)
          /\ run' \in {"running", "starting"} /\ locked = NoCause
      BY <1>14, <1>0 DEF AdapterStarts, ChoosePrimary, OutcomeInv, RunFollows, Unchosen
    <2>2. \A k \in DOMAIN candidates : candidates[k].cause \in StartCause
      BY <1>0, <2>1 DEF OutcomeInv, StartCauses
    <2>3. Recorded(candidates) /\ Recorded(cs)
      BY <1>0, AtHand, RecordFacts, CausesType
    <2>4. \A k \in DOMAIN cs : cs[k].cause \in StartCause
      BY <1>0, <2>2, RecordOnly DEF StartCause
    <2>5. cs \in Seq(Candidate)
      BY <2>3 DEF Recorded
    <2> HIDE DEF cs
    <2>6. \A k \in DOMAIN all : all[k].cause \in StartCause
      BY <2>4, <2>5, DeadlineOnly DEF StartCause
    <2>7. all \in Seq(Candidate)
      BY <1>0, <2>3, DeadlineFacts DEF Recorded
    <2> HIDE DEF all
    <2>8. locked' # NoCause => locked'.cause \in StartCause
      BY <1>0, <2>1, <2>6, <2>7, LockWinner
    <2> QED
      BY <2>1, <2>6, <2>8 DEF StartCauses
  <1>15. CASE StepSucceeds
    <2>1. run' \notin {"starting", "pending", "validating"}
      BY <1>15, <1>0 DEF StepSucceeds, OutcomeInv, RunFollows, LiveRun
    <2> QED
      BY <2>1 DEF StartCauses
  <1>16. ASSUME NEW f \in StepFailure, StepFails(f) PROVE StartCauses'
    <2>1. run' \notin {"starting", "pending", "validating"}
      BY <1>16, <1>0 DEF StepFails, OutcomeInv, RunFollows, LiveRun
    <2> QED
      BY <2>1 DEF StartCauses
  <1>17. ASSUME NEW clean \in BOOLEAN, AdapterStops(clean) PROVE StartCauses'
    <2>1. run' \notin {"starting", "pending", "validating"}
      BY <1>17, StruckStatuses DEF AdapterStops, Struck
    <2> QED
      BY <2>1 DEF StartCauses
  <1>18. ASSUME NEW d \in ApprovalDecision, ApprovalAnswers(d) PROVE StartCauses'
    <2>1. run' \notin {"starting", "pending", "validating"}
      BY <1>18, <1>0 DEF ApprovalAnswers, OutcomeInv, RunFollows, LiveRun
    <2> QED
      BY <2>1 DEF StartCauses
  <1>19. CASE ApprovalRequestFails
    <2>1. run' \notin {"starting", "pending", "validating"}
      BY <1>19, <1>0 DEF ApprovalRequestFails, OutcomeInv, RunFollows, LiveRun
    <2> QED
      BY <2>1 DEF StartCauses
  <1>20. ASSUME NEW d \in RepairDecision, RepairAnswers(d) PROVE StartCauses'
    <2>1. run' \notin {"starting", "pending", "validating"}
      BY <1>20, <1>0 DEF RepairAnswers, OutcomeInv, RunFollows, LiveRun
    <2> QED
      BY <2>1 DEF StartCauses
  <1>21. CASE RepairRequestFails
    <2>1. run' \notin {"starting", "pending", "validating"}
      BY <1>21, <1>0 DEF RepairRequestFails, OutcomeInv, RunFollows, LiveRun
    <2> QED
      BY <2>1 DEF StartCauses
  <1>22. CASE UNCHANGED vars
    BY <1>22, <1>0 DEF vars, OutcomeInv, RunFollows, Unchosen, StartCauses,
       clockVars, arbiterVars, loopVars, stepVars
  <1> QED
    BY <1>1, <1>2, <1>3, <1>4, <1>5, <1>6, <1>7, <1>8, <1>9, <1>10, <1>11,
       <1>12, <1>13, <1>14, <1>15, <1>16, <1>17, <1>18, <1>19, <1>20, <1>21,
       <1>22 DEF Next, Engine, Adapter, Coordinators

(* The run announces where the function is.                                *)
LEMMA RunStep ==
  ASSUME EngineInv, OutcomeInv, [Next]_vars
  PROVE  RunFollows'
  <1>0. EngineInv /\ TypeOK /\ RunFollows /\ Unchosen /\ (Known => Known')
    BY ArbiterStep DEF OutcomeInv, EngineInv, ArbiterMoves
  <1>1. CASE Tick
    BY <1>1, <1>0 DEF Tick, RunFollows, Unchosen, LiveRun, StoppingStatus,
       Ending, clockVars, arbiterVars, loopVars, stepVars
  <1>2. CASE Timer
    BY <1>2, <1>0 DEF Timer, Awaiting, Ending, Known, loopVars, RunFollows,
       StoppingStatus
  <1>3. CASE Abort
    BY <1>3, <1>0 DEF Abort, Ending, Known, loopVars, RunFollows, StoppingStatus
  <1>4. CASE Begin
    BY <1>4, <1>0 DEF Begin, CancelBeforeStart, RunFollows, Unchosen, LiveRun,
       StoppingStatus, Ending, clockVars, arbiterVars, loopVars, stepVars
  <1>5. CASE Preflight
    BY <1>5, <1>0 DEF Preflight, CancelBeforeStart, RunFollows, Unchosen,
       LiveRun, StoppingStatus, Ending, clockVars, arbiterVars, loopVars,
       stepVars
  <1>6. CASE Cancelled
    BY <1>6, <1>0 DEF Cancelled, RunFollows, Unchosen, LiveRun, StoppingStatus,
       Ending, clockVars, arbiterVars, loopVars, stepVars
  <1>7. CASE StepHead
    BY <1>7, <1>0 DEF StepHead, ChoosePrimary, RunFollows, Unchosen, LiveRun,
       StoppingStatus, Ending, clockVars, arbiterVars, loopVars, stepVars
  <1>8. CASE RequestApproval
    BY <1>8, <1>0 DEF RequestApproval, RunFollows, Unchosen, LiveRun,
       StoppingStatus, Ending, clockVars, arbiterVars, loopVars, stepVars
  <1>9. CASE ApprovalResumes
    <2>1. pc' = "settle" => Ending'
      BY <1>9, <1>0, RefusedIsKnown DEF Known, Ending
    <2> QED
      BY <1>9, <1>0, <2>1 DEF ApprovalResumes, RunFollows, LiveRun
  <1>10. CASE AttemptHead
    BY <1>10, <1>0 DEF AttemptHead, ChoosePrimary, RunFollows, Unchosen,
       LiveRun, StoppingStatus, Ending, clockVars, arbiterVars, loopVars,
       stepVars
  <1>11. CASE RepairResumes
    <2>1. pc' = "settle" => Ending'
      BY <1>11, <1>0, UnrepairedIsKnown DEF Known, Ending
    <2> QED
      BY <1>11, <1>0, <2>1 DEF RepairResumes, RunFollows, LiveRun
  <1>12. CASE Settle
    BY <1>12, <1>0, SettledIsNotEnding DEF Settle, RunFollows, LiveRun
  <1>13. CASE Finish
    BY <1>13, <1>0 DEF Finish, RunFollows, Unchosen, LiveRun, StoppingStatus,
       Ending, clockVars, arbiterVars, loopVars, stepVars
  <1>14. ASSUME NEW ok \in BOOLEAN, AdapterStarts(ok) PROVE RunFollows'
    BY <1>14, <1>0 DEF AdapterStarts, ChoosePrimary, RunFollows, Unchosen,
       LiveRun, StoppingStatus, Ending, clockVars, arbiterVars, loopVars,
       stepVars
  <1>15. CASE StepSucceeds
    BY <1>15, <1>0 DEF StepSucceeds, RunFollows, Unchosen, LiveRun,
       StoppingStatus, Ending, clockVars, arbiterVars, loopVars, stepVars
  <1>16. ASSUME NEW f \in StepFailure, StepFails(f) PROVE RunFollows'
    BY <1>16, <1>0 DEF StepFails, RunFollows, Unchosen, LiveRun,
       StoppingStatus, Ending, clockVars, arbiterVars, loopVars, stepVars
  <1>17. ASSUME NEW clean \in BOOLEAN, AdapterStops(clean) PROVE RunFollows'
    BY <1>17, <1>0 DEF AdapterStops, RunFollows, Unchosen, LiveRun,
       StoppingStatus, Ending, clockVars, arbiterVars, loopVars, stepVars
  <1>18. ASSUME NEW d \in ApprovalDecision, ApprovalAnswers(d) PROVE RunFollows'
    BY <1>18, <1>0 DEF ApprovalAnswers, RunFollows, Unchosen, LiveRun,
       StoppingStatus, Ending, clockVars, arbiterVars, loopVars, stepVars
  <1>19. CASE ApprovalRequestFails
    BY <1>19, <1>0 DEF ApprovalRequestFails, Ending, RunFollows, LiveRun
  <1>20. ASSUME NEW d \in RepairDecision, RepairAnswers(d) PROVE RunFollows'
    BY <1>20, <1>0 DEF RepairAnswers, RunFollows, Unchosen, LiveRun,
       StoppingStatus, Ending, clockVars, arbiterVars, loopVars, stepVars
  <1>21. CASE RepairRequestFails
    BY <1>21, <1>0 DEF RepairRequestFails, Ending, RunFollows, LiveRun
  <1>22. CASE UNCHANGED vars
    BY <1>22, <1>0 DEF vars, RunFollows, Unchosen, LiveRun, StoppingStatus,
       Ending, clockVars, arbiterVars, loopVars, stepVars
  <1> QED
    BY <1>1, <1>2, <1>3, <1>4, <1>5, <1>6, <1>7, <1>8, <1>9, <1>10, <1>11,
       <1>12, <1>13, <1>14, <1>15, <1>16, <1>17, <1>18, <1>19, <1>20, <1>21,
       <1>22 DEF Next, Engine, Adapter, Coordinators

(* The records of the steps say where the function is.                     *)
LEMMA StepsStep ==
  ASSUME EngineInv, OutcomeInv, [Next]_vars
  PROVE  StepsFollow'
  <1>0. /\ EngineInv /\ StepsFollow /\ Unchosen /\ AtStep
        /\ status \in [Steps -> EngineStepStatus]
        /\ Steps = 1..Len(workflow) /\ Len(workflow) \in Nat \ {0}
        /\ current \in 1..(Len(workflow) + 1)
        /\ Known => Known'
    <2>1. Len(workflow) \in Nat \ {0}
      BY WorkflowsAssumption DEF EngineInv, TypeOK
    <2> QED
      BY <2>1, WorkflowType, ArbiterStep DEF OutcomeInv, EngineInv, TypeOK, ArbiterMoves
  <1>1. CASE Tick
    BY <1>1, <1>0 DEF Tick, Ending, arbiterVars, loopVars, stepVars, StepsFollow,
       InStep, Steps
  <1>2. CASE Timer
    BY <1>2, <1>0 DEF Timer, Awaiting, Ending, Known, loopVars, stepVars, StepsFollow,
       InStep, Steps
  <1>3. CASE Abort
    BY <1>3, <1>0 DEF Abort, Ending, Known, loopVars, stepVars, StepsFollow, InStep,
       Steps
  <1>4. CASE Begin
    BY <1>4, <1>0 DEF Begin, CancelBeforeStart, skipPending, loopVars, StepsFollow,
       InStep, Steps
  <1>5. CASE Preflight
    BY <1>5, <1>0 DEF Preflight, CancelBeforeStart, skipPending, loopVars,
       StepsFollow, InStep, Steps
  <1>6. CASE Cancelled
    BY <1>6 DEF Cancelled, StepsFollow, InStep
  <1>7. CASE StepHead
    <2>1. CASE pc' = "finish"
      <3>1. /\ pc = "stepHead" /\ locked = NoCause
            /\ UNCHANGED <<workflow, current, status>>
            /\ IF locked' = NoCause THEN current > Len(workflow)
                                   ELSE current <= Len(workflow)
        BY <1>7, <1>0, <2>1 DEF StepHead, Unchosen, arbiterVars
      <3>2. \A i \in Steps : i >= current => status[i] = "pending"
        BY <1>0, <3>1 DEF StepsFollow
      <3>3. IF locked' = NoCause THEN current \notin Steps ELSE current \in Steps
        BY <1>0, <3>1
      <3> QED
        BY <1>0, <2>1, <3>1, <3>2, <3>3 DEF StepsFollow, InStep, Steps
    <2>2. CASE pc' # "finish"
      <3>1. /\ pc = "stepHead" /\ current \in Steps
            /\ status' = [status EXCEPT ![current] = "running"]
            /\ pc' \in {"approvalHead", "attemptHead"}
            /\ UNCHANGED <<workflow, current>>
        BY <1>7, <1>0, <2>2 DEF StepHead
      <3> QED
        BY <1>0, <3>1 DEF StepsFollow, InStep, Steps
    <2> QED
      BY <2>1, <2>2
  <1>8. CASE RequestApproval
    <2>1. /\ pc \in {"approvalHead"} /\ pc' \in {"awaitingApproval"}
          /\ status' = [status EXCEPT ![current] = "waiting_for_approval"]
          /\ UNCHANGED <<workflow, current>>
      BY <1>8 DEF RequestApproval, loopVars, clockVars, stepVars
    <2>2. current \in Steps
      BY <1>0, <2>1 DEF AtStep, InStep
    <2> QED
      BY <1>0, <2>1, <2>2 DEF StepsFollow, InStep, Steps
  <1>9. CASE ApprovalResumes
    <2>1. /\ pc = "approvalAnswered" /\ pc' \in {"stepHead", "settle"}
          /\ IF pc' = "stepHead"
             THEN /\ status' = [status EXCEPT ![current] = "succeeded"]
                  /\ current' = current + 1
             ELSE UNCHANGED <<status, current>>
          /\ UNCHANGED workflow
      BY <1>9 DEF ApprovalResumes
    <2>2. current \in Steps
      BY <1>0, <2>1 DEF AtStep, InStep
    <2>3. pc' = "settle" => Ending'
      BY <1>9, <1>0, RefusedIsKnown DEF Known, Ending
    <2>4. CASE pc' = "settle"
      BY <1>0, <2>1, <2>2, <2>3, <2>4 DEF StepsFollow, InStep, Steps
    <2>5. CASE pc' = "stepHead"
      <3>1. \A i \in Steps : i >= current' => i > current
        BY <1>0, <2>1, <2>5
      <3> QED
        BY <1>0, <2>1, <2>2, <2>5, <3>1 DEF StepsFollow, InStep, Steps
    <2> QED
      BY <2>1, <2>4, <2>5
  <1>10. CASE AttemptHead
    <2>1. /\ pc \in {"attemptHead"} /\ pc' \in {"settle", "executing"}
          /\ status' = status
          /\ UNCHANGED <<workflow, current>>
      BY <1>10 DEF AttemptHead, loopVars, clockVars, stepVars
    <2>2. current \in Steps
      BY <1>0, <2>1 DEF AtStep, InStep
    <2> QED
      BY <1>0, <2>1, <2>2 DEF StepsFollow, InStep, Steps
  <1>11. CASE RepairResumes
    <2>1. /\ pc = "repairAnswered" /\ pc' \in {"attemptHead", "settle"}
          /\ IF pc' = "attemptHead"
             THEN status' = [status EXCEPT ![current] = "running"]
             ELSE status' = status
          /\ UNCHANGED <<workflow, current>>
      BY <1>11 DEF RepairResumes
    <2>2. current \in Steps
      BY <1>0, <2>1 DEF AtStep, InStep
    <2>3. pc' = "settle" => Ending'
      BY <1>11, <1>0, UnrepairedIsKnown DEF Known, Ending
    <2> QED
      BY <1>0, <2>1, <2>2, <2>3 DEF StepsFollow, InStep, Steps
  <1>12. CASE Settle
    <2>1. /\ pc = "settle" /\ UNCHANGED workflow
          /\ \/ /\ locked' = NoCause /\ pc' = "stepHead" /\ current' = current + 1
                /\ status' = [status EXCEPT ![current] = "succeeded"]
             \/ /\ locked' # NoCause /\ pc' = "finish" /\ current' = current
                /\ status' = [status EXCEPT ![current] = stepStatusFor(locked'.cause)]
      BY <1>12 DEF Settle
    <2>2. current \in Steps
      BY <1>0, <2>1 DEF AtStep, InStep
    <2>3. CASE pc' = "stepHead"
      <3>1. \A i \in Steps : i >= current' => i > current
        BY <1>0, <2>1, <2>3
      <3> QED
        BY <1>0, <2>1, <2>2, <2>3, <3>1 DEF StepsFollow, InStep, Steps
    <2>4. CASE pc' = "finish"
      <3>1. status'[current] \in Struck
        BY <1>0, <2>1, <2>2, <2>4, StruckStatuses
      <3>2. \A i \in Steps : i > current => status'[i] = "pending"
        BY <1>0, <2>1, <2>2, <2>4 DEF StepsFollow, InStep
      <3> QED
        BY <1>0, <2>1, <2>2, <2>4, <3>1, <3>2 DEF StepsFollow, InStep, Steps
    <2> QED
      BY <2>1, <2>3, <2>4
  <1>13. CASE Finish
    <2>1. /\ pc = "finish" /\ pc' = "stopping" /\ UNCHANGED <<workflow, current, locked>>
          /\ locked # NoCause => status' = skipPending
      BY <1>13 DEF Finish, arbiterVars, loopVars
    <2> QED
      BY <1>0, <2>1 DEF skipPending, StepsFollow, InStep, Steps, Struck
  <1>14. ASSUME NEW ok \in BOOLEAN, AdapterStarts(ok) PROVE StepsFollow'
    BY <1>14, <1>0 DEF AdapterStarts, ChoosePrimary, stepVars, loopVars, StepsFollow,
       InStep, Steps
  <1>15. CASE StepSucceeds
    <2>1. /\ pc \in {"executing"} /\ pc' \in {"settle"}
          /\ status' = status
          /\ UNCHANGED <<workflow, current>>
      BY <1>15 DEF StepSucceeds, loopVars, clockVars, stepVars
    <2>2. current \in Steps
      BY <1>0, <2>1 DEF AtStep, InStep
    <2> QED
      BY <1>0, <2>1, <2>2 DEF StepsFollow, InStep, Steps
  <1>16. ASSUME NEW f \in StepFailure, StepFails(f) PROVE StepsFollow'
    <2>1. /\ pc \in {"executing"} /\ pc' \in {"attemptHead", "awaitingRepair", "settle"}
          /\ IF pc' = "awaitingRepair"
             THEN status' = [status EXCEPT ![current] = "waiting_for_repair"]
             ELSE status' = status
          /\ UNCHANGED <<workflow, current>>
      BY <1>16 DEF StepFails, loopVars, clockVars, stepVars
    <2>2. current \in Steps
      BY <1>0, <2>1 DEF AtStep, InStep
    <2> QED
      BY <1>0, <2>1, <2>2 DEF StepsFollow, InStep, Steps
  <1>17. ASSUME NEW clean \in BOOLEAN, AdapterStops(clean) PROVE StepsFollow'
    BY <1>17 DEF AdapterStops, StepsFollow, InStep
  <1>18. ASSUME NEW d \in ApprovalDecision, ApprovalAnswers(d) PROVE StepsFollow'
    <2>1. /\ pc \in {"awaitingApproval"} /\ pc' \in {"approvalAnswered"}
          /\ status' = status
          /\ UNCHANGED <<workflow, current>>
      BY <1>18 DEF ApprovalAnswers, loopVars, clockVars, stepVars
    <2>2. current \in Steps
      BY <1>0, <2>1 DEF AtStep, InStep
    <2> QED
      BY <1>0, <2>1, <2>2 DEF StepsFollow, InStep, Steps
  <1>19. CASE ApprovalRequestFails
    <2>1. /\ pc \in {"awaitingApproval"} /\ pc' \in {"settle"}
          /\ status' = status /\ stepError' = "failure"
          /\ UNCHANGED <<workflow, current>>
      BY <1>19 DEF ApprovalRequestFails, loopVars, clockVars, stepVars
    <2>2. current \in Steps
      BY <1>0, <2>1 DEF AtStep, InStep
    <2> QED
      BY <1>0, <2>1, <2>2 DEF Ending, StepsFollow, InStep, Steps
  <1>20. ASSUME NEW d \in RepairDecision, RepairAnswers(d) PROVE StepsFollow'
    <2>1. /\ pc \in {"awaitingRepair"} /\ pc' \in {"repairAnswered"}
          /\ status' = status
          /\ UNCHANGED <<workflow, current>>
      BY <1>20 DEF RepairAnswers, loopVars, clockVars, stepVars
    <2>2. current \in Steps
      BY <1>0, <2>1 DEF AtStep, InStep
    <2> QED
      BY <1>0, <2>1, <2>2 DEF StepsFollow, InStep, Steps
  <1>21. CASE RepairRequestFails
    <2>1. /\ pc \in {"awaitingRepair"} /\ pc' \in {"settle"}
          /\ status' = status /\ stepError' = "failure"
          /\ UNCHANGED <<workflow, current>>
      BY <1>21 DEF RepairRequestFails, loopVars, clockVars, stepVars
    <2>2. current \in Steps
      BY <1>0, <2>1 DEF AtStep, InStep
    <2> QED
      BY <1>0, <2>1, <2>2 DEF Ending, StepsFollow, InStep, Steps
  <1>22. CASE UNCHANGED vars
    BY <1>22, <1>0 DEF vars, Ending, arbiterVars, loopVars, stepVars, StepsFollow,
       InStep, Steps
  <1> QED
    BY <1>1, <1>2, <1>3, <1>4, <1>5, <1>6, <1>7, <1>8, <1>9, <1>10, <1>11,
       <1>12, <1>13, <1>14, <1>15, <1>16, <1>17, <1>18, <1>19, <1>20, <1>21,
       <1>22 DEF Next, Engine, Adapter, Coordinators

(* Starting an attempt after repeatable ones repeats no effect.            *)
LEMMA BeginKeeps ==
  ASSUME TypeOK, NoEffectRepeated, workflow' = workflow, NEW i \in Steps,
         NEW t \in RetryTrigger, beginAttempt(i, t),
         \A k \in DOMAIN attempts[i] : Repeatable(attempts[i][k])
  PROVE  NoEffectRepeated'
  <1>1. /\ attempts \in [Steps -> Seq(Attempt)]
        /\ attempts' \in [Steps -> Seq(Attempt)]
        /\ Len(attempts'[i]) = Len(attempts[i]) + 1
        /\ \A k \in 1..Len(attempts[i]) : attempts'[i][k] = attempts[i][k]
        /\ \A j \in Steps : j # i => attempts'[j] = attempts[j]
    BY BegunAttempt, BeginAttempt DEF TypeOK
  <1>2. SUFFICES ASSUME NEW j \in Steps, NEW k \in DOMAIN attempts'[j],
                        k < Len(attempts'[j])
                 PROVE  Repeatable(attempts'[j][k])
    BY DEF NoEffectRepeated, Repeatable, Steps
  <1>3. CASE j # i
    BY <1>1, <1>2, <1>3 DEF NoEffectRepeated, Repeatable
  <1>4. CASE j = i
    <2>1. attempts[i] \in Seq(Attempt) /\ attempts'[i] \in Seq(Attempt)
      BY <1>1
    <2>2. /\ DOMAIN attempts[i] = 1..Len(attempts[i]) /\ Len(attempts[i]) \in Nat
          /\ DOMAIN attempts'[i] = 1..Len(attempts'[i])
      BY <2>1
    <2>3. k \in 1..Len(attempts[i])
      BY <1>1, <1>2, <1>4, <2>2
    <2> QED
      BY <1>1, <1>4, <2>2, <2>3
  <1> QED
    BY <1>3, <1>4

(* Finishing an attempt leaves the earlier ones alone.                     *)
LEMMA FinishKeeps ==
  ASSUME TypeOK, NoEffectRepeated, workflow' = workflow, NEW i \in Steps,
         attempts[i] # <<>>, NEW st \in StepAttemptStatus,
         NEW eff \in EffectCertainty, finishAttempt(i, st, eff)
  PROVE  /\ NoEffectRepeated'
         /\ \A j \in Steps : j # i => attempts'[j] = attempts[j]
         /\ st \in {"failed", "timed_out"} /\ eff \in {"read_only", "not_started"} =>
              \A k \in DOMAIN attempts'[i] : Repeatable(attempts'[i][k])
  <1>1. /\ attempts \in [Steps -> Seq(Attempt)]
        /\ attempts' \in [Steps -> Seq(Attempt)]
        /\ Len(attempts'[i]) = Len(attempts[i])
        /\ \A k \in 1..Len(attempts[i]) :
             k < Len(attempts[i]) => attempts'[i][k] = attempts[i][k]
        /\ attempts'[i][Len(attempts[i])].status = st
        /\ attempts'[i][Len(attempts[i])].effect = eff
        /\ \A j \in Steps : j # i => attempts'[j] = attempts[j]
    BY FinishedAttempt, FinishAttempt DEF TypeOK
  <1>2. attempts[i] \in Seq(Attempt) /\ attempts'[i] \in Seq(Attempt)
    BY <1>1
  <1>3. /\ DOMAIN attempts[i] = 1..Len(attempts[i]) /\ Len(attempts[i]) \in Nat
        /\ DOMAIN attempts'[i] = 1..Len(attempts[i])
    BY <1>1, <1>2
  <1>4. \A k \in DOMAIN attempts'[i] :
          k < Len(attempts[i]) => Repeatable(attempts'[i][k])
    BY <1>1, <1>3 DEF NoEffectRepeated, Repeatable
  <1>5. NoEffectRepeated'
    <2> SUFFICES ASSUME NEW j \in Steps, NEW k \in DOMAIN attempts'[j],
                        k < Len(attempts'[j])
                 PROVE  Repeatable(attempts'[j][k])
      BY DEF NoEffectRepeated, Repeatable, Steps
    <2>1. CASE j # i
      BY <1>1, <2>1 DEF NoEffectRepeated, Repeatable
    <2>2. CASE j = i
      BY <1>1, <1>4, <2>2
    <2> QED
      BY <2>1, <2>2
  <1>6. ASSUME st \in {"failed", "timed_out"}, eff \in {"read_only", "not_started"},
               NEW k \in DOMAIN attempts'[i]
        PROVE  Repeatable(attempts'[i][k])
    BY <1>1, <1>3, <1>4, <1>6 DEF Repeatable
  <1> QED
    BY <1>1, <1>5, <1>6

(* No attempt follows one that may have changed the page.                  *)
LEMMA AttemptsStep ==
  ASSUME EngineInv, OutcomeInv, [Next]_vars
  PROVE  AttemptsFollow' /\ NoEffectRepeated'
  <1>0. /\ TypeOK /\ AttemptsFollow /\ NoEffectRepeated /\ AtStep /\ Walked
        /\ Steps = 1..Len(workflow) /\ Len(workflow) \in Nat /\ current \in Nat
        /\ current >= 1
    BY WorkflowType DEF OutcomeInv, EngineInv, TypeOK
  <1>1. CASE Tick
    BY <1>1, <1>0 DEF Tick, clockVars, arbiterVars, loopVars, stepVars,
       NoEffectRepeated, AttemptsFollow, Steps
  <1>2. CASE Timer
    BY <1>2, <1>0 DEF Timer, clockVars, arbiterVars, loopVars, stepVars,
       NoEffectRepeated, AttemptsFollow, Steps
  <1>3. CASE Abort
    BY <1>3, <1>0 DEF Abort, stepVars, loopVars, NoEffectRepeated, AttemptsFollow, Steps
  <1>4. CASE Begin
    BY <1>4, <1>0 DEF Begin, CancelBeforeStart, clockVars, arbiterVars,
       loopVars, stepVars, NoEffectRepeated, AttemptsFollow, Steps
  <1>5. CASE Preflight
    BY <1>5, <1>0 DEF Preflight, CancelBeforeStart, clockVars, arbiterVars,
       loopVars, stepVars, NoEffectRepeated, AttemptsFollow, Steps
  <1>6. CASE Cancelled
    BY <1>6, <1>0 DEF Cancelled, stepVars, NoEffectRepeated, AttemptsFollow, Steps
  <1>7. CASE StepHead
    <2>1. /\ pc = "stepHead" /\ pc' \in {"finish", "approvalHead", "attemptHead"}
          /\ UNCHANGED <<workflow, attempts, current>>
          /\ pc' # "finish" => current \in Steps
      BY <1>7, <1>0 DEF StepHead
    <2>2. current \in Steps => attempts[current] = <<>>
      BY <1>0, <2>1 DEF AttemptsFollow
    <2> QED
      BY <1>0, <2>1, <2>2 DEF NoEffectRepeated, AttemptsFollow, Steps
  <1>8. CASE RequestApproval
    <2>1. /\ current \in Steps /\ "initial" \in RetryTrigger
          /\ beginAttempt(current, "initial") /\ workflow' = workflow
          /\ pc' = "awaitingApproval"
      BY <1>8, <1>0 DEF AtStep, InStep, RequestApproval, RetryTrigger
    <2>2. attempts[current] = <<>>
      BY <1>8, <1>0, <2>1 DEF RequestApproval, AttemptsFollow
    <2> QED
      BY <1>0, <2>1, <2>2, BeginKeeps DEF AttemptsFollow
  <1>9. CASE ApprovalResumes
    <2>1. /\ current \in Steps /\ attempts[current] # <<>> /\ workflow' = workflow
          /\ pc' \in {"stepHead", "settle"}
          /\ pc' = "stepHead" => current' = current + 1
          /\ \/ attempts' = attempts
             \/ finishAttempt(current, "succeeded", "completed")
             \/ finishAttempt(current, approvalAttemptStatus(answer[current]),
                              "read_only")
      BY <1>9, <1>0 DEF AtStep, InStep, ApprovalResumes
    <2>2. NoEffectRepeated' /\ \A j \in Steps : j # current => attempts'[j] = attempts[j]
      <3>1. CASE attempts' = attempts
        BY <1>0, <2>1, <3>1 DEF NoEffectRepeated, Steps
      <3>2. CASE attempts' # attempts
        BY <1>0, <2>1, <3>2, FinishKeeps, StatusTypes
      <3> QED
        BY <3>1, <3>2
    <2>3. pc' = "stepHead" =>
            \A i \in Steps : i >= current' => i > current /\ attempts'[i] = <<>>
      BY <1>0, <2>1, <2>2 DEF Walked
    <2> QED
      BY <2>1, <2>2, <2>3 DEF AttemptsFollow, Steps
  <1>10. CASE AttemptHead
    <2>1. /\ current \in Steps /\ trigger \in RetryTrigger /\ workflow' = workflow
          /\ pc' \in {"executing", "settle"}
          /\ beginAttempt(current, trigger) \/ attempts' = attempts
      BY <1>10, <1>0 DEF AtStep, InStep, AttemptHead, TypeOK
    <2>2. \A k \in DOMAIN attempts[current] : Repeatable(attempts[current][k])
      BY <1>10, <1>0 DEF AttemptHead, AttemptsFollow
    <2>3. NoEffectRepeated'
      <3>1. CASE attempts' = attempts
        BY <1>0, <2>1, <3>1 DEF NoEffectRepeated, Steps
      <3>2. CASE beginAttempt(current, trigger)
        BY <1>0, <2>1, <2>2, <3>2, BeginKeeps
      <3> QED
        BY <2>1, <3>1, <3>2
    <2> QED
      BY <2>1, <2>3 DEF AttemptsFollow
  <1>11. CASE RepairResumes
    <2>1. /\ pc = "repairAnswered" /\ pc' \in {"attemptHead", "settle"}
          /\ UNCHANGED <<workflow, attempts, current>>
          /\ pc' = "attemptHead" => disposition = "manual_repair"
      BY <1>11, <1>0 DEF RepairResumes
    <2> QED
      BY <1>0, <2>1 DEF NoEffectRepeated, AttemptsFollow, Steps
  <1>12. CASE Settle
    <2>1. /\ workflow' = workflow /\ attempts' = attempts
          /\ pc' \in {"stepHead", "finish"}
          /\ pc' = "stepHead" => current' = current + 1
      BY <1>12 DEF Settle
    <2>2. pc' = "stepHead" =>
            \A i \in Steps : i >= current' => i > current /\ attempts'[i] = <<>>
      BY <1>0, <2>1 DEF Walked
    <2> QED
      BY <1>0, <2>1, <2>2 DEF NoEffectRepeated, AttemptsFollow, Steps
  <1>13. CASE Finish
    BY <1>13, <1>0 DEF Finish, stepVars, NoEffectRepeated, AttemptsFollow, Steps
  <1>14. ASSUME NEW ok \in BOOLEAN, AdapterStarts(ok) PROVE AttemptsFollow' /\ NoEffectRepeated'
    BY <1>14, <1>0 DEF AdapterStarts, ChoosePrimary, clockVars, arbiterVars,
       loopVars, stepVars, NoEffectRepeated, AttemptsFollow, Steps
  <1>15. CASE StepSucceeds
    <2>1. /\ current \in Steps /\ attempts[current] # <<>> /\ workflow' = workflow
          /\ finishAttempt(current, "succeeded", "completed") /\ pc' = "settle"
      BY <1>15, <1>0 DEF AtStep, InStep, StepSucceeds
    <2>2. NoEffectRepeated'
      BY <1>0, <2>1, FinishKeeps, StatusTypes
    <2> QED
      BY <2>1, <2>2 DEF AttemptsFollow
  <1>16. ASSUME NEW f \in StepFailure, StepFails(f) PROVE AttemptsFollow' /\ NoEffectRepeated'
    <2>1. /\ current \in Steps /\ attempts[current] # <<>>
          /\ UNCHANGED <<workflow, current>>
          /\ finishAttempt(current, attemptStatusFor(f.code), f.effect)
          /\ disposition' = DispositionOf(current, f)
          /\ pc' \in {"attemptHead", "awaitingRepair", "settle"}
          /\ pc' = "attemptHead" => disposition' = "automatic_retry"
      BY <1>16, <1>0 DEF AtStep, InStep, StepFails
    <2>2. /\ f.effect \in EffectCertainty
          /\ attemptStatusFor(f.code) \in StepAttemptStatus
      BY FailureTypes, StatusTypes
    <2>3. NoEffectRepeated'
      BY <1>0, <2>1, <2>2, FinishKeeps
    <2>4. disposition' \in {"automatic_retry", "manual_repair"} =>
            \A k \in DOMAIN attempts'[current] : Repeatable(attempts'[current][k])
      BY <1>0, <2>1, <2>2, FinishKeeps, RetriedDidNothing
    <2> QED
      BY <2>1, <2>3, <2>4 DEF AttemptsFollow
  <1>17. ASSUME NEW clean \in BOOLEAN, AdapterStops(clean) PROVE AttemptsFollow' /\ NoEffectRepeated'
    BY <1>17, <1>0 DEF AdapterStops, stepVars, NoEffectRepeated, AttemptsFollow, Steps
  <1>18. ASSUME NEW d \in ApprovalDecision, ApprovalAnswers(d) PROVE AttemptsFollow' /\ NoEffectRepeated'
    BY <1>18, <1>0 DEF ApprovalAnswers, clockVars, arbiterVars, loopVars,
       stepVars, NoEffectRepeated, AttemptsFollow, Steps
  <1>19. CASE ApprovalRequestFails
    <2>1. /\ current \in Steps /\ attempts[current] # <<>> /\ workflow' = workflow
          /\ finishAttempt(current, "failed", "unknown") /\ pc' = "settle"
      BY <1>19, <1>0 DEF AtStep, InStep, ApprovalRequestFails
    <2>2. NoEffectRepeated'
      BY <1>0, <2>1, FinishKeeps, StatusTypes
    <2> QED
      BY <2>1, <2>2 DEF AttemptsFollow
  <1>20. ASSUME NEW d \in RepairDecision, RepairAnswers(d) PROVE AttemptsFollow' /\ NoEffectRepeated'
    BY <1>20, <1>0 DEF RepairAnswers, clockVars, arbiterVars, loopVars,
       stepVars, NoEffectRepeated, AttemptsFollow, Steps
  <1>21. CASE RepairRequestFails
    BY <1>21, <1>0 DEF RepairRequestFails, stepVars, NoEffectRepeated, AttemptsFollow, Steps
  <1>22. CASE UNCHANGED vars
    BY <1>22, <1>0 DEF vars, clockVars, arbiterVars, loopVars, stepVars,
       NoEffectRepeated, AttemptsFollow, Steps
  <1> QED
    BY <1>1, <1>2, <1>3, <1>4, <1>5, <1>6, <1>7, <1>8, <1>9, <1>10, <1>11,
       <1>12, <1>13, <1>14, <1>15, <1>16, <1>17, <1>18, <1>19, <1>20, <1>21,
       <1>22 DEF Next, Engine, Adapter, Coordinators

(* What is reported at the end is what the steps went through.             *)
LEMMA ResultStep ==
  ASSUME EngineInv, OutcomeInv, [Next]_vars
  PROVE  OutcomeMatchesSteps'
  <1>0. /\ TypeOK /\ StepsFollow /\ Walked /\ OutcomeMatchesSteps
        /\ Steps = 1..Len(workflow) /\ Len(workflow) \in Nat \ {0}
        /\ current \in 1..(Len(workflow) + 1)
    BY WorkflowType DEF OutcomeInv, EngineInv, TypeOK
  <1>1. CASE Tick
    <2>1. pc' # "done"
      BY <1>1, <1>0 DEF Tick
    <2> QED
      BY <2>1 DEF OutcomeMatchesSteps
  <1>2. CASE Timer
    <2>1. pc' # "done"
      BY <1>2, <1>0 DEF Timer, Awaiting
    <2> QED
      BY <2>1 DEF OutcomeMatchesSteps
  <1>3. CASE Abort
    <2>1. pc' # "done"
      BY <1>3, <1>0 DEF Abort
    <2> QED
      BY <2>1 DEF OutcomeMatchesSteps
  <1>4. CASE Begin
    <2>1. pc' # "done"
      BY <1>4, <1>0 DEF Begin, CancelBeforeStart
    <2> QED
      BY <2>1 DEF OutcomeMatchesSteps
  <1>5. CASE Preflight
    <2>1. CASE pc' # "done"
      BY <2>1 DEF OutcomeMatchesSteps
    <2>2. CASE pc' = "done"
      <3>1. /\ pc = "validating" /\ run' = "failed" /\ status' = skipPending
            /\ result' = buildWorkflowExecutionResult("failed", "preflight_failed")
            /\ UNCHANGED workflow
        BY <1>5, <2>2 DEF Preflight, CancelBeforeStart
      <3>2. \A i \in Steps : status'[i] = "skipped"
        BY <1>0, <3>1 DEF StepsFollow, skipPending
      <3>3. 1 \in Steps
        BY <1>0
      <3> QED
        BY <3>1, <3>2, <3>3 DEF buildWorkflowExecutionResult, OutcomeMatchesSteps,
           TerminalEngineStepStatus, Steps, ThrownResult
    <2> QED
      BY <2>1, <2>2
  <1>6. CASE Cancelled
    <2>1. /\ pc = "cancelling" /\ run' = "cancelled"
          /\ result' = buildWorkflowExecutionResult("cancelled", "run_cancelled")
          /\ UNCHANGED <<workflow, status>>
      BY <1>6 DEF Cancelled, stepVars
    <2>2. 1 \in Steps /\ \A i \in Steps : status'[i] = "skipped"
      BY <1>0, <2>1 DEF StepsFollow
    <2> QED
      BY <2>1, <2>2 DEF buildWorkflowExecutionResult, OutcomeMatchesSteps,
         TerminalEngineStepStatus, Steps, ThrownResult
  <1>7. CASE StepHead
    <2>1. pc' # "done"
      BY <1>7, <1>0 DEF StepHead
    <2> QED
      BY <2>1 DEF OutcomeMatchesSteps
  <1>8. CASE RequestApproval
    <2>1. pc' # "done"
      BY <1>8, <1>0 DEF RequestApproval
    <2> QED
      BY <2>1 DEF OutcomeMatchesSteps
  <1>9. CASE ApprovalResumes
    <2>1. pc' # "done"
      BY <1>9, <1>0 DEF ApprovalResumes
    <2> QED
      BY <2>1 DEF OutcomeMatchesSteps
  <1>10. CASE AttemptHead
    <2>1. pc' # "done"
      BY <1>10, <1>0 DEF AttemptHead
    <2> QED
      BY <2>1 DEF OutcomeMatchesSteps
  <1>11. CASE RepairResumes
    <2>1. pc' # "done"
      BY <1>11, <1>0 DEF RepairResumes
    <2> QED
      BY <2>1 DEF OutcomeMatchesSteps
  <1>12. CASE Settle
    <2>1. pc' # "done"
      BY <1>12, <1>0 DEF Settle
    <2> QED
      BY <2>1 DEF OutcomeMatchesSteps
  <1>13. CASE Finish
    <2>1. pc' # "done"
      BY <1>13, <1>0 DEF Finish
    <2> QED
      BY <2>1 DEF OutcomeMatchesSteps
  <1>14. ASSUME NEW ok \in BOOLEAN, AdapterStarts(ok) PROVE OutcomeMatchesSteps'
    <2>1. pc' # "done"
      BY <1>14, <1>0 DEF AdapterStarts
    <2> QED
      BY <2>1 DEF OutcomeMatchesSteps
  <1>15. CASE StepSucceeds
    <2>1. pc' # "done"
      BY <1>15, <1>0 DEF StepSucceeds
    <2> QED
      BY <2>1 DEF OutcomeMatchesSteps
  <1>16. ASSUME NEW f \in StepFailure, StepFails(f) PROVE OutcomeMatchesSteps'
    <2>1. pc' # "done"
      BY <1>16, <1>0 DEF StepFails
    <2> QED
      BY <2>1 DEF OutcomeMatchesSteps
  <1>17. ASSUME NEW clean \in BOOLEAN, AdapterStops(clean) PROVE OutcomeMatchesSteps'
    <2> DEFINE st == IF locked # NoCause THEN terminalStatusFor(locked.cause)
                     ELSE IF clean THEN "succeeded" ELSE "failed"
               cause == IF locked # NoCause THEN locked.cause
                        ELSE IF clean THEN "completed" ELSE "cleanup_failed"
    <2>1. /\ pc = "stopping" /\ run' = st
          /\ result' = buildWorkflowExecutionResult(st, cause)
          /\ UNCHANGED <<workflow, status>>
      BY <1>17 DEF AdapterStops, stepVars
    <2>2. cause \in {"completed", "cleanup_failed"} <=> locked = NoCause
      BY <1>0 DEF TypeOK, Candidate, RacingCause
    <2>3. result' # ThrownResult => result'.status = run' /\ result'.cause = cause
      BY <2>1 DEF buildWorkflowExecutionResult
    <2> HIDE DEF st, cause
    <2>4. CASE locked = NoCause
      <3>1. \A i \in Steps : i < current
        BY <1>0, <2>1, <2>4 DEF StepsFollow
      <3>2. \A i \in Steps : status'[i] = "succeeded"
        BY <1>0, <2>1, <3>1 DEF Walked
      <3> QED
        BY <2>1, <2>2, <2>3, <2>4, <3>2
           DEF OutcomeMatchesSteps, TerminalEngineStepStatus, Steps
    <2>5. CASE locked # NoCause
      <3>1. /\ current \in Steps /\ status'[current] \in Struck \cup {"skipped"}
            /\ \A i \in Steps : i > current => status'[i] = "skipped"
            /\ \A i \in Steps : i < current => status'[i] = "succeeded"
        BY <1>0, <2>1, <2>5 DEF StepsFollow, Walked
      <3>2. \A i \in Steps : i < current \/ i = current \/ i > current
        BY <1>0
      <3>3. \A i \in Steps : status'[i] \in TerminalEngineStepStatus
        BY <3>1, <3>2 DEF TerminalEngineStepStatus, Struck
      <3>4. status'[current] # "succeeded"
        BY <3>1 DEF Struck
      <3> QED
        BY <2>1, <2>2, <2>3, <2>5, <3>1, <3>3, <3>4 DEF OutcomeMatchesSteps, Steps
    <2> QED
      BY <2>4, <2>5
  <1>18. ASSUME NEW d \in ApprovalDecision, ApprovalAnswers(d) PROVE OutcomeMatchesSteps'
    <2>1. pc' # "done"
      BY <1>18, <1>0 DEF ApprovalAnswers
    <2> QED
      BY <2>1 DEF OutcomeMatchesSteps
  <1>19. CASE ApprovalRequestFails
    <2>1. pc' # "done"
      BY <1>19, <1>0 DEF ApprovalRequestFails
    <2> QED
      BY <2>1 DEF OutcomeMatchesSteps
  <1>20. ASSUME NEW d \in RepairDecision, RepairAnswers(d) PROVE OutcomeMatchesSteps'
    <2>1. pc' # "done"
      BY <1>20, <1>0 DEF RepairAnswers
    <2> QED
      BY <2>1 DEF OutcomeMatchesSteps
  <1>21. CASE RepairRequestFails
    <2>1. pc' # "done"
      BY <1>21, <1>0 DEF RepairRequestFails
    <2> QED
      BY <2>1 DEF OutcomeMatchesSteps
  <1>22. CASE UNCHANGED vars
    BY <1>22, <1>0 DEF vars, stepVars, OutcomeMatchesSteps, Steps
  <1> QED
    BY <1>1, <1>2, <1>3, <1>4, <1>5, <1>6, <1>7, <1>8, <1>9, <1>10, <1>11,
       <1>12, <1>13, <1>14, <1>15, <1>16, <1>17, <1>18, <1>19, <1>20, <1>21,
       <1>22 DEF Next, Engine, Adapter, Coordinators

(* The first state has announced nothing.                                  *)
LEMMA InitOutcome ==
  ASSUME Init
  PROVE  OutcomeInv
  <1>1. RunFollows /\ Unchosen /\ StartCauses
    BY DEF Init, RunFollows, Unchosen, StartCauses
  <1>2. StepsFollow
    BY DEF Init, StepsFollow, InStep
  <1>3. AttemptsFollow /\ OutcomeMatchesSteps
    BY DEF Init, AttemptsFollow, OutcomeMatchesSteps
  <1>4. NoEffectRepeated
    BY DEF Init, NoEffectRepeated
  <1> QED
    BY <1>1, <1>2, <1>3, <1>4 DEF OutcomeInv

(* The outcome invariant holds throughout every execution.                 *)
THEOREM OutcomeInvariant == Spec => [](EngineInv /\ OutcomeInv)
  <1>1. Init => OutcomeInv
    BY InitOutcome
  <1>2. EngineInv /\ OutcomeInv /\ [Next]_vars => OutcomeInv'
    BY UnchosenStep, StartCausesStep, RunStep, StepsStep, AttemptsStep, ResultStep
       DEF OutcomeInv
  <1> QED
    BY <1>1, <1>2, EngineInvariant, PTL DEF Spec

(* No step of a workflow is attempted again after an attempt that may have *)
(* changed the page, and when execute returns its result says of the run   *)
(* what the records of its steps say: for every workflow, every recovery   *)
(* mode, every deadline and whatever the adapter, the coordinators and the *)
(* caller do.                                                              *)
THEOREM EngineOutcomeHolds == Spec => []EngineOutcome
  <1>1. OutcomeInv => EngineOutcome
    BY DEF OutcomeInv, EngineOutcome
  <1> QED
    BY <1>1, OutcomeInvariant, PTL

-----------------------------------------------------------------------------
(* The tables of the state machines                                        *)

(* What a run may announce next.                                           *)
LEMMA RunTable ==
  /\ validRunTransitions["pending"] = {"validating", "cancelling"}
  /\ validRunTransitions["validating"] = {"starting", "cancelling", "failed"}
  /\ validRunTransitions["starting"] = {"running", "cancelling", "failed", "timed_out"}
  /\ validRunTransitions["running"] =
       {"waiting_for_approval", "waiting_for_repair", "cancelling", "succeeded",
        "failed", "timed_out", "interrupted"}
  /\ \A w \in {"waiting_for_approval", "waiting_for_repair"} :
       validRunTransitions[w] =
         {"running", "cancelling", "failed", "timed_out", "interrupted"}
  /\ validRunTransitions["cancelling"] = {"cancelled"}
  BY DEF validRunTransitions, EngineRunStatus, TerminalEngineRunStatus

(* What a step may announce next: among others, everything a cause does.   *)
LEMMA StepTable ==
  /\ validStepTransitions["pending"] = {"running", "skipped"}
  /\ {"succeeded", "waiting_for_approval", "waiting_for_repair"} \cup Struck
       \subseteq validStepTransitions["running"]
  /\ {"succeeded"} \cup Struck \subseteq validStepTransitions["waiting_for_approval"]
  /\ {"running"} \cup Struck \subseteq validStepTransitions["waiting_for_repair"]
  BY DEF validStepTransitions, EngineStepStatus, TerminalEngineStepStatus, Struck

(* A step of a run moves as its table allows.                              *)
LegalStep(i) ==
  status'[i] # status[i] => status'[i] \in validStepTransitions[status[i]]

LegalMove ==
  /\ run' # run => run' \in validRunTransitions[run]
  /\ \A i \in Steps : LegalStep(i)

(* Every announcement is one the tables allow.                             *)
LEMMA LegalMoves ==
  ASSUME EngineInv, OutcomeInv, [Next]_vars
  PROVE  LegalMove
  <1>0. /\ EngineInv /\ StepsFollow /\ RunFollows /\ StartCauses
        /\ status \in [Steps -> EngineStepStatus]
        /\ Steps = 1..Len(workflow) /\ Len(workflow) \in Nat \ {0}
        /\ current \in 1..(Len(workflow) + 1)
    BY WorkflowType DEF OutcomeInv, EngineInv, TypeOK
  <1>1. CASE Tick
    BY <1>1 DEF Tick, stepVars, LegalMove, LegalStep
  <1>2. CASE Timer
    BY <1>2 DEF Timer, stepVars, LegalMove, LegalStep
  <1>3. CASE Abort
    BY <1>3 DEF Abort, stepVars, LegalMove, LegalStep
  <1>4. CASE Begin
    <2>1. \A i \in Steps : skipPending[i] # status[i] =>
            skipPending[i] \in validStepTransitions[status[i]]
      BY StepTable DEF skipPending
    <2> QED
      BY <1>4, <1>0, <2>1, RunTable DEF Begin, CancelBeforeStart, RunFollows,
         LegalMove, LegalStep
  <1>5. CASE Preflight
    <2>1. \A i \in Steps : skipPending[i] # status[i] =>
            skipPending[i] \in validStepTransitions[status[i]]
      BY StepTable DEF skipPending
    <2> QED
      BY <1>5, <1>0, <2>1, RunTable DEF Preflight, CancelBeforeStart, RunFollows,
         LegalMove, LegalStep
  <1>6. CASE Cancelled
    BY <1>6, <1>0, RunTable DEF Cancelled, stepVars, RunFollows, LegalMove, LegalStep
  <1>7. CASE StepHead
    <2>1. /\ run' = run
          /\ \/ status' = status
             \/ /\ status' = [status EXCEPT ![current] = "running"]
                /\ current \in Steps /\ status[current] = "pending"
      BY <1>7, <1>0 DEF StepHead, StepsFollow
    <2> QED
      BY <1>0, <2>1, StepTable DEF LegalMove, LegalStep
  <1>8. CASE RequestApproval
    <2>1. /\ run' # run => run' \in validRunTransitions[run]
          /\ status' # status =>
               \E st : /\ status' = [status EXCEPT ![current] = st]
                      /\ st \in validStepTransitions[status[current]]
      BY <1>8, <1>0, RunTable, StepTable DEF RequestApproval, RunFollows, StepsFollow
    <2> QED
      BY <1>0, <2>1 DEF LegalMove, LegalStep
  <1>9. CASE ApprovalResumes
    <2>1. /\ run' # run => run' \in validRunTransitions[run]
          /\ status' # status =>
               \E st : /\ status' = [status EXCEPT ![current] = st]
                      /\ st \in validStepTransitions[status[current]]
      BY <1>9, <1>0, RunTable, StepTable DEF ApprovalResumes, RunFollows, StepsFollow
    <2> QED
      BY <1>0, <2>1 DEF LegalMove, LegalStep
  <1>10. CASE AttemptHead
    BY <1>10 DEF AttemptHead, stepVars, LegalMove, LegalStep
  <1>11. CASE RepairResumes
    <2>1. /\ run' # run => run' \in validRunTransitions[run]
          /\ status' # status =>
               \E st : /\ status' = [status EXCEPT ![current] = st]
                      /\ st \in validStepTransitions[status[current]]
      BY <1>11, <1>0, RunTable, StepTable DEF RepairResumes, RunFollows, StepsFollow
    <2> QED
      BY <1>0, <2>1 DEF LegalMove, LegalStep
  <1>12. CASE Settle
    <2>1. /\ run' = run /\ pc = "settle"
          /\ \/ /\ locked' = NoCause
                /\ status' = [status EXCEPT ![current] = "succeeded"]
             \/ /\ locked' # NoCause
                /\ status' = [status EXCEPT ![current] = stepStatusFor(locked'.cause)]
      BY <1>12 DEF Settle
    <2>2. locked' = NoCause => status[current] = "running"
      BY <1>12, <1>0, <2>1, SettledIsNotEnding DEF StepsFollow
    <2>3. status[current] \in {"running", "waiting_for_approval", "waiting_for_repair"}
      BY <1>0, <2>1 DEF StepsFollow
    <2>4. \A c : stepStatusFor(c) \in validStepTransitions[status[current]]
      BY <2>3, StepTable, StruckStatuses
    <2>5. "succeeded" \in validStepTransitions["running"]
      BY StepTable
    <2> QED
      BY <1>0, <2>1, <2>2, <2>4, <2>5 DEF LegalMove, LegalStep
  <1>13. CASE Finish
    <2>1. \A i \in Steps : skipPending[i] # status[i] =>
            skipPending[i] \in validStepTransitions[status[i]]
      BY StepTable DEF skipPending
    <2>2. run' # run => run' \in validRunTransitions[run]
      <3>1. CASE locked = NoCause
        BY <1>13, <3>1 DEF Finish
      <3>2. CASE locked # NoCause
        <4>1. run' = IF locked.cause \in CancellingCause THEN "cancelling"
                     ELSE terminalStatusFor(locked.cause)
          BY <1>13, <3>2 DEF Finish
        <4>2. run \in LiveRun \cup {"starting"}
          BY <1>13, <1>0 DEF Finish, RunFollows
        <4>3. run' \in {"cancelling", "failed", "timed_out", "interrupted"}
          BY <4>1, StruckStatuses DEF Struck
        <4>4. run = "starting" => run' # "interrupted"
          BY <1>0, <3>2, <4>1 DEF StartCauses, StartCause, terminalStatusFor,
             CancellingCause
        <4> QED
          BY <4>2, <4>3, <4>4, RunTable DEF LiveRun
      <3> QED
        BY <3>1, <3>2
    <2> QED
      BY <1>13, <2>1, <2>2 DEF Finish, LegalMove, LegalStep
  <1>14. ASSUME NEW ok \in BOOLEAN, AdapterStarts(ok) PROVE LegalMove
    BY <1>14, <1>0, RunTable
       DEF AdapterStarts, stepVars, RunFollows, LegalMove, LegalStep
  <1>15. CASE StepSucceeds
    BY <1>15 DEF StepSucceeds, stepVars, LegalMove, LegalStep
  <1>16. ASSUME NEW f \in StepFailure, StepFails(f) PROVE LegalMove
    <2>1. /\ run' # run => run' \in validRunTransitions[run]
          /\ status' # status =>
               \E st : /\ status' = [status EXCEPT ![current] = st]
                      /\ st \in validStepTransitions[status[current]]
      BY <1>16, <1>0, RunTable, StepTable DEF StepFails, RunFollows, StepsFollow
    <2> QED
      BY <1>0, <2>1 DEF LegalMove, LegalStep
  <1>17. ASSUME NEW clean \in BOOLEAN, AdapterStops(clean) PROVE LegalMove
    <2>1. /\ pc = "stopping" /\ status' = status
          /\ run' = IF locked # NoCause THEN terminalStatusFor(locked.cause)
                    ELSE IF clean THEN "succeeded" ELSE "failed"
      BY <1>17 DEF AdapterStops, stepVars
    <2>2. run = StoppingStatus
      BY <1>0, <2>1 DEF RunFollows
    <2>3. run' # run => run' \in validRunTransitions[run]
      <3>1. CASE locked = NoCause
        BY <2>1, <2>2, <3>1, RunTable DEF StoppingStatus
      <3>2. CASE locked # NoCause
        BY <2>1, <2>2, <3>2, RunTable, StruckStatuses DEF StoppingStatus
      <3> QED
        BY <3>1, <3>2
    <2> QED
      BY <2>1, <2>3 DEF LegalMove, LegalStep
  <1>18. ASSUME NEW d \in ApprovalDecision, ApprovalAnswers(d) PROVE LegalMove
    BY <1>18 DEF ApprovalAnswers, stepVars, LegalMove, LegalStep
  <1>19. CASE ApprovalRequestFails
    BY <1>19 DEF ApprovalRequestFails, stepVars, LegalMove, LegalStep
  <1>20. ASSUME NEW d \in RepairDecision, RepairAnswers(d) PROVE LegalMove
    BY <1>20 DEF RepairAnswers, stepVars, LegalMove, LegalStep
  <1>21. CASE RepairRequestFails
    BY <1>21 DEF RepairRequestFails, stepVars, LegalMove, LegalStep
  <1>22. CASE UNCHANGED vars
    BY <1>22 DEF vars, stepVars, LegalMove, LegalStep
  <1> QED
    BY <1>1, <1>2, <1>3, <1>4, <1>5, <1>6, <1>7, <1>8, <1>9, <1>10, <1>11,
       <1>12, <1>13, <1>14, <1>15, <1>16, <1>17, <1>18, <1>19, <1>20, <1>21,
       <1>22 DEF Next, Engine, Adapter, Coordinators

(* The engine's state machines never refuse a transition the loop asks     *)
(* for: RunStateMachine and StepStateMachine throw on any other.           *)
THEOREM EngineMovesLegally == Spec => LegalTransitions
  <1>1. EngineInv /\ OutcomeInv /\ [Next]_vars =>
          /\ run' # run => run' \in validRunTransitions[run]
          /\ \A i \in Steps :
               status'[i] # status[i] =>
                 status'[i] \in validStepTransitions[status[i]]
    BY LegalMoves DEF LegalMove, LegalStep
  <1> QED
    BY <1>1, OutcomeInvariant, PTL DEF Spec, LegalTransitions

(* The engine announces only what its tables allow and starts no browser   *)
(* action once the run is bound to end.                                    *)
THEOREM EngineMovesHold == Spec => EngineMoves
  BY EngineMovesLegally, EngineStopsStarting, PTL DEF EngineMoves

=============================================================================
