----------------------------- MODULE MCDispatch -----------------------------
(***************************************************************************)
(* Four instances of RunDispatch that TLC explores in one run.  A          *)
(* behaviour is one of a single scope, named by the variable scope, which  *)
(* never changes; the properties read the common variables and are checked *)
(* of every scope.                                                         *)
(*                                                                         *)
(* started    two runs of one Runner that users start, one of them pinned  *)
(*            to local secrets (the constants of the module)               *)
(* fired      two runs of a schedule                                       *)
(* scheduled  one run of a schedule whose Runner reports its result alone  *)
(* gated      one run a user started whose Runner reports every step and   *)
(*            stops at the approval gate                                   *)
(***************************************************************************)
EXTENDS MCRunDispatch

CONSTANTS r1, a1

VARIABLE scope

Fired == INSTANCE RunDispatch WITH
  Scheduled <- Runs, LocalStore <- {}, MaxRevision <- 0, Reports <- {},
  ResultCauses <- {"step_failed"}

OneScheduled == INSTANCE RunDispatch WITH
  ClaimAttempts <- {a1}, Scheduled <- Runs, LocalStore <- {},
  LeaseTerm <- 2, ApprovalTerm <- 2, Horizon <- 4, MaxRevision <- 0,
  Reports <- {}, ResultCauses <- {"completed", "step_failed"}

Gated == INSTANCE RunDispatch WITH
  ClaimAttempts <- {a1}, Scheduled <- {}, LocalStore <- {},
  LeaseTerm <- 2, ApprovalTerm <- 2, Horizon <- 4, MaxRevision <- 0,
  Reports <- {"pending", "validating", "starting", "running",
              "waiting_for_approval"},
  StepReports <- {"pending", "running"},
  ResultCauses <- {"completed", "run_cancelled", "approval_rejected",
                   "approval_expired", "approval_invalidated"}

\* In the scopes of two runs a Runner's result reports the steps alike.
AlikeSteps ==
  \A r \in Runs :
    \E e \in {"none", "failed"} : stepEngine'[r] = [s \in Steps |-> e]

\* In the scopes of one run no other is created.
OneRun == \A r \in Runs \ {r1} : status'[r] = "ABSENT"

MCInit ==
  scope \in {"started", "fired", "scheduled", "gated"} /\ Init

MCNext ==
  /\ UNCHANGED scope
  /\ \/ scope = "started" /\ Next /\ AlikeSteps
     \/ scope = "fired" /\ Fired!Next /\ AlikeSteps
     \/ scope = "scheduled" /\ OneScheduled!Next /\ OneRun
     \/ scope = "gated" /\ Gated!Next /\ OneRun

\* In the scopes of one run the clock runs and the reconciliation of the run
\* is repeated; Reconcile depends on none of the constants the scopes differ
\* in.
LedgerTick ==
  /\ UNCHANGED scope
  /\ \/ scope = "scheduled" /\ OneScheduled!Tick
     \/ scope = "gated" /\ Gated!Tick
LedgerReconcile ==
  UNCHANGED scope /\ scope \in {"scheduled", "gated"} /\ Reconcile(r1, now)

MCSpec ==
  /\ MCInit /\ [][MCNext]_<<vars, scope>>
  /\ WF_<<vars, scope>>(LedgerTick)
  /\ WF_<<vars, scope>>(LedgerReconcile)

-----------------------------------------------------------------------------
\* Whatever the Runner and the user leave undone, the reconciliation ends an
\* active run and resolves a pending approval (reconcileExpiredLeases,
\* reconcileExpired).  Nothing is claimed of a run that was never handed out:
\* no step of the program ends it (RunSchedule!UnclaimedIsTimedOut).
EndsCome ==
  scope \in {"scheduled", "gated"} =>
    ActiveRunEnds(r1) /\ ApprovalResolved(r1, 1)
=============================================================================
