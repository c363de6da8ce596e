---------------------------- MODULE RunnerRollout ----------------------------
(***************************************************************************)
(* The release catalogue and fleet rollouts (runner-release and            *)
(* runner-rollout repositories and packages, and observeRolloutAssignment  *)
(* of the Runner repository).  A rollout sets the version its Runners      *)
(* should have, stage by stage; what a Runner has is only learned from its *)
(* heartbeats.  Administrators, operators and heartbeats interleave, one   *)
(* serializable transaction each.                                          *)
(***************************************************************************)
EXTENDS Naturals, FiniteSets, Sequences

CONSTANTS
  Fleet, Rollouts,
  Versions,   \* product versions: 1 is what every Runner starts with
  VersionOf,  \* rollout -> version
  Plan,       \* rollout -> sequence of sets of Runners
  RolloutAuditAccepts, \* whether the audit schemas take the events AuditEvents
                \* finds refused: FALSE in the code, where no rollout can
                \* become active, TRUE what its callers are told
  MaxReports  \* bound on the heartbeats that report another version

\* The stages of a rollout come in order and name Runners of the fleet.
ASSUME RolloutAssumption ==
  /\ Versions \subseteq Nat \ {0} /\ 1 \in Versions
  /\ VersionOf \in [Rollouts -> Versions] /\ "none" \notin Rollouts
  /\ \A x \in Rollouts : Plan[x] \in Seq(SUBSET Fleet)
  /\ RolloutAuditAccepts \in BOOLEAN

Stages(x) == DOMAIN Plan[x]
Members(x) == UNION {Plan[x][k] : k \in Stages(x)}
StageOf(x, n) == CHOOSE k \in Stages(x) : n \in Plan[x][k]

VARIABLES
  release,     \* version -> "unknown", "available", "deprecated", "blocked"
  rollout,     \* rollout -> status and review reason
  stage,       \* rollout -> stage -> status
  assignment,  \* rollout -> Runner -> status and baseline version
  fleet,      \* Runner -> version, desired version, rollout, revoked
  reports      \* the versions reported so far, counted

rrVars == <<release, rollout, stage, assignment, fleet, reports>>

RolloutInit ==
  /\ release = [v \in Versions |-> "unknown"]
  /\ rollout = [x \in Rollouts |-> [status |-> "none", review |-> "none"]]
  /\ stage = [x \in Rollouts |-> [k \in Stages(x) |-> "pending"]]
  /\ assignment = [x \in Rollouts |->
       [n \in Members(x) |-> [status |-> "pending", baseline |-> 0]]]
  /\ fleet = [n \in Fleet |-> [version |-> 1, desired |-> 0,
                                  owner |-> "none", revoked |-> FALSE]]
  /\ reports = 0

-----------------------------------------------------------------------------
\* importTrusted: a version is imported once.  The first version is from
\* before the catalogue.
importTrusted(v) ==
  /\ v \in {VersionOf[x] : x \in Rollouts}
  /\ release[v] = "unknown"
  /\ release' = [release EXCEPT ![v] = "available"]
  /\ UNCHANGED <<rollout, stage, assignment, fleet, reports>>

\* changeStatus: blocking a release pauses its active rollouts.
releaseTransitions ==
  [unknown |-> {}, available |-> {"deprecated", "blocked"},
   deprecated |-> {"blocked"}, blocked |-> {}]
Paused(x) == [status |-> "paused", review |-> "target_release_blocked"]
changeStatus(v, next) ==
  LET hit == {x \in Rollouts : next = "blocked" /\ VersionOf[x] = v
                               /\ rollout[x].status = "active"} IN
  /\ next \in releaseTransitions[release[v]]
  /\ hit # {} => RolloutAuditAccepts
  /\ release' = [release EXCEPT ![v] = next]
  /\ rollout' = [x \in Rollouts |->
                   IF x \in hit THEN Paused(x) ELSE rollout[x]]
  /\ stage' = [x \in Rollouts |-> [k \in Stages(x) |->
                 IF x \in hit /\ stage[x][k] = "active"
                 THEN "failed_review" ELSE stage[x][k]]]
  /\ UNCHANGED <<assignment, fleet, reports>>

\* validateRolloutPlan: no Runner in two stages.
validateRolloutPlan(x) ==
  \A j, k \in Stages(x) : j # k => Plan[x][j] \cap Plan[x][k] = {}

create(x) ==
  /\ rollout[x].status = "none" /\ validateRolloutPlan(x)
  /\ release[VersionOf[x]] = "available"
  /\ rollout' = [rollout EXCEPT ![x].status = "draft"]
  /\ UNCHANGED <<release, stage, assignment, fleet, reports>>

-----------------------------------------------------------------------------
rolloutTransitions ==
  [none |-> {}, draft |-> {"active", "cancelled"},
   active |-> {"paused", "completed", "cancelled"},
   paused |-> {"active", "cancelled"}, completed |-> {}, cancelled |-> {}]

\* changeRolloutState, without the cancellation's writes.
Activatable(x) ==
  release[VersionOf[x]] = "available" /\ rollout[x].review = "none"
changeRolloutState(x, next) ==
  /\ next \in rolloutTransitions[rollout[x].status]
  /\ next = "active" => Activatable(x)
  /\ RolloutAuditAccepts
  /\ rollout' = [rollout EXCEPT ![x].status = next]
  /\ UNCHANGED <<release, stage, assignment, fleet, reports>>

\* changeRolloutState, action cancel: what each Runner of the rollout still
\* wants.  A converged Runner keeps its desired version.
Open == {"pending", "target_assigned"}

\* Mutant: only the assignments still open are released.
ReleasedByStatus(x, n) ==
  IF assignment[x][n].status \in Open
  THEN [fleet[n] EXCEPT !.desired = 0, !.owner = "none"] ELSE fleet[n]

Released(x, n) ==
  [fleet[n] EXCEPT
     !.owner = "none",
     !.desired = IF assignment[x][n].status = "converged" THEN @ ELSE 0]
cancel(x) ==
  /\ RolloutAuditAccepts
  /\ "cancelled" \in rolloutTransitions[rollout[x].status]
  /\ rollout' = [rollout EXCEPT ![x].status = "cancelled"]
  /\ fleet' = [n \in Fleet |-> IF n \in Members(x) /\ fleet[n].owner = x
                                  THEN Released(x, n) ELSE fleet[n]]
  /\ assignment' = [assignment EXCEPT ![x] = [n \in Members(x) |->
       IF @[n].status \in Open THEN [@[n] EXCEPT !.status = "cancelled"]
                               ELSE @[n]]]
  /\ stage' = [stage EXCEPT ![x] = [k \in Stages(x) |->
       IF @[k] \in {"pending", "active", "failed_review"} THEN "cancelled"
                                                         ELSE @[k]]]
  /\ UNCHANGED <<release, reports>>

-----------------------------------------------------------------------------
\* assertStageMayActivate
StageMayActivate(x, k) ==
  /\ rollout[x].status = "active" /\ release[VersionOf[x]] = "available"
  /\ k > 1 => stage[x][k - 1] = "completed"

\* activateStage: every Runner of the stage is free, then all are assigned.
Free(x, n) == ~fleet[n].revoked /\ fleet[n].owner \in {"none", x}
activateStage(x, k) ==
  /\ stage[x][k] \notin {"active", "completed"}
  /\ StageMayActivate(x, k)
  /\ \A n \in Plan[x][k] : Free(x, n)
  /\ fleet' = [n \in Fleet |->
       IF n \in Plan[x][k]
       THEN [fleet[n] EXCEPT !.desired = VersionOf[x], !.owner = x]
       ELSE fleet[n]]
  /\ assignment' = [assignment EXCEPT ![x] = [n \in Members(x) |->
       IF n \in Plan[x][k]
       THEN [status |-> "target_assigned", baseline |-> fleet[n].version]
       ELSE @[n]]]
  /\ stage' = [stage EXCEPT ![x][k] = "active"]
  /\ UNCHANGED <<release, rollout, reports>>

-----------------------------------------------------------------------------
\* observeAssignmentVersion
observeAssignmentVersion(a, target, actual) ==
  CASE a.status = "target_assigned" /\ actual = target -> "converged"
    [] a.status = "converged" /\ actual = a.baseline /\ actual # target
         -> "rolled_back"
    [] a.status = "converged" /\ actual \notin {a.baseline, target}
         -> "failed"
    [] OTHER -> "unchanged"

\* observeRolloutAssignment, after an assignment converged: k and then the
\* rollout may be complete, which frees its Runners.
StageHasConverged(x, k, as) ==
  \A m \in Plan[x][k] : as[m].status = "converged"
observeConverged(x, n, v) ==
  LET k == StageOf(x, n)
      as == [assignment[x] EXCEPT ![n].status = "converged"]
      stages == IF StageHasConverged(x, k, as)
                THEN [stage[x] EXCEPT ![k] = "completed"] ELSE stage[x]
      done == /\ StageHasConverged(x, k, as)
              /\ \A j \in Stages(x) : stages[j] = "completed"
  IN
  /\ RolloutAuditAccepts
  /\ assignment' = [assignment EXCEPT ![x] = as]
  /\ stage' = [stage EXCEPT ![x] = stages]
  /\ rollout' = IF done THEN [rollout EXCEPT ![x].status = "completed"]
                        ELSE rollout
  /\ fleet' = [m \in Fleet |->
       LET seen == IF m = n THEN [fleet[m] EXCEPT !.version = v]
                            ELSE fleet[m]
       IN IF done /\ seen.owner = x THEN [seen EXCEPT !.owner = "none"]
                                    ELSE seen]

\* observeRolloutAssignment, after a converged Runner left the target.
observeDeparture(x, n, v, outcome) ==
  /\ outcome = "rolled_back" => RolloutAuditAccepts
  /\ assignment' = [assignment EXCEPT ![x][n].status = outcome]
  /\ stage' = [stage EXCEPT ![x][StageOf(x, n)] = "failed_review"]
  /\ rollout' = [rollout EXCEPT ![x] = [status |-> "paused",
                                        review |-> outcome]]
  /\ fleet' = [fleet EXCEPT ![n].version = v]

\* heartbeat: the Runner reports the version it runs.
heartbeatVersion(n, v) ==
  LET x == fleet[n].owner IN
  /\ ~fleet[n].revoked /\ reports < MaxReports
  /\ \/ /\ x = "none" /\ fleet[n].version # v
        /\ fleet' = [fleet EXCEPT ![n].version = v]
        /\ UNCHANGED <<rollout, stage, assignment>>
     \/ /\ x # "none"
        /\ LET o == observeAssignmentVersion(assignment[x][n], VersionOf[x], v)
           IN \/ o = "converged" /\ observeConverged(x, n, v)
              \/ /\ o \in {"rolled_back", "failed"}
                 /\ observeDeparture(x, n, v, o)
              \/ /\ o = "unchanged" /\ fleet[n].version # v
                 /\ fleet' = [fleet EXCEPT ![n].version = v]
                 /\ UNCHANGED <<rollout, stage, assignment>>
  /\ reports' = reports + 1
  /\ UNCHANGED release

\* revokeRunnerDevice, as far as rollouts see it: nothing else changes.
revokeFleetDevice(n) ==
  /\ ~fleet[n].revoked
  /\ fleet' = [fleet EXCEPT ![n].revoked = TRUE]
  /\ UNCHANGED <<release, rollout, stage, assignment, reports>>

RolloutNext ==
  \/ \E v \in Versions : \/ importTrusted(v)
                         \/ \E s \in {"deprecated", "blocked"} :
                              changeStatus(v, s)
  \/ \E x \in Rollouts :
       \/ create(x) \/ cancel(x)
       \/ \E s \in {"active", "paused"} : changeRolloutState(x, s)
       \/ \E k \in Stages(x) : activateStage(x, k)
  \/ \E n \in Fleet : \/ revokeFleetDevice(n)
                      \/ \E v \in Versions : heartbeatVersion(n, v)

RolloutSpec == RolloutInit /\ [][RolloutNext]_rrVars

-----------------------------------------------------------------------------
\* deriveRunnerCompliance, for a Runner with a software identity; compat is
\* what evaluateRunnerCompatibility says of it.
evaluateRunnerCompatibility(v, minimum, recommended, contractsOk) ==
  CASE ~contractsOk -> "unsupported"
    [] contractsOk /\ v < minimum -> "update_required"
    [] contractsOk /\ v >= minimum /\ v < recommended
         -> "update_recommended"
    [] OTHER -> "compatible"
deriveRunnerCompliance(n, compat, draining) ==
  LET d == fleet[n]
      s == IF d.owner = "none" THEN "none" ELSE assignment[d.owner][n].status
  IN
  CASE release[d.version] = "blocked" -> "unsupported"
    [] release[d.version] # "blocked" /\ compat = "unsupported"
         -> "unsupported"
    [] OTHER ->
  CASE s = "rolled_back" -> "rolled_back"
    [] s = "target_assigned" /\ draining -> "updating_external"
    [] OTHER ->
  CASE compat = "update_required" -> "update_required"
    [] compat # "update_required" /\ d.desired \notin {0, d.version}
         -> "update_available"
    [] OTHER ->
  IF compat = "update_recommended" THEN "update_available"
  ELSE IF release[d.version] = "unknown" /\ d.desired = 0 THEN "unknown"
  ELSE "compliant"

RolloutTypeOK ==
  /\ \A x \in Rollouts :
       /\ rollout[x].status \in DOMAIN rolloutTransitions
       /\ \A k \in Stages(x) : stage[x][k] \in
            {"pending", "active", "completed", "failed_review", "cancelled"}
       /\ \A n \in Members(x) : assignment[x][n].status \in
            {"pending", "target_assigned", "converged", "rolled_back",
             "failed", "cancelled"}
  /\ \A n \in Fleet :
       /\ fleet[n].version \in Versions
       /\ fleet[n].owner \in Rollouts \cup {"none"}

\* observeRolloutAssignment and changeRolloutState: a Runner is bound only to
\* a rollout that is still under way, and wants that rollout's version: no
\* other rollout's activation, cancellation or completion leaves it between.
OwnerIsUnderWay ==
  \A n \in Fleet : fleet[n].owner # "none" =>
    /\ rollout[fleet[n].owner].status \in {"active", "paused"}
    /\ fleet[n].desired = VersionOf[fleet[n].owner]

\* changeStatus and observeRolloutAssignment against changeRolloutState: once
\* a rollout needs a review (its release was blocked, or a converged Runner
\* left the target), it is never active again, so no later stage starts.
ReviewStopsProgress ==
  \A x \in Rollouts :
    /\ rollout[x].review # "none" => rollout[x].status # "active"
    /\ release[VersionOf[x]] = "blocked" => rollout[x].status # "active"

\* activateStage: a stage is active or completed only when all before it
\* had converged (and may have failed its review or been cancelled since);
\* a rollout is completed only with every Runner seen on the target.
StagesConvergeInOrder ==
  \A x \in Rollouts :
    /\ \A k \in Stages(x) : \A j \in 1..(k - 1) :
         stage[x][k] \in {"active", "completed"} =>
           stage[x][j] \in {"completed", "failed_review", "cancelled"}
    /\ rollout[x].status = "completed" =>
         \A n \in Members(x) : assignment[x][n].status = "converged"

\* changeRolloutState, action cancel, and completion: neither takes the
\* desired version from a Runner that converged.
ConvergedRunnersKeepTheirVersion ==
  \A x \in Rollouts, n \in Fleet :
    /\ fleet[n].owner = x /\ fleet'[n].owner = "none"
    /\ n \in Members(x) /\ assignment'[x][n].status = "converged"
    => fleet'[n].desired = VersionOf[x]

\* deriveRunnerCompliance: a Runner that reports a blocked release, or one
\* whose rollout saw it roll back, is never called compliant, whatever its
\* compatibility and maintenance say.
BlockedIsNeverCompliant ==
  \A n \in Fleet :
    \/ release[fleet[n].version] = "blocked"
    \/ /\ fleet[n].owner # "none"
       /\ assignment[fleet[n].owner][n].status = "rolled_back"
    => \A minimum, recommended \in Versions, contractsOk, draining \in BOOLEAN :
         deriveRunnerCompliance(
           n, evaluateRunnerCompatibility(fleet[n].version, minimum,
                                          recommended, contractsOk), draining)
         \in {"unsupported", "rolled_back"}

\* The rollouts of a fleet together (activateStage, changeRolloutState,
\* observeRolloutAssignment, deriveRunnerCompliance).
RolloutIsSound ==
  /\ [](/\ OwnerIsUnderWay
        /\ ReviewStopsProgress
        /\ StagesConvergeInOrder
        /\ BlockedIsNeverCompliant)
  /\ [][ConvergedRunnersKeepTheirVersion]_rrVars
=============================================================================
