---------------------------- MODULE Notifications ---------------------------
(***************************************************************************)
(* Operational alerts and their delivery.  A transaction that ends a run,  *)
(* pauses a schedule or opens a request appends an alert and one outbox    *)
(* message per recipient; notification workers claim messages under a      *)
(* lease and put them in the recipients' inboxes, retry or give up.  One   *)
(* alert is followed.  Time is abstracted to what it makes true: a lease   *)
(* ends, a retry comes due.  Workers die, their transactions fail, and     *)
(* memberships change between the append and the delivery.                 *)
(***************************************************************************)
EXTENDS FiniteSets, Naturals

CONSTANTS
  Users,       \* of the organization, one of them the creator
  Creator,     \* who created the run or the schedule the alert is about
  Workers,     \* notification worker processes
  MaxAttempts, \* MAX_DELIVERY_ATTEMPTS
  MaxChanges,  \* bound on the changes of a role
  MaxLeft      \* bound on the calls that failed cycles leave in flight

VARIABLES
  role,    \* user -> "none", "MEMBER" or "ADMIN", of an active account
  alert,   \* the alert row: its call site, contract and status
  counted, \* recipientCount of the audit event of the alert, 0 before it
  msg,     \* user -> outbox message
  cycle,   \* worker -> whether its runOnce is running
  tasks,   \* the calls of processMessage in flight
  inbox,   \* user -> "none", "unread" or "read"
  changes, \* of a role
  lost,    \* users who lost a role since the alert was appended
  late     \* a call left over by a failed cycle met a newer lease

nvars == <<role, alert, counted, msg, cycle, tasks, inbox, changes, lost,
           late>>

NoMessage == [status |-> "none", attempts |-> 0, by |-> "none",
              live |-> FALSE, due |-> FALSE]
NoAlert == [site |-> [type |-> "none"], contract |-> 0, status |-> "none",
            reason |-> "none"]
-----------------------------------------------------------------------------
\* The call sites.  An identity stands for a type and an id: every id a call
\* puts in an alert is the one of the entity of that kind it is about.
Site(type, source, primary, template, target, reason) ==
  [type |-> type, source |-> source, primary |-> primary,
   template |-> template, target |-> target, reason |-> reason]
RunSite(type) ==
  Site(type, "run", "run", [key |-> type, ids |-> {"run"}], "run", "none")
PauseSite(source, ids, reason) ==
  Site("schedule_auto_paused", source, "schedule",
       [key |-> "schedule_auto_paused", ids |-> ids], "schedule", reason)
RolloutSite(source, reason) ==
  Site("runner_rollout_requires_review", source, "rollout",
       [key |-> "runner_rollout_requires_review", ids |-> {"rollout"}],
       "rollout", reason)

CallSites ==
  {Site("approval_required", "approval", "approval",
        [key |-> "approval_required", ids |-> {"approval", "run"}],
        "approval", "none"),
   Site("repair_required", "repair", "repair",
        [key |-> "repair_required", ids |-> {"repair", "run"}],
        "repair", "none"),
   Site("audit_integrity_failed", "failure", "chain",
        [key |-> "audit_integrity_failed", ids |-> {}], "audit", "none")}
  \cup {RunSite(t) : t \in {"run_failed", "run_timed_out",
                            "run_interrupted"}}
  \cup {PauseSite("schedule", {"schedule", "occurrence"}, r) :
          r \in {"policy_review_required", "ambiguous_outcome",
                 "secret_readiness_failed"}}
  \cup {PauseSite("schedule", {"schedule"}, "secret_readiness_failed")}
  \cup {PauseSite("occurrence", {"schedule", "occurrence"}, r) :
          r \in {"secret_readiness_failed", "runner_update_required"}}
  \cup {RolloutSite("rollout", "target_release_blocked"),
        RolloutSite("assignment", "assignment_rolled_back")}

Reasons ==
  [schedule_auto_paused |->
     {"policy_review_required", "source_version_unavailable",
      "ambiguous_outcome", "secret_readiness_failed",
      "runner_update_required"},
   runner_rollout_requires_review |->
     {"assignment_rolled_back", "target_release_blocked"}]
Expected ==
  [approval_required |-> "approval", repair_required |-> "repair",
   run_failed |-> "run", run_timed_out |-> "run", run_interrupted |-> "run",
   schedule_auto_paused |-> "schedule", audit_integrity_failed |-> "failure",
   runner_rollout_requires_review |-> "rollout"]

\* superRefine: source, template and action target belong to the type, and
\* all of them name the same entity.
SourceMatches(a) ==
  \/ a.source = Expected[a.type]
  \/ a.type = "schedule_auto_paused" /\ a.source = "occurrence"
  \/ a.type = "runner_rollout_requires_review" /\ a.source = "assignment"
Accepts(a) ==
  /\ SourceMatches(a)
  /\ a.template.key = a.type
  /\ a.type \in DOMAIN Reasons => a.reason \in Reasons[a.type]
  /\ IF a.type = "audit_integrity_failed"
     THEN a.primary = "chain" /\ a.target = "audit"
     ELSE /\ a.primary = Expected[a.type] /\ a.target = Expected[a.type]
          /\ Expected[a.type] \in a.template.ids
          /\ a.source = "occurrence" => "occurrence" \in a.template.ids

Informational == {"run_failed", "run_timed_out", "run_interrupted"}
InitialStatus(type) ==
  IF type \in Informational THEN "informational" ELSE "active"
Recipients(type) ==
  {u \in Users : \/ role[u] = "ADMIN"
                 \/ /\ role[u] # "none" /\ u = Creator
                    /\ type \in Informational \cup {"schedule_auto_paused"}}
-----------------------------------------------------------------------------
Init ==
  /\ role = [u \in Users |-> IF u = Creator THEN "MEMBER" ELSE "ADMIN"]
  /\ alert = NoAlert /\ counted = 0
  /\ msg = [u \in Users |-> NoMessage]
  /\ cycle = [w \in Workers |-> FALSE] /\ tasks = {}
  /\ inbox = [u \in Users |-> "none"]
  /\ changes = 0 /\ lost = {} /\ late = FALSE

Addressed(m) == {u \in Users : m[u].status # "none"}

\* append, first and repeated.  The upsert keeps an existing row; another
\* contract, or another recipient count under the audit event's source id,
\* throws, and the caller's transaction is rolled back with everything.
append(site, contract) ==
  LET new == [u \in Recipients(site.type) |->
                [NoMessage EXCEPT !.status = "PENDING", !.due = TRUE]]
      m == [u \in Users |-> IF msg[u].status = "none" /\ u \in DOMAIN new
                            THEN new[u] ELSE msg[u]]
      count == Cardinality(Addressed(m))
  IN /\ Accepts(site)
     /\ \/ /\ alert = NoAlert
           /\ alert' = [site |-> site, contract |-> contract,
                        status |-> InitialStatus(site.type),
                        reason |-> "none"]
           /\ counted' = count
        \/ /\ alert # NoAlert
           /\ alert.site = site /\ alert.contract = contract
           /\ counted = count
           /\ UNCHANGED <<alert, counted>>
     /\ msg' = m
     /\ UNCHANGED <<role, cycle, tasks, inbox, changes, lost, late>>

\* resolve: the resolved event has the recipient count too, under a source
\* id of its own; a second reason is refused.
resolve(reason) ==
  /\ alert.status = "active"
  /\ alert' = [alert EXCEPT !.status = "resolved", !.reason = reason]
  /\ UNCHANGED <<role, counted, msg, cycle, tasks, inbox, changes, lost, late>>

\* Administration of the organization.
ChangeRole(u, r) ==
  /\ role[u] # r /\ changes < MaxChanges
  /\ changes' = changes + 1
  /\ role' = [role EXCEPT ![u] = r]
  /\ lost' = IF alert # NoAlert /\ r \in {"none", "MEMBER"}
             THEN lost \cup {u} ELSE lost
  /\ UNCHANGED <<alert, counted, msg, cycle, tasks, inbox, late>>
-----------------------------------------------------------------------------
\* claimDue: due messages and messages whose lease ended; rows locked by
\* another transaction are skipped.
exhausted(u) == msg[u].status = "PROCESSING" /\ msg[u].attempts >= MaxAttempts
Claimable(u) ==
  /\ \/ msg[u].status = "PENDING" /\ msg[u].due
     \/ msg[u].status = "PROCESSING" /\ ~msg[u].live
  /\ \/ msg[u].attempts < MaxAttempts
     \/ msg[u].status = "PROCESSING" /\ msg[u].attempts = MaxAttempts
Claim(w, u) == [msg[u] EXCEPT !.status = "PROCESSING", !.by = w,
                              !.live = TRUE, !.due = FALSE,
                              !.attempts = IF exhausted(u) THEN @ ELSE @ + 1]
Task(w, u, n, step) ==
  [worker |-> w, user |-> u, attempts |-> n, step |-> step,
   current |-> TRUE]
claimDue(w, S) ==
  /\ ~cycle[w] /\ S # {} /\ \A u \in S : Claimable(u)
  /\ cycle' = [cycle EXCEPT ![w] = TRUE]
  /\ msg' = [u \in Users |-> IF u \in S THEN Claim(w, u) ELSE msg[u]]
  /\ tasks' = tasks \cup
       {Task(w, u, Claim(w, u).attempts,
             IF exhausted(u) THEN "DELIVERY_ATTEMPTS_EXHAUSTED"
             ELSE "deliver") : u \in S}
  /\ UNCHANGED <<role, alert, counted, inbox, changes, lost, late>>

\* The chunks are done: runOnce returns.
CycleEnds(w) ==
  /\ cycle[w] /\ \A t \in tasks : t.worker = w => ~t.current
  /\ cycle' = [cycle EXCEPT ![w] = FALSE]
  /\ UNCHANGED <<role, alert, counted, msg, tasks, inbox, changes, lost, late>>

Owned(t) ==
  /\ msg[t.user].status = "PROCESSING" /\ msg[t.user].by = t.worker
  /\ msg[t.user].live
Newer(t) == ~t.current /\ Owned(t)
creatorEligible(u) ==
  /\ u = Creator
  /\ \/ alert.site.type \in Informational
     \/ alert.site.type = "schedule_auto_paused"
        /\ alert.site.source = "schedule"
Verdict(t) ==
  CASE ~Owned(t) -> "OUTBOX_LEASE_LOST"
    [] Owned(t) /\ role[t.user] = "none" -> "RECIPIENT_MEMBERSHIP_REVOKED"
    [] Owned(t) /\ role[t.user] = "MEMBER" /\ ~creatorEligible(t.user) ->
         "RECIPIENT_NO_LONGER_ELIGIBLE"
    [] OTHER -> "deliver"
Then(t, step) == (tasks \ {t}) \cup {[t EXCEPT !.step = step]}

\* deliver, one transaction: refused, delivered, or notified by a statement
\* after the lease check and out of time at the update of the message,
\* which commits the notification all the same.
deliver(t) ==
  /\ t.step = "deliver"
  /\ inbox' = IF Verdict(t) = "deliver" /\ inbox[t.user] = "none"
              THEN [inbox EXCEPT ![t.user] = "unread"] ELSE inbox
  /\ IF Verdict(t) # "deliver"
     THEN tasks' = Then(t, Verdict(t)) /\ UNCHANGED msg
     ELSE \/ /\ msg' = [msg EXCEPT ![t.user].status = "DELIVERED",
                          ![t.user].by = "none", ![t.user].live = FALSE]
             /\ tasks' = tasks \ {t}
          \/ /\ msg' = [msg EXCEPT ![t.user].live = FALSE]
             /\ tasks' = Then(t, "OUTBOX_LEASE_LOST")
  /\ late' = (late \/ Newer(t))
  /\ UNCHANGED <<role, alert, counted, cycle, changes, lost>>

\* deliver catches what its transaction throws.
DeliverFails(t) ==
  /\ t.step = "deliver"
  /\ tasks' = Then(t, "IN_APP_DELIVERY_TRANSIENT")
  /\ UNCHANGED <<role, alert, counted, msg, cycle, inbox, changes, lost,
                 late>>

\* retryDelaySeconds is null when the attempts are spent.
HasDelay(t) ==
  t.step = "IN_APP_DELIVERY_TRANSIENT" /\ t.attempts < MaxAttempts

\* Mutant: the lease is not asked for when a delivery is settled.
SettleUnowned(t) ==
  /\ t.step # "deliver"
  /\ tasks' = tasks \ {t}
  /\ msg' = IF msg[t.user].status # "PROCESSING" THEN msg
            ELSE IF HasDelay(t)
            THEN [msg EXCEPT ![t.user].status = "PENDING",
                    ![t.user].by = "none", ![t.user].live = FALSE]
            ELSE [msg EXCEPT ![t.user].status = "DEAD_LETTER",
                    ![t.user].by = "none", ![t.user].live = FALSE]
  /\ late' = (late \/ Newer(t))
  /\ UNCHANGED <<role, alert, counted, cycle, inbox, changes, lost>>

retryOrDeadLetter(t) ==
  /\ t.step # "deliver"
  /\ tasks' = tasks \ {t}
  /\ msg' = IF ~Owned(t) THEN msg
            ELSE IF HasDelay(t)
            THEN [msg EXCEPT ![t.user].status = "PENDING",
                    ![t.user].by = "none", ![t.user].live = FALSE]
            ELSE [msg EXCEPT ![t.user].status = "DEAD_LETTER",
                    ![t.user].by = "none", ![t.user].live = FALSE]
  /\ late' = (late \/ Newer(t))
  /\ UNCHANGED <<role, alert, counted, cycle, inbox, changes, lost>>

\* retryOrDeadLetter throws, for a message of this alert or of another one
\* in the batch: Promise.all rejects and runOnce with it.  The other calls of
\* the chunk, K, stay in flight, later chunks are not started.
CycleFails(w, K) ==
  /\ cycle[w]
  /\ cycle' = [cycle EXCEPT ![w] = FALSE]
  /\ tasks' = {s \in tasks : s.worker # w \/ ~s.current}
              \cup {[s EXCEPT !.current = FALSE] : s \in K}
  /\ Cardinality({s \in tasks' : ~s.current}) <= MaxLeft
  /\ UNCHANGED <<role, alert, counted, msg, inbox, changes, lost, late>>

\* The process dies; the next one has a new worker id, but nothing of the
\* old one is left to act under the old id.
WorkerDies(w) ==
  /\ cycle[w] \/ \E t \in tasks : t.worker = w
  /\ cycle' = [cycle EXCEPT ![w] = FALSE]
  /\ tasks' = {t \in tasks : t.worker # w}
  /\ UNCHANGED <<role, alert, counted, msg, inbox, changes, lost, late>>

LeaseEnds(u) ==
  /\ msg[u].status = "PROCESSING" /\ msg[u].live
  /\ msg' = [msg EXCEPT ![u].live = FALSE]
  /\ UNCHANGED <<role, alert, counted, cycle, tasks, inbox, changes, lost,
                 late>>
ComesDue(u) ==
  /\ msg[u].status = "PENDING" /\ ~msg[u].due
  /\ msg' = [msg EXCEPT ![u].due = TRUE]
  /\ UNCHANGED <<role, alert, counted, cycle, tasks, inbox, changes, lost,
                 late>>

\* markRead, and markAllRead with a cutoff after the delivery: the caller
\* needs to be signed in, not to be a member still.
markRead(u) ==
  /\ inbox[u] = "unread"
  /\ inbox' = [inbox EXCEPT ![u] = "read"]
  /\ UNCHANGED <<role, alert, counted, msg, cycle, tasks, changes, lost, late>>
-----------------------------------------------------------------------------
Followed == {RunSite("run_failed"),
             PauseSite("occurrence", {"schedule", "occurrence"},
                       "runner_update_required")}
\* What follows the first late call is not explored.
Next ==
  /\ ~late
  /\ \/ \E s \in Followed, c \in 1..2 :
           append(s, c) /\ (alert = NoAlert => c = 1)
     \/ resolve("resumed")
     \/ \E u \in Users, r \in {"none", "MEMBER", "ADMIN"} : ChangeRole(u, r)
     \/ \E w \in Workers :
          \/ \E S \in SUBSET Users : claimDue(w, S)
          \/ CycleEnds(w) \/ WorkerDies(w)
          \/ \E K \in SUBSET {t \in tasks : t.worker = w /\ t.current} :
               CycleFails(w, K)
     \/ \E t \in tasks :
          \/ deliver(t) \/ DeliverFails(t) \/ retryOrDeadLetter(t)
     \/ \E u \in Users : LeaseEnds(u) \/ ComesDue(u) \/ markRead(u)

TypeOK ==
  /\ role \in [Users -> {"none", "MEMBER", "ADMIN"}]
  /\ alert.status \in {"none", "active", "informational", "resolved"}
  /\ counted \in 0..Cardinality(Users)
  /\ \A u \in Users :
       /\ msg[u].status \in {"none", "PENDING", "PROCESSING", "DELIVERED",
                             "DEAD_LETTER"}
       /\ msg[u].attempts \in 0..MaxAttempts
       /\ msg[u].by \in Workers \cup {"none"}
  /\ inbox \in [Users -> {"none", "unread", "read"}]

\* Every call of append in the repositories and in the audit service passes
\* the alert schema: a refused alert would roll back the transaction that
\* ends the run or pauses the schedule.
EveryCallerAlertAccepted == \A s \in CallSites : Accepts(s)

\* The audit trail counts the recipients the alert really has: a repeated
\* append never addresses somebody the event does not count.
RecipientsCounted == alert # NoAlert => counted = Cardinality(Addressed(msg))

\* No message waits for a claim that cannot come: one that goes back to the
\* queue has an attempt left, whatever leases ended and workers died; only a
\* call that a failed cycle left behind and that meets a newer lease of its
\* own worker can put a spent message back.
NeverStranded ==
  \A u \in Users : msg[u].status = "PENDING" =>
                     msg[u].attempts < MaxAttempts \/ late

\* A message is given up only when its attempts are spent or its recipient
\* lost the right to it, and not because a lease was lost, with two
\* exceptions: a call left behind by a failed cycle, and a schedule's
\* creator, who is addressed by alerts about an occurrence and then looked
\* up by the occurrence's id among the schedules.
GivenUpForAReason ==
  \A u \in Users :
    msg[u].status = "DEAD_LETTER" =>
      \/ msg[u].attempts = MaxAttempts
      \/ u \in lost \/ late
      \/ u = Creator /\ alert.site.source = "occurrence"

\* A second delivery of the same message, after a lease that ended between
\* the notification and the update of the message, leaves a notification
\* that was read as read.
ReadStaysRead ==
  \A u \in Users : inbox[u] = "read" => inbox'[u] = "read"
=============================================================================
