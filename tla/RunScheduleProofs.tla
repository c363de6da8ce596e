--------------------------- MODULE RunScheduleProofs ---------------------------
(***************************************************************************)
(* Proofs about RunSchedule: for any schedules, definitions, Runners and   *)
(* schedulers, and for any calculation whose answers lie after the instant *)
(* asked about, a Runner gets one scheduled run at a time, a pause by the  *)
(* system is alerted, an ambiguous end pauses when its occurrence closes,  *)
(* and one scheduler dispatches the firings in order.                      *)
(*                                                                         *)
(* The first three need what a tick remembers to be well formed            *)
(* (TicksTyped): a work list is read once and used transactions later.     *)
(* The order needs that an instant with a run has been passed by the       *)
(* clock, by the tick under way and by its schedule (PassedBy).            *)
(***************************************************************************)
EXTENDS RunSchedule, FiniteSetTheorems, TLAPS

-----------------------------------------------------------------------------
(* The inductive invariant                                                 *)

Rows ==
  [status : ScheduleStatuses, next : Instants \cup {None},
   pausedBy : Instants \cup {None}]

Ticks ==
  [phase : {"idle", "due", "timeout", "terminal"}, now : Instants,
   work : Seq(Schedules \X Sources)]

(* What a tick remembers: due schedules, later occurrences.                *)
TicksTyped ==
  /\ tick \in [Schedulers -> Ticks]
  /\ \A k \in Schedulers :
       tick[k].phase \in {"timeout", "terminal"} =>
         tick[k].work \in Seq(AllOccurrences)

ScheduleInv ==
  /\ TypeOK /\ TicksTyped /\ OneActiveRunPerRunner /\ AutoPauseIsAlerted

(* A run that exists is of an instant that every tick under way has passed *)
(* and of one before the instant the schedule waits for.                   *)
PassedBy(s, t) ==
  /\ t <= now
  /\ \A k \in Schedulers : tick[k].phase # "idle" => t <= tick[k].now
  /\ schedule[s].next # None => t < schedule[s].next

OrderInv ==
  /\ \A k \in Schedulers : tick[k].phase # "idle" => tick[k].now <= now
  /\ \A s \in Schedules : \A t \in Instants :
       run[s][t] # "none" => PassedBy(s, t)

OneScheduler == \A k, l \in Schedulers : k = l

-----------------------------------------------------------------------------
(* The operators                                                           *)

(* What NextAfter finds is an instant after the one it is asked about.     *)
LEMMA NextAfterIsLater ==
  ASSUME NEW s \in Schedules, NEW t \in Instants
  PROVE  /\ NextAfter(s, t) \in Instants \cup {None}
         /\ NextAfter(s, t) # None => NextAfter(s, t) > t
  <1> DEFINE found == nextFiring(Definition[s], t) \cap Instants
  <1>1. CASE found = {}
    BY <1>1 DEF NextAfter
  <1>2. CASE found # {}
    <2>1. NextAfter(s, t) = CHOOSE u \in found : TRUE
      BY <1>2 DEF NextAfter
    <2>2. NextAfter(s, t) \in found
      BY <1>2, <2>1
    <2> QED
      BY <2>2, ScheduleAssumption DEF Instants
  <1> QED
    BY <1>1, <1>2

(* A work list read from the database is a sequence of what it selects.    *)
LEMMA OrderIsSequence ==
  ASSUME NEW S, IsFiniteSet(S), NEW order \in SetToSeqs(S)
  PROVE  order \in Seq(S)
  <1>1. Cardinality(S) \in Nat
    BY FS_CardinalityType
  <1>2. order \in [1..Cardinality(S) -> S]
    BY DEF SetToSeqs
  <1> QED
    BY <1>1, <1>2

(* There are finitely many occurrences.                                    *)
LEMMA FiniteOccurrences ==
  ASSUME NEW S \in SUBSET AllOccurrences
  PROVE  IsFiniteSet(S)
  <1>1. IsFiniteSet(Instants)
    BY FS_Interval, ScheduleAssumption DEF Instants
  <1>2. IsFiniteSet(AllOccurrences)
    BY <1>1, FS_Product, ScheduleAssumption DEF AllOccurrences
  <1> QED
    BY <1>2, FS_Subset

(* The due schedules, as a tick lists them.                                *)
LEMMA FiniteDue ==
  ASSUME NEW S \in SUBSET Schedules
  PROVE  IsFiniteSet({<<s, None>> : s \in S})
  <1>1. IsFiniteSet(Schedules \X {None})
    BY FS_Singleton, FS_Product, ScheduleAssumption
  <1>2. {<<s, None>> : s \in S} \subseteq Schedules \X {None}
    OBVIOUS
  <1> QED
    BY <1>1, <1>2, FS_Subset

(* The rest of a work list is one of the same kind, and its tick goes on.  *)
LEMMA WorkDoneTyped ==
  ASSUME TicksTyped, NEW k \in Schedulers, NEW phase, Working(k, phase), WorkDone(k)
  PROVE  /\ TicksTyped'
         /\ \A l \in Schedulers : /\ tick'[l].phase = tick[l].phase
                                  /\ tick'[l].now = tick[l].now
  <1>1. /\ tick[k] \in Ticks /\ tick[k].work # <<>>
        /\ tick[k].work \in Seq(Schedules \X Sources)
    BY DEF TicksTyped, Ticks, Working
  <1>2. Tail(tick[k].work) \in Seq(Schedules \X Sources)
    BY <1>1
  <1>3. tick[k].work \in Seq(AllOccurrences) => Tail(tick[k].work) \in Seq(AllOccurrences)
    BY <1>1
  <1>4. tick' = [tick EXCEPT ![k] = [tick[k] EXCEPT !.work = Tail(tick[k].work)]]
    BY DEF WorkDone
  <1>5. [tick[k] EXCEPT !.work = Tail(tick[k].work)] \in Ticks
    BY <1>1, <1>2 DEF Ticks
  <1>6. tick' \in [Schedulers -> Ticks]
    BY <1>4, <1>5 DEF TicksTyped
  <1>7. \A l \in Schedulers : /\ tick'[l].phase = tick[l].phase
                              /\ tick'[l].now = tick[l].now
                              /\ l # k => tick'[l] = tick[l]
    BY <1>1, <1>4 DEF TicksTyped, Ticks
  <1>8. tick'[k].work = Tail(tick[k].work)
    BY <1>1, <1>4 DEF TicksTyped, Ticks
  <1> QED
    BY <1>3, <1>6, <1>7, <1>8 DEF TicksTyped

(* The subject of a due tick is a schedule, that of a later one an         *)
(* occurrence.                                                             *)
LEMMA SubjectTyped ==
  ASSUME TicksTyped, NEW k \in Schedulers, NEW phase, Working(k, phase)
  PROVE  /\ Subject(k)[1] \in Schedules /\ tick[k].now \in Instants
         /\ phase \in {"timeout", "terminal"} => Subject(k)[2] \in Instants
  <1>1. /\ tick[k] \in Ticks /\ tick[k].work # <<>>
        /\ tick[k].work \in Seq(Schedules \X Sources) /\ tick[k].now \in Instants
    BY DEF TicksTyped, Ticks, Working
  <1>2. Subject(k) \in Schedules \X Sources
    BY <1>1 DEF Subject
  <1>3. phase \in {"timeout", "terminal"} => Subject(k) \in AllOccurrences
    BY <1>1 DEF Subject, TicksTyped, Working
  <1> QED
    BY <1>1, <1>2, <1>3 DEF AllOccurrences

-----------------------------------------------------------------------------
(* Every step keeps the invariant                                          *)

(* Runs that only end leave a Runner at most one.                          *)
LEMMA EndingRuns ==
  ASSUME OneActiveRunPerRunner,
         \A s \in Schedules : \A t \in Instants :
           run'[s][t] \in ActiveRuns => run[s][t] \in ActiveRuns
  PROVE  OneActiveRunPerRunner'
  <1> SUFFICES ASSUME NEW o \in AllOccurrences, NEW p \in AllOccurrences,
                      RunnerOf[o[1]] = RunnerOf[p[1]],
                      run'[o[1]][o[2]] \in ActiveRuns,
                      run'[p[1]][p[2]] \in ActiveRuns
               PROVE  o = p
    BY DEF OneActiveRunPerRunner, AllOccurrences
  <1>1. /\ o[1] \in Schedules /\ o[2] \in Instants
        /\ p[1] \in Schedules /\ p[2] \in Instants
    BY DEF AllOccurrences
  <1> QED
    BY <1>1 DEF OneActiveRunPerRunner

(* A pause of one schedule with an alert of its source keeps the others'.  *)
LEMMA PausedWithAlert ==
  ASSUME TypeOK, AutoPauseIsAlerted, NEW s \in Schedules, NEW source \in Sources,
         CanAppend(s, source), appendAlert(s, source),
         source \in {OfSchedule, schedule'[s].pausedBy},
         \A r \in Schedules : r # s => schedule'[r] = schedule[r]
  PROVE  AutoPauseIsAlerted'
  <1>1. /\ alert[s][source] = "none" /\ alert'[s][source] = "active"
        /\ \A r \in Schedules : r # s => alert'[r] = alert[r]
    BY DEF TypeOK, CanAppend, appendAlert
  <1> QED
    BY <1>1 DEF AutoPauseIsAlerted

(* An append keeps the alerts typed.                                       *)
LEMMA AppendTyped ==
  ASSUME TypeOK, NEW s \in Schedules, NEW source \in Sources, appendAlert(s, source)
  PROVE  alert' \in [Schedules -> [Sources -> {"none", "active", "resolved"}]]
  BY DEF TypeOK, appendAlert

(* A resumption or an archiving resolves, and keeps the alerts typed.      *)
LEMMA ResolveTyped ==
  ASSUME TypeOK, NEW s \in Schedules, ResolvePaused(s) \/ UNCHANGED alert
  PROVE  /\ alert' \in [Schedules -> [Sources -> {"none", "active", "resolved"}]]
         /\ \A r \in Schedules : r # s => alert'[r] = alert[r]
  <1> DEFINE new == [o \in Sources |->
                       IF o \in {OfSchedule, schedule[s].pausedBy}
                            /\ alert[s][o] = "active"
                       THEN "resolved" ELSE alert[s][o]]
  <1>1. alert \in [Schedules -> [Sources -> {"none", "active", "resolved"}]]
    BY DEF TypeOK
  <1>2. new \in [Sources -> {"none", "active", "resolved"}]
    BY <1>1
  <1>3. alert' = [alert EXCEPT ![s] = new] \/ alert' = alert
    BY DEF ResolvePaused
  <1> HIDE DEF new
  <1> QED
    BY <1>1, <1>2, <1>3


(* A new schedule.                                                         *)
LEMMA UserCreateKeeps ==
  ASSUME ScheduleInv, NEW s \in Schedules, create(s)
  PROVE  ScheduleInv'
  <1>0. TypeOK /\ TicksTyped /\ OneActiveRunPerRunner /\ AutoPauseIsAlerted
    BY DEF ScheduleInv
  <1>1. NextAfter(s, now) \in Instants \cup {None}
    BY <1>0, NextAfterIsLater DEF TypeOK
  <1>2. TypeOK'
    BY ZenonT(60), <1>0, <1>1 DEF TypeOK, ScheduleStatuses, create, CanCreate
  <1>3. TicksTyped'
    BY <1>0 DEF TicksTyped, create
  <1>4. OneActiveRunPerRunner'
    BY <1>0, EndingRuns DEF create
  <1>5. AutoPauseIsAlerted'
    BY <1>0 DEF TypeOK, AutoPauseIsAlerted, create
  <1> QED
    BY <1>2, <1>3, <1>4, <1>5 DEF ScheduleInv

(* A pause by a user.                                                      *)
LEMMA UserPauseKeeps ==
  ASSUME ScheduleInv, NEW s \in Schedules, pause(s)
  PROVE  ScheduleInv'
  <1>0. TypeOK /\ TicksTyped /\ OneActiveRunPerRunner /\ AutoPauseIsAlerted
    BY DEF ScheduleInv
  <1>2. TypeOK'
    BY <1>0 DEF TypeOK, ScheduleStatuses, pause
  <1>3. TicksTyped'
    BY <1>0 DEF TicksTyped, pause
  <1>4. OneActiveRunPerRunner'
    BY <1>0, EndingRuns DEF pause
  <1>5. AutoPauseIsAlerted'
    BY <1>0 DEF TypeOK, AutoPauseIsAlerted, pause
  <1> QED
    BY <1>2, <1>3, <1>4, <1>5 DEF ScheduleInv

(* A resumption.                                                           *)
LEMMA UserResumeKeeps ==
  ASSUME ScheduleInv, NEW s \in Schedules, resume(s)
  PROVE  ScheduleInv'
  <1>0. TypeOK /\ TicksTyped /\ OneActiveRunPerRunner /\ AutoPauseIsAlerted
    BY DEF ScheduleInv
  <1>1. NextAfter(s, now) \in Instants \cup {None}
    BY <1>0, NextAfterIsLater DEF TypeOK
  <1>2. TypeOK'
    <2>1. schedule' \in [Schedules -> [status : ScheduleStatuses,
                                       next : Instants \cup {None},
                                       pausedBy : Instants \cup {None}]]
      <3> DEFINE new == [schedule[s] EXCEPT !.status = "ACTIVE",
                           !.next = NextAfter(s, now), !.pausedBy = None]
      <3>1. schedule[s] \in [status : ScheduleStatuses, next : Instants \cup {None},
                             pausedBy : Instants \cup {None}]
        BY <1>0 DEF TypeOK
      <3>2. new \in [status : ScheduleStatuses, next : Instants \cup {None},
                     pausedBy : Instants \cup {None}]
        BY <1>1, <3>1 DEF ScheduleStatuses
      <3>3. schedule' = [schedule EXCEPT ![s] = new]
        BY DEF resume
      <3> HIDE DEF new
      <3> QED
        BY <1>0, <3>2, <3>3 DEF TypeOK
    <2>2. alert' \in [Schedules -> [Sources -> {"none", "active", "resolved"}]]
      BY <1>0, ResolveTyped DEF resume
    <2> QED
      BY <1>0, <2>1, <2>2 DEF TypeOK, resume
  <1>3. TicksTyped'
    BY <1>0 DEF TicksTyped, resume
  <1>4. OneActiveRunPerRunner'
    BY <1>0, EndingRuns DEF resume
  <1>5. AutoPauseIsAlerted'
    BY <1>0, ResolveTyped DEF TypeOK, AutoPauseIsAlerted, resume
  <1> QED
    BY <1>2, <1>3, <1>4, <1>5 DEF ScheduleInv

(* An archiving.                                                           *)
LEMMA UserArchiveKeeps ==
  ASSUME ScheduleInv, NEW s \in Schedules, archive(s)
  PROVE  ScheduleInv'
  <1>0. TypeOK /\ TicksTyped /\ OneActiveRunPerRunner /\ AutoPauseIsAlerted
    BY DEF ScheduleInv
  <1>2. TypeOK'
    BY ZenonT(60), <1>0, ResolveTyped DEF TypeOK, ScheduleStatuses, archive
  <1>3. TicksTyped'
    BY <1>0 DEF TicksTyped, archive
  <1>4. OneActiveRunPerRunner'
    BY <1>0, EndingRuns DEF archive
  <1>5. AutoPauseIsAlerted'
    BY <1>0, ResolveTyped DEF TypeOK, AutoPauseIsAlerted, archive
  <1> QED
    BY <1>2, <1>3, <1>4, <1>5 DEF ScheduleInv

(* Steps that only move a tick.                                            *)
LEMMA OnlyTicks ==
  ASSUME ScheduleInv, TicksTyped', UNCHANGED <<now, schedule, occurrence, run, alert>>
  PROVE  ScheduleInv'
  <1>1. TypeOK' /\ OneActiveRunPerRunner' /\ AutoPauseIsAlerted'
    BY EndingRuns DEF ScheduleInv, TypeOK, AutoPauseIsAlerted
  <1> QED
    BY <1>1 DEF ScheduleInv

(* A tick replaced by another.                                             *)
LEMMA TickReplaced ==
  ASSUME TicksTyped, NEW k \in Schedulers, NEW new \in Ticks,
         new.phase \in {"timeout", "terminal"} => new.work \in Seq(AllOccurrences),
         tick' = [tick EXCEPT ![k] = new]
  PROVE  TicksTyped' /\ tick'[k] = new
  <1>1. tick' \in [Schedulers -> Ticks] /\ tick'[k] = new
    BY DEF TicksTyped
  <1>2. \A l \in Schedulers : l # k => tick'[l] = tick[l]
    BY DEF TicksTyped
  <1> QED
    BY <1>1, <1>2 DEF TicksTyped

(* An idle scheduler.                                                      *)
LEMMA IdleTyped ==
  Idle \in Ticks /\ Idle.phase = "idle"
  <1>1. 0 \in Instants
    BY ScheduleAssumption DEF Instants
  <1>2. <<>> \in Seq(Schedules \X Sources)
    OBVIOUS
  <1> QED
    BY <1>1, <1>2 DEF Idle, Ticks

(* The start of a tick.                                                    *)
LEMMA StartKeeps ==
  ASSUME ScheduleInv, NEW k \in Schedulers, startTick(k)
  PROVE  ScheduleInv'
  <1> DEFINE due == {<<s, None>> : s \in selectDueSchedules(now)}
  <1>1. PICK order \in SetToSeqs(due) :
          tick' = [tick EXCEPT ![k] = [phase |-> "due", now |-> now, work |-> order]]
    BY DEF startTick
  <1>2. order \in Seq(Schedules \X Sources)
    <2>1. selectDueSchedules(now) \in SUBSET Schedules
      BY DEF selectDueSchedules
    <2>2. IsFiniteSet(due)
      BY <2>1, FiniteDue
    <2>3. due \subseteq Schedules \X Sources
      BY <2>1 DEF Sources, None, OfSchedule
    <2> HIDE DEF due
    <2>4. order \in Seq(due)
      BY <2>2, OrderIsSequence
    <2> QED
      BY <2>3, <2>4
  <1> DEFINE new == [phase |-> "due", now |-> now, work |-> order]
  <1>3. new \in Ticks
    BY <1>2 DEF Ticks, ScheduleInv, TypeOK
  <1>4. TicksTyped'
    BY <1>1, <1>3, TickReplaced DEF ScheduleInv
  <1> QED
    BY <1>4, OnlyTicks DEF startTick

(* A work list of occurrences.                                             *)
LEMMA ListTyped ==
  ASSUME ScheduleInv, NEW k \in Schedulers, NEW S \in SUBSET AllOccurrences,
         NEW order \in SetToSeqs(S), NEW phase \in {"timeout", "terminal"},
         tick' = [tick EXCEPT ![k].phase = phase, ![k].work = order]
  PROVE  TicksTyped'
  <1>1. order \in Seq(AllOccurrences) /\ order \in Seq(Schedules \X Sources)
    <2>1. order \in Seq(S)
      BY FiniteOccurrences, OrderIsSequence
    <2>2. AllOccurrences \subseteq Schedules \X Sources
      BY DEF AllOccurrences, Sources
    <2> QED
      BY <2>1, <2>2
  <1> DEFINE new == [tick[k] EXCEPT !.phase = phase, !.work = order]
  <1>2. tick[k] \in Ticks
    BY DEF ScheduleInv, TicksTyped
  <1>3. new \in Ticks /\ new.work = order
    BY <1>1, <1>2 DEF Ticks
  <1>4. tick' = [tick EXCEPT ![k] = new]
    OBVIOUS
  <1> HIDE DEF new
  <1> QED
    BY <1>1, <1>3, <1>4, TickReplaced DEF ScheduleInv

(* The next phase of a tick.                                               *)
LEMMA NextPhaseKeeps ==
  ASSUME ScheduleInv, NEW k \in Schedulers, NextPhase(k)
  PROVE  ScheduleInv'
  <1>1. Dispatched \subseteq AllOccurrences
    BY DEF Dispatched
  <1>2. /\ TimedOut(tick[k].now) \in SUBSET AllOccurrences
        /\ Ended \in SUBSET AllOccurrences
    BY <1>1 DEF TimedOut, Ended
  <1>3. TicksTyped'
    <2>1. CASE tick' = [tick EXCEPT ![k] = Idle]
      BY <2>1, IdleTyped, TickReplaced DEF ScheduleInv
    <2>2. CASE \E order \in SetToSeqs(TimedOut(tick[k].now)) :
                 tick' = [tick EXCEPT ![k].phase = "timeout", ![k].work = order]
      BY <1>2, <2>2, ListTyped
    <2>3. CASE \E order \in SetToSeqs(Ended) :
                 tick' = [tick EXCEPT ![k].phase = "terminal", ![k].work = order]
      BY <1>2, <2>3, ListTyped
    <2> QED
      BY <2>1, <2>2, <2>3 DEF NextPhase
  <1> QED
    BY <1>3, OnlyTicks DEF NextPhase

(* A tick that is over: its process died, or a close threw.                *)
LEMMA TickOverKeeps ==
  ASSUME ScheduleInv, NEW k \in Schedulers, Crash(k) \/ CloseThrows(k)
  PROVE  ScheduleInv'
  <1>1. TicksTyped'
    BY IdleTyped, TickReplaced DEF ScheduleInv, Crash, CloseThrows
  <1> QED
    BY <1>1, OnlyTicks DEF Crash, CloseThrows

(* An occurrence past its start window: of the work list the head is taken *)
(* off, or, when the time-out is refused, all of it.                       *)
LEMMA TimeOutKeeps ==
  ASSUME ScheduleInv, NEW k \in Schedulers, reconcileTimedOutOccurrence(k)
  PROVE  ScheduleInv'
  <1>1. CASE WorkDone(k)
    <2>1. TicksTyped'
      BY <1>1, WorkDoneTyped DEF ScheduleInv, reconcileTimedOutOccurrence
    <2> QED
      BY <2>1, OnlyTicks DEF reconcileTimedOutOccurrence
  <1>2. CASE tick' = [tick EXCEPT ![k].work = <<>>]
    <2> DEFINE new == [tick[k] EXCEPT !.work = <<>>]
    <2>1. tick[k] \in Ticks /\ <<>> \in Seq(AllOccurrences)
          /\ <<>> \in Seq(Schedules \X Sources)
      BY DEF ScheduleInv, TicksTyped
    <2>2. new \in Ticks /\ new.work = <<>>
      BY <2>1 DEF Ticks
    <2>3. tick' = [tick EXCEPT ![k] = new]
      BY <1>2
    <2> HIDE DEF new
    <2>4. TicksTyped'
      BY <2>1, <2>2, <2>3, TickReplaced DEF ScheduleInv
    <2> QED
      BY <2>4, OnlyTicks DEF reconcileTimedOutOccurrence
  <1> QED
    BY <1>1, <1>2 DEF reconcileTimedOutOccurrence, WorkDone

(* An occurrence passed over.                                              *)
LEMMA PassOverKeeps ==
  ASSUME ScheduleInv, NEW k \in Schedulers, PassOver(k)
  PROVE  ScheduleInv'
  <1>1. TicksTyped'
    BY WorkDoneTyped DEF ScheduleInv, PassOver
  <1> QED
    BY <1>1, OnlyTicks DEF PassOver


(* One row of the schedules replaced.                                      *)
LEMMA RowReplaced ==
  ASSUME TypeOK, NEW s \in Schedules, NEW new \in Rows,
         schedule' = [schedule EXCEPT ![s] = new]
  PROVE  /\ schedule' \in [Schedules -> Rows] /\ schedule'[s] = new
         /\ \A r \in Schedules : r # s => schedule'[r] = schedule[r]
  BY DEF TypeOK, Rows

(* A due occurrence is of a schedule that is active, at an instant.        *)
LEMMA DueTyped ==
  ASSUME TypeOK, NEW k \in Schedulers, NEW s, Due(k, s)
  PROVE  /\ s \in Schedules /\ schedule[s].next \in Instants
         /\ schedule[s] \in Rows /\ schedule[s].status = "ACTIVE"
         /\ schedule[s].next <= tick[k].now
         /\ occurrence[s][schedule[s].next] = "none"
  BY DEF TypeOK, Due, selectDueSchedules, Rows

(* An occurrence skipped for an update of its Runner.                      *)
LEMMA SkipKeeps ==
  ASSUME ScheduleInv, NEW k \in Schedulers, skipMaintenanceOccurrence(k)
  PROVE  ScheduleInv'
  <1> DEFINE s == Subject(k)[1]
             t == schedule[s].next
  <1>0. TypeOK /\ TicksTyped /\ OneActiveRunPerRunner /\ AutoPauseIsAlerted
    BY DEF ScheduleInv
  <1>1. Due(k, s) /\ Working(k, "due") /\ tick[k].now \in Instants /\ WorkDone(k)
    BY <1>0, SubjectTyped DEF skipMaintenanceOccurrence
  <1>2. /\ s \in Schedules /\ t \in Instants /\ schedule[s] \in Rows
        /\ schedule[s].status = "ACTIVE" /\ occurrence[s][t] = "none"
    BY <1>0, <1>1, DueTyped
  <1>3. PICK new \in Rows :
          /\ schedule' = [schedule EXCEPT ![s] = new]
          /\ new.status # "AUTO_PAUSED"
    <2> DEFINE one == [schedule[s] EXCEPT !.next = None, !.status = "COMPLETED"]
               any == [schedule[s] EXCEPT !.next = NextAfter(s, tick[k].now)]
    <2>1. NextAfter(s, tick[k].now) \in Instants \cup {None}
      BY <1>1, <1>2, NextAfterIsLater
    <2>2. one \in Rows /\ one.status # "AUTO_PAUSED" /\ any \in Rows
          /\ any.status # "AUTO_PAUSED"
      BY <1>2, <2>1 DEF Rows, ScheduleStatuses
    <2>3. schedule' = [schedule EXCEPT ![s] = one] \/ schedule' = [schedule EXCEPT ![s] = any]
      BY DEF skipMaintenanceOccurrence
    <2> HIDE DEF one, any
    <2> QED
      BY <2>2, <2>3
  <1>4. /\ schedule' \in [Schedules -> Rows] /\ schedule'[s] = new
        /\ \A r \in Schedules : r # s => schedule'[r] = schedule[r]
    BY <1>0, <1>2, <1>3, RowReplaced
  <1>5. occurrence' \in [Schedules -> [Instants -> OccurrenceStatuses]]
    BY <1>0, <1>2 DEF TypeOK, OccurrenceStatuses, skipMaintenanceOccurrence
  <1>6. UNCHANGED <<now, run, alert>>
    BY DEF skipMaintenanceOccurrence
  <1>7. TypeOK'
    BY <1>0, <1>4, <1>5, <1>6 DEF TypeOK, Rows
  <1>8. OneActiveRunPerRunner'
    BY <1>0, <1>6, EndingRuns
  <1>9. AutoPauseIsAlerted'
    BY <1>0, <1>2, <1>3, <1>4, <1>6 DEF AutoPauseIsAlerted
  <1>10. TicksTyped'
    BY <1>0, <1>1, WorkDoneTyped
  <1> QED
    BY <1>7, <1>8, <1>9, <1>10 DEF ScheduleInv

(* A Runner that must be updated or lacks a secret.                        *)
LEMMA BlockedKeeps ==
  ASSUME ScheduleInv, NEW k \in Schedulers, autoPauseBlockedOccurrence(k)
  PROVE  ScheduleInv'
  <1> DEFINE s == Subject(k)[1]
             t == schedule[s].next
  <1>0. TypeOK /\ TicksTyped /\ OneActiveRunPerRunner /\ AutoPauseIsAlerted
    BY DEF ScheduleInv
  <1>1. Due(k, s) /\ Working(k, "due") /\ tick[k].now \in Instants /\ WorkDone(k)
    BY <1>0, SubjectTyped DEF autoPauseBlockedOccurrence
  <1>2. /\ s \in Schedules /\ t \in Instants /\ schedule[s] \in Rows
        /\ schedule[s].status = "ACTIVE" /\ occurrence[s][t] = "none"
    BY <1>0, <1>1, DueTyped
  <1>3. PICK new \in Rows :
          /\ schedule' = [schedule EXCEPT ![s] = new]
          /\ new.pausedBy = t
    <2> DEFINE row == [schedule[s] EXCEPT !.status = "AUTO_PAUSED", !.pausedBy = t,
                                          !.next = None]
    <2>1. row \in Rows /\ row.pausedBy = t
      BY <1>2 DEF Rows, ScheduleStatuses
    <2>2. schedule' = [schedule EXCEPT ![s] = row]
      BY DEF autoPauseBlockedOccurrence
    <2> HIDE DEF row
    <2> QED
      BY <2>1, <2>2
  <1>4. /\ schedule' \in [Schedules -> Rows] /\ schedule'[s] = new
        /\ \A r \in Schedules : r # s => schedule'[r] = schedule[r]
    BY <1>0, <1>2, <1>3, RowReplaced
  <1>5. occurrence' \in [Schedules -> [Instants -> OccurrenceStatuses]]
    BY <1>0, <1>2 DEF TypeOK, OccurrenceStatuses, autoPauseBlockedOccurrence
  <1>6. /\ t \in Sources /\ CanAppend(s, t) /\ appendAlert(s, t)
        /\ UNCHANGED <<now, run>>
    BY <1>2 DEF autoPauseBlockedOccurrence, Sources
  <1>7. TypeOK'
    BY <1>0, <1>2, <1>4, <1>5, <1>6, AppendTyped DEF TypeOK, Rows
  <1>8. OneActiveRunPerRunner'
    BY <1>0, <1>6, EndingRuns
  <1>9. AutoPauseIsAlerted'
    <2>1. t \in {OfSchedule, schedule'[s].pausedBy}
      BY <1>3, <1>4
    <2> HIDE DEF s, t
    <2> QED
      BY <1>0, <1>2, <1>4, <1>6, <2>1, PausedWithAlert
  <1>10. TicksTyped'
    BY <1>0, <1>1, WorkDoneTyped
  <1> QED
    BY <1>7, <1>8, <1>9, <1>10 DEF ScheduleInv

(* A policy that no longer allows the workflow.                            *)
LEMMA DeniedKeeps ==
  ASSUME ScheduleInv, NEW k \in Schedulers, PolicyDenied(k)
  PROVE  ScheduleInv'
  <1> DEFINE s == Subject(k)[1]
             t == schedule[s].next
  <1>0. TypeOK /\ TicksTyped /\ OneActiveRunPerRunner /\ AutoPauseIsAlerted
    BY DEF ScheduleInv
  <1>1. Due(k, s) /\ Working(k, "due") /\ tick[k].now \in Instants /\ WorkDone(k)
    BY <1>0, SubjectTyped DEF PolicyDenied
  <1>2. /\ s \in Schedules /\ t \in Instants /\ schedule[s] \in Rows
        /\ schedule[s].status = "ACTIVE" /\ occurrence[s][t] = "none"
    BY <1>0, <1>1, DueTyped
  <1>3. PICK new \in Rows :
          /\ schedule' = [schedule EXCEPT ![s] = new]
          /\ new.pausedBy = t
    <2> DEFINE row == [schedule[s] EXCEPT !.status = "AUTO_PAUSED", !.pausedBy = t]
    <2>1. row \in Rows /\ row.pausedBy = t
      BY <1>2 DEF Rows, ScheduleStatuses
    <2>2. schedule' = [schedule EXCEPT ![s] = row]
      BY DEF PolicyDenied
    <2> HIDE DEF row
    <2> QED
      BY <2>1, <2>2
  <1>4. /\ schedule' \in [Schedules -> Rows] /\ schedule'[s] = new
        /\ \A r \in Schedules : r # s => schedule'[r] = schedule[r]
    BY <1>0, <1>2, <1>3, RowReplaced
  <1>5. occurrence' \in [Schedules -> [Instants -> OccurrenceStatuses]]
    BY <1>0, <1>2 DEF TypeOK, OccurrenceStatuses, PolicyDenied
  <1>6. /\ OfSchedule \in Sources /\ CanAppend(s, OfSchedule) /\ appendAlert(s, OfSchedule)
        /\ UNCHANGED <<now, run>>
    BY <1>2 DEF PolicyDenied, Sources
  <1>7. TypeOK'
    BY <1>0, <1>2, <1>4, <1>5, <1>6, AppendTyped DEF TypeOK, Rows
  <1>8. OneActiveRunPerRunner'
    BY <1>0, <1>6, EndingRuns
  <1>9. AutoPauseIsAlerted'
    <2>1. OfSchedule \in {OfSchedule, schedule'[s].pausedBy}
      BY <1>3, <1>4
    <2> HIDE DEF s, t
    <2> QED
      BY <1>0, <1>2, <1>4, <1>6, <2>1, PausedWithAlert
  <1>10. TicksTyped'
    BY <1>0, <1>1, WorkDoneTyped
  <1> QED
    BY <1>7, <1>8, <1>9, <1>10 DEF ScheduleInv

(* A dispatch: the only step that makes a run active.                      *)
LEMMA ProcessKeeps ==
  ASSUME ScheduleInv, NEW k \in Schedulers, processOccurrence(k)
  PROVE  ScheduleInv'
  <1> DEFINE s == Subject(k)[1]
             t == schedule[s].next
  <1>0. TypeOK /\ TicksTyped /\ OneActiveRunPerRunner /\ AutoPauseIsAlerted
    BY DEF ScheduleInv
  <1>1. Due(k, s) /\ Working(k, "due") /\ tick[k].now \in Instants /\ WorkDone(k)
    BY <1>0, SubjectTyped DEF processOccurrence
  <1>2. /\ s \in Schedules /\ t \in Instants /\ schedule[s] \in Rows
        /\ schedule[s].status = "ACTIVE" /\ occurrence[s][t] = "none"
    BY <1>0, <1>1, DueTyped
  <1>3. PICK new \in Rows :
          /\ schedule' = [schedule EXCEPT ![s] = new]
          /\ new.status # "AUTO_PAUSED"
    <2> DEFINE row == [schedule[s] EXCEPT
                         !.next = NextAfter(s, tick[k].now),
                         !.status = IF OneTime(s) THEN "COMPLETED" ELSE @]
    <2>1. NextAfter(s, tick[k].now) \in Instants \cup {None}
      BY <1>1, <1>2, NextAfterIsLater
    <2>2. row \in Rows /\ row.status # "AUTO_PAUSED"
      BY <1>2, <2>1 DEF Rows, ScheduleStatuses
    <2>3. schedule' = [schedule EXCEPT ![s] = row]
      BY DEF processOccurrence
    <2> HIDE DEF row
    <2> QED
      BY <2>2, <2>3
  <1>4. /\ schedule' \in [Schedules -> Rows] /\ schedule'[s] = new
        /\ \A r \in Schedules : r # s => schedule'[r] = schedule[r]
    BY <1>0, <1>2, <1>3, RowReplaced
  <1>5. occurrence' \in [Schedules -> [Instants -> OccurrenceStatuses]]
    BY <1>0, <1>2 DEF TypeOK, OccurrenceStatuses, processOccurrence
  <1>6. /\ run' = [run EXCEPT ![s][t] = "QUEUED"] /\ ~ RunnerBusy(s)
        /\ UNCHANGED <<now, alert>>
    BY DEF processOccurrence
  <1>7. TypeOK'
    <2>1. run' \in [Schedules -> [Instants -> {"none"} \cup ActiveRuns \cup TerminalRuns]]
      BY <1>0, <1>2, <1>6 DEF TypeOK, ActiveRuns
    <2> QED
      BY <1>0, <1>4, <1>5, <1>6, <2>1 DEF TypeOK, Rows
  <1>8. OneActiveRunPerRunner'
    <2> SUFFICES ASSUME NEW o \in AllOccurrences, NEW p \in AllOccurrences,
                        RunnerOf[o[1]] = RunnerOf[p[1]],
                        run'[o[1]][o[2]] \in ActiveRuns,
                        run'[p[1]][p[2]] \in ActiveRuns
                 PROVE  o = p
      BY DEF OneActiveRunPerRunner, AllOccurrences
    <2>1. /\ o[1] \in Schedules /\ o[2] \in Instants /\ o = <<o[1], o[2]>>
          /\ p[1] \in Schedules /\ p[2] \in Instants /\ p = <<p[1], p[2]>>
      BY DEF AllOccurrences
    <2>2. \A r \in Schedules : \A u \in Instants :
            run'[r][u] = IF r = s /\ u = t THEN "QUEUED" ELSE run[r][u]
      BY <1>0, <1>2, <1>6 DEF TypeOK
    <2>3. \A r \in Schedules : \A u \in Instants :
            RunnerOf[r] = RunnerOf[s] => run[r][u] \notin ActiveRuns
      BY <1>6 DEF RunnerBusy
    <2> HIDE DEF s, t
    <2>4. CASE o[1] = s /\ o[2] = t
      BY <2>1, <2>2, <2>3, <2>4
    <2>5. CASE p[1] = s /\ p[2] = t
      BY <2>1, <2>2, <2>3, <2>5
    <2>6. CASE ~(o[1] = s /\ o[2] = t) /\ ~(p[1] = s /\ p[2] = t)
      BY <1>0, <2>1, <2>2, <2>6 DEF OneActiveRunPerRunner
    <2> QED
      BY <2>4, <2>5, <2>6
  <1>9. AutoPauseIsAlerted'
    BY <1>0, <1>2, <1>3, <1>4, <1>6 DEF AutoPauseIsAlerted
  <1>10. TicksTyped'
    BY <1>0, <1>1, WorkDoneTyped
  <1> QED
    BY <1>7, <1>8, <1>9, <1>10 DEF ScheduleInv

(* The close of an occurrence whose run has ended.                         *)
LEMMA CloseKeeps ==
  ASSUME ScheduleInv, NEW k \in Schedulers, handleRunCompletion(k)
  PROVE  ScheduleInv'
  <1> DEFINE s == Subject(k)[1]
             t == Subject(k)[2]
  <1>0. TypeOK /\ TicksTyped /\ OneActiveRunPerRunner /\ AutoPauseIsAlerted
    BY DEF ScheduleInv
  <1>1. /\ Working(k, "terminal") /\ WorkDone(k) /\ s \in Schedules /\ t \in Instants
        /\ tick[k].now \in Instants /\ UNCHANGED <<now, run>>
    BY <1>0, SubjectTyped DEF handleRunCompletion
  <1>2. TicksTyped' /\ OneActiveRunPerRunner'
    BY <1>0, <1>1, WorkDoneTyped, EndingRuns
  <1>3. OutcomeOf(run[s][t]) \in OccurrenceStatuses
    BY DEF OutcomeOf, OccurrenceStatuses
  <1>4. CASE UNCHANGED <<occurrence, schedule, alert>>
    <2>1. TypeOK' /\ AutoPauseIsAlerted'
      BY <1>0, <1>1, <1>4 DEF TypeOK, AutoPauseIsAlerted
    <2> QED
      BY <1>2, <2>1 DEF ScheduleInv
  <1>5. CASE /\ occurrence' = [occurrence EXCEPT ![s][t] = OutcomeOf(run[s][t])]
             /\ schedule' = [schedule EXCEPT ![s].next = NextAfter(s, tick[k].now)]
             /\ UNCHANGED alert
    <2> DEFINE row == [schedule[s] EXCEPT !.next = NextAfter(s, tick[k].now)]
    <2>1. schedule' = [schedule EXCEPT ![s] = row]
      BY <1>5
    <2>2. /\ row \in Rows /\ row.status = schedule[s].status
          /\ row.pausedBy = schedule[s].pausedBy
      BY <1>0, <1>1, NextAfterIsLater DEF TypeOK, Rows
    <2> HIDE DEF row
    <2>3. /\ schedule' \in [Schedules -> Rows] /\ schedule'[s] = row
          /\ \A r \in Schedules : r # s => schedule'[r] = schedule[r]
      BY <1>0, <1>1, <2>1, <2>2, RowReplaced
    <2>4. occurrence' \in [Schedules -> [Instants -> OccurrenceStatuses]]
      BY <1>0, <1>1, <1>3, <1>5 DEF TypeOK
    <2>5. TypeOK'
      BY <1>0, <1>1, <1>5, <2>3, <2>4 DEF TypeOK, Rows
    <2>6. AutoPauseIsAlerted'
      BY <1>0, <1>1, <1>5, <2>2, <2>3 DEF AutoPauseIsAlerted
    <2> QED
      BY <1>2, <2>5, <2>6 DEF ScheduleInv
  <1>6. CASE /\ occurrence' = [occurrence EXCEPT ![s][t] = OutcomeOf(run[s][t])]
             /\ schedule' = [schedule EXCEPT ![s].status = "AUTO_PAUSED", ![s].pausedBy = t]
             /\ CanAppend(s, OfSchedule) /\ appendAlert(s, OfSchedule)
    <2> DEFINE row == [schedule[s] EXCEPT !.status = "AUTO_PAUSED", !.pausedBy = t]
    <2>1. schedule' = [schedule EXCEPT ![s] = row]
      BY <1>6
    <2>2. row \in Rows
      <3>1. schedule[s] \in Rows
        BY <1>0, <1>1 DEF TypeOK, Rows
      <3> QED
        BY <1>1, <3>1 DEF Rows, ScheduleStatuses
    <2> HIDE DEF row
    <2>3. /\ schedule' \in [Schedules -> Rows] /\ OfSchedule \in Sources
          /\ \A r \in Schedules : r # s => schedule'[r] = schedule[r]
      BY <1>0, <1>1, <2>1, <2>2, RowReplaced DEF Sources
    <2>4. occurrence' \in [Schedules -> [Instants -> OccurrenceStatuses]]
      BY <1>0, <1>1, <1>3, <1>6 DEF TypeOK
    <2>5. alert' \in [Schedules -> [Sources -> {"none", "active", "resolved"}]]
      BY <1>0, <1>1, <1>6, <2>3, AppendTyped
    <2>6. TypeOK'
      BY <1>0, <1>1, <2>3, <2>4, <2>5 DEF TypeOK, Rows
    <2>7. AutoPauseIsAlerted'
      BY <1>0, <1>1, <1>6, <2>3, PausedWithAlert
    <2> QED
      BY <1>2, <2>6, <2>7 DEF ScheduleInv
  <1> QED
    BY <1>4, <1>5, <1>6 DEF handleRunCompletion

(* A run claimed or ended.                                                 *)
LEMMA RunMovesKeep ==
  ASSUME ScheduleInv, NEW s \in Schedules, NEW t \in Instants,
         ClaimRun(s, t) \/ \E st \in TerminalRuns : EndRun(s, t, st)
  PROVE  ScheduleInv'
  <1>0. TypeOK /\ TicksTyped /\ OneActiveRunPerRunner /\ AutoPauseIsAlerted
    BY DEF ScheduleInv
  <1>1. PICK st \in ActiveRuns \cup TerminalRuns :
          /\ run' = [run EXCEPT ![s][t] = st] /\ run[s][t] \in ActiveRuns
          /\ UNCHANGED <<now, schedule, occurrence, alert, tick>>
    BY DEF ClaimRun, EndRun, ActiveRuns
  <1>2. TypeOK' /\ TicksTyped' /\ AutoPauseIsAlerted'
    BY <1>0, <1>1 DEF TypeOK, TicksTyped, AutoPauseIsAlerted
  <1>3. \A r \in Schedules : \A u \in Instants :
          run'[r][u] \in ActiveRuns => run[r][u] \in ActiveRuns
    BY <1>0, <1>1 DEF TypeOK
  <1> QED
    BY <1>0, <1>2, <1>3, EndingRuns DEF ScheduleInv

(* The clock.                                                              *)
LEMMA ElapseKeeps ==
  ASSUME ScheduleInv, Elapse
  PROVE  ScheduleInv'
  <1>1. now' \in Instants
    BY ScheduleAssumption DEF ScheduleInv, TypeOK, Elapse, Instants
  <1>2. TypeOK' /\ TicksTyped' /\ AutoPauseIsAlerted' /\ OneActiveRunPerRunner'
    BY <1>1, EndingRuns DEF ScheduleInv, TypeOK, TicksTyped, AutoPauseIsAlerted, Elapse
  <1> QED
    BY <1>2 DEF ScheduleInv

(* The invariant is inductive.                                             *)
LEMMA ScheduleStep ==
  ASSUME ScheduleInv, [Next]_vars
  PROVE  ScheduleInv'
  <1>1. CASE UNCHANGED vars
    <2>1. TicksTyped'
      BY <1>1 DEF ScheduleInv, TicksTyped, vars
    <2> QED
      BY <1>1, <2>1, OnlyTicks DEF vars
  <1>2. ASSUME NEW k \in Schedulers, TickStep(k) \/ Crash(k)
        PROVE  ScheduleInv'
    BY <1>2, StartKeeps, NextPhaseKeeps, PassOverKeeps, SkipKeeps, BlockedKeeps,
       DeniedKeeps, ProcessKeeps, TimeOutKeeps, CloseKeeps, TickOverKeeps DEF TickStep
  <1>3. CASE UserStep
    BY <1>3, UserCreateKeeps, UserPauseKeeps, UserResumeKeeps, UserArchiveKeeps
       DEF UserStep
  <1>4. CASE RunStep
    BY <1>4, RunMovesKeep DEF RunStep
  <1> QED
    BY <1>1, <1>2, <1>3, <1>4, ElapseKeeps DEF Next

(* No schedule exists at first.                                            *)
LEMMA ScheduleInit ==
  ASSUME Init
  PROVE  ScheduleInv
  <1>1. 0 \in Instants /\ None \in Instants \cup {None}
    BY ScheduleAssumption DEF Instants
  <1>2. TypeOK
    BY <1>1 DEF Init, TypeOK, ScheduleStatuses, OccurrenceStatuses
  <1>3. TicksTyped
    BY IdleTyped DEF Init, TicksTyped
  <1>4. OneActiveRunPerRunner /\ AutoPauseIsAlerted
    BY DEF Init, OneActiveRunPerRunner, AutoPauseIsAlerted, ActiveRuns, AllOccurrences
  <1> QED
    BY <1>2, <1>3, <1>4 DEF ScheduleInv


-----------------------------------------------------------------------------
(* A close after an ambiguous end                                          *)

(* Where occurrence and run of one instant are all that changes.           *)
LEMMA ClosedElsewhere ==
  ASSUME TypeOK, NEW s, NEW t, NEW new,
         occurrence' = [occurrence EXCEPT ![s][t] = new],
         s \in Schedules /\ t \in Instants /\ occurrence[s][t] = "DISPATCHED" =>
           \/ new = "DISPATCHED"
           \/ run'[s][t] \notin {"INTERRUPTED", "UNKNOWN"}
           \/ schedule'[s].status = "AUTO_PAUSED"
  PROVE  AmbiguousClosePauses
  <1> SUFFICES ASSUME NEW r \in Schedules, NEW u \in Instants,
                      occurrence[r][u] = "DISPATCHED",
                      occurrence'[r][u] # "DISPATCHED",
                      run'[r][u] \in {"INTERRUPTED", "UNKNOWN"}
               PROVE  schedule'[r].status = "AUTO_PAUSED"
    BY DEF AmbiguousClosePauses
  <1>1. r = s /\ u = t
    BY DEF TypeOK
  <1>2. occurrence'[s][t] = new
    BY <1>1 DEF TypeOK
  <1> QED
    BY <1>1, <1>2

(* Every step that closes the occurrence of an ambiguous end pauses.       *)
LEMMA ClosePauses ==
  ASSUME ScheduleInv, [Next]_vars
  PROVE  AmbiguousClosePauses
  <1>0. TypeOK /\ TicksTyped
    BY DEF ScheduleInv
  <1>1. CASE occurrence' = occurrence
    BY <1>1 DEF AmbiguousClosePauses
  <1>2. ASSUME NEW k \in Schedulers, NEW s, Due(k, s), NEW new,
               occurrence' = [occurrence EXCEPT ![s][schedule[s].next] = new]
        PROVE  AmbiguousClosePauses
    <2>1. occurrence[s][schedule[s].next] = "none"
      BY <1>0, <1>2, DueTyped
    <2> QED
      BY <1>0, <1>2, <2>1, ClosedElsewhere
  <1>4. ASSUME NEW k \in Schedulers, handleRunCompletion(k)
        PROVE  AmbiguousClosePauses
    <2> DEFINE s == Subject(k)[1]
               t == Subject(k)[2]
    <2>1. CASE UNCHANGED occurrence
      BY <1>1, <2>1
    <2>2. CASE /\ occurrence' = [occurrence EXCEPT ![s][t] = OutcomeOf(run[s][t])]
               /\ ~ Ambiguous(run[s][t]) /\ UNCHANGED run
      <3>1. run'[s][t] \notin {"INTERRUPTED", "UNKNOWN"}
        BY <2>2 DEF Ambiguous
      <3> HIDE DEF s, t
      <3> QED
        BY <1>0, <2>2, <3>1, ClosedElsewhere
    <2>3. CASE /\ occurrence' = [occurrence EXCEPT ![s][t] = OutcomeOf(run[s][t])]
               /\ schedule' = [schedule EXCEPT ![s].status = "AUTO_PAUSED",
                                               ![s].pausedBy = t]
      <3>1. s \in Schedules => schedule'[s].status = "AUTO_PAUSED"
        BY <1>0, <2>3 DEF TypeOK
      <3> HIDE DEF s, t
      <3> QED
        BY <1>0, <2>3, <3>1, ClosedElsewhere
    <2> QED
      BY <1>4, <2>1, <2>2, <2>3 DEF handleRunCompletion
  <1>6. ASSUME NEW k \in Schedulers, TickStep(k) \/ Crash(k)
        PROVE  AmbiguousClosePauses
    <2>1. CASE \/ skipMaintenanceOccurrence(k) \/ autoPauseBlockedOccurrence(k)
               \/ PolicyDenied(k) \/ processOccurrence(k)
      BY <1>2, <2>1 DEF skipMaintenanceOccurrence, autoPauseBlockedOccurrence,
         PolicyDenied, processOccurrence
    <2>2. CASE \/ startTick(k) \/ NextPhase(k) \/ PassOver(k)
               \/ reconcileTimedOutOccurrence(k) \/ CloseThrows(k) \/ Crash(k)
      BY <1>1, <2>2 DEF startTick, NextPhase, PassOver, reconcileTimedOutOccurrence,
         CloseThrows, Crash
    <2> QED
      BY <1>4, <1>6, <2>1, <2>2 DEF TickStep
  <1>7. CASE UNCHANGED vars \/ UserStep \/ Elapse
    BY <1>1, <1>7 DEF vars, UserStep, create, pause, resume, archive, Elapse
  <1>8. CASE RunStep
    BY <1>1, <1>8 DEF RunStep, ClaimRun, EndRun
  <1> QED
    BY <1>6, <1>7, <1>8 DEF Next

-----------------------------------------------------------------------------
(* The order of the dispatches of one scheduler                            *)

(* The instant a schedule waits for moves past the clock, or past the time *)
(* of a tick under way.                                                    *)
LaterNext(s) ==
  \/ schedule'[s].next \in {schedule[s].next, None}
  \/ schedule'[s].next > now
  \/ \E k \in Schedulers : tick[k].phase # "idle" /\ schedule'[s].next > tick[k].now

LaterTick(k) ==
  tick'[k].phase # "idle" =>
    \/ tick'[k].now = now
    \/ tick[k].phase # "idle" /\ tick'[k].now = tick[k].now

(* A run appears at the instant the schedule waited for, in a tick that    *)
(* has reached it.                                                         *)
RunAppears(s, t) ==
  /\ t = schedule[s].next
  /\ \E k \in Schedulers :
       /\ tick[k].phase # "idle" /\ tick'[k].now = tick[k].now /\ t <= tick[k].now
       /\ schedule'[s].next # None => schedule'[s].next > tick[k].now

OrderMoves ==
  /\ now <= now' /\ now' \in Instants
  /\ \A k \in Schedulers : LaterTick(k)
  /\ \A s \in Schedules : LaterNext(s)
  /\ \A s \in Schedules : \A t \in Instants :
       run[s][t] = "none" /\ run'[s][t] # "none" => RunAppears(s, t)

(* A step of a tick that leaves the runs alone.                            *)
LEMMA QuietMoves ==
  ASSUME ScheduleInv, UNCHANGED now,
         \A k \in Schedulers : LaterTick(k),
         \A s \in Schedules : LaterNext(s),
         \A s \in Schedules : \A t \in Instants : run[s][t] = "none" => run'[s][t] = "none"
  PROVE  OrderMoves
  <1>1. now <= now' /\ now' \in Instants
    BY ScheduleAssumption DEF ScheduleInv, TypeOK, Instants
  <1> QED
    BY <1>1 DEF OrderMoves

(* The answers of NextAfter are later.                                     *)
LEMMA NextMovesOn ==
  ASSUME ScheduleInv, NEW s \in Schedules,
         \/ schedule'[s].next = NextAfter(s, now)
         \/ \E k \in Schedulers : /\ tick[k].phase # "idle"
                                  /\ schedule'[s].next = NextAfter(s, tick[k].now)
  PROVE  LaterNext(s)
  <1>1. now \in Instants /\ \A k \in Schedulers : tick[k].now \in Instants
    BY DEF ScheduleInv, TypeOK, TicksTyped, Ticks
  <1> QED
    BY <1>1, NextAfterIsLater DEF LaterNext

(* A step of a user.                                                       *)
LEMMA UserMoves ==
  ASSUME ScheduleInv, UserStep
  PROVE  OrderMoves
  <1>1. PICK s \in Schedules : create(s) \/ pause(s) \/ resume(s) \/ archive(s)
    BY DEF UserStep
  <1>2. UNCHANGED <<now, run, tick>>
    BY <1>1 DEF create, pause, resume, archive
  <1>3. \A r \in Schedules : r # s => schedule'[r] = schedule[r]
    BY <1>1 DEF create, pause, resume, archive, ScheduleInv, TypeOK
  <1>4. schedule'[s].next \in {schedule[s].next, NextAfter(s, now)}
    BY <1>1 DEF create, pause, resume, archive, ScheduleInv, TypeOK
  <1>5. \A r \in Schedules : LaterNext(r)
    BY <1>3, <1>4, NextMovesOn DEF LaterNext
  <1>6. \A k \in Schedulers : LaterTick(k)
    BY <1>2 DEF LaterTick
  <1> QED
    BY <1>2, <1>5, <1>6, QuietMoves

(* A tick that begins, goes on without dispatching, or is over.            *)
LEMMA TickMoves ==
  ASSUME ScheduleInv, NEW k \in Schedulers,
         \/ startTick(k) \/ NextPhase(k) \/ Crash(k) \/ CloseThrows(k)
         \/ reconcileTimedOutOccurrence(k) \/ PassOver(k)
  PROVE  OrderMoves
  <1>1. UNCHANGED <<now, run, schedule>>
    BY DEF startTick, NextPhase, Crash, CloseThrows,
       reconcileTimedOutOccurrence, PassOver
  <1>2. \A s \in Schedules : LaterNext(s)
    BY <1>1 DEF LaterNext
  <1>3. \A l \in Schedulers : LaterTick(l)
    <2>1. tick \in [Schedulers -> Ticks]
      BY DEF ScheduleInv, TicksTyped
    <2>2. CASE PassOver(k)
      BY <2>2, WorkDoneTyped DEF PassOver, LaterTick, ScheduleInv
    <2>3. CASE startTick(k)
      BY <2>1, <2>3 DEF startTick, LaterTick, Ticks
    <2>4. CASE NextPhase(k)
      <3>1. CASE tick' = [tick EXCEPT ![k] = Idle]
        BY <2>1, <3>1, IdleTyped DEF LaterTick
      <3>2. ASSUME NEW order, NEW next, tick[k].phase # "idle",
                   tick' = [tick EXCEPT ![k].phase = next, ![k].work = order]
            PROVE  \A l \in Schedulers : LaterTick(l)
        BY <2>1, <3>2 DEF LaterTick, Ticks
      <3> QED
        BY <2>4, <3>1, <3>2 DEF NextPhase
    <2>5. CASE Crash(k) \/ CloseThrows(k)
      BY <2>1, <2>5, IdleTyped DEF Crash, CloseThrows, LaterTick, Ticks
    <2>6. CASE reconcileTimedOutOccurrence(k)
      <3>1. PICK left : tick' = [tick EXCEPT ![k].work = left]
        BY <2>6 DEF reconcileTimedOutOccurrence
      <3>2. tick[k].phase # "idle"
        BY <2>6 DEF reconcileTimedOutOccurrence, Working
      <3> QED
        BY <2>1, <3>1, <3>2 DEF LaterTick, Ticks
    <2> QED
      BY <2>2, <2>3, <2>4, <2>5, <2>6
  <1> QED
    BY <1>1, <1>2, <1>3, QuietMoves

(* A step on the head of a work list.                                      *)
LEMMA WorkMoves ==
  ASSUME ScheduleInv, NEW k \in Schedulers, NEW phase \in {"due", "timeout", "terminal"},
         Working(k, phase), WorkDone(k)
  PROVE  /\ \A l \in Schedulers : LaterTick(l)
         /\ tick[k].phase # "idle" /\ tick'[k].now = tick[k].now
  BY WorkDoneTyped DEF ScheduleInv, LaterTick, Working

(* A due occurrence not dispatched.                                        *)
LEMMA SkipMoves ==
  ASSUME ScheduleInv, NEW k \in Schedulers,
         \/ skipMaintenanceOccurrence(k) \/ autoPauseBlockedOccurrence(k)
         \/ PolicyDenied(k)
  PROVE  OrderMoves
  <1> DEFINE s == Subject(k)[1]
  <1>1. Working(k, "due") /\ WorkDone(k) /\ UNCHANGED <<now, run>>
    BY DEF skipMaintenanceOccurrence, autoPauseBlockedOccurrence, PolicyDenied
  <1>2. s \in Schedules
    BY <1>1, SubjectTyped DEF ScheduleInv
  <1>3. \A r \in Schedules : r # s => schedule'[r] = schedule[r]
    BY <1>2 DEF skipMaintenanceOccurrence, autoPauseBlockedOccurrence, PolicyDenied,
       ScheduleInv, TypeOK
  <1>4. schedule'[s].next \in {schedule[s].next, None, NextAfter(s, tick[k].now)}
    BY <1>2 DEF skipMaintenanceOccurrence, autoPauseBlockedOccurrence, PolicyDenied,
       ScheduleInv, TypeOK
  <1> HIDE DEF s
  <1>5. tick[k].phase # "idle" /\ \A l \in Schedulers : LaterTick(l)
    BY <1>1, WorkMoves
  <1>6. \A r \in Schedules : LaterNext(r)
    BY <1>2, <1>3, <1>4, <1>5, NextMovesOn DEF LaterNext
  <1> QED
    BY <1>1, <1>5, <1>6, QuietMoves

(* A dispatch.                                                             *)
LEMMA ProcessMoves ==
  ASSUME ScheduleInv, NEW k \in Schedulers, processOccurrence(k)
  PROVE  OrderMoves
  <1> DEFINE s == Subject(k)[1]
             t == schedule[s].next
  <1>1. /\ Working(k, "due") /\ WorkDone(k) /\ Due(k, s) /\ UNCHANGED now
        /\ run' = [run EXCEPT ![s][t] = "QUEUED"]
    BY DEF processOccurrence
  <1>2. s \in Schedules /\ t \in Instants /\ t <= tick[k].now
    BY <1>1, DueTyped DEF ScheduleInv
  <1>3. /\ \A r \in Schedules : r # s => schedule'[r] = schedule[r]
        /\ schedule'[s].next = NextAfter(s, tick[k].now)
    BY <1>2 DEF processOccurrence, ScheduleInv, TypeOK
  <1>4. \A r \in Schedules : \A u \in Instants :
          ~(r = s /\ u = t) => run'[r][u] = run[r][u]
    BY <1>1, <1>2 DEF ScheduleInv, TypeOK
  <1> HIDE DEF s
  <1>5. /\ tick[k].phase # "idle" /\ \A l \in Schedulers : LaterTick(l)
        /\ tick'[k].now = tick[k].now /\ tick[k].now \in Instants
    BY <1>1, WorkMoves, SubjectTyped DEF ScheduleInv
  <1>6. \A r \in Schedules : LaterNext(r)
    BY <1>2, <1>3, <1>5, NextMovesOn DEF LaterNext
  <1>7. schedule'[s].next # None => schedule'[s].next > tick[k].now
    BY <1>2, <1>3, <1>5, NextAfterIsLater
  <1>8. now <= now' /\ now' \in Instants
    BY <1>1, ScheduleAssumption DEF ScheduleInv, TypeOK, Instants
  <1>9. RunAppears(s, t)
    BY <1>2, <1>5, <1>7 DEF RunAppears
  <1> QED
    BY <1>4, <1>5, <1>6, <1>8, <1>9 DEF OrderMoves

(* A close.                                                                *)
LEMMA CloseMoves ==
  ASSUME ScheduleInv, NEW k \in Schedulers, handleRunCompletion(k)
  PROVE  OrderMoves
  <1> DEFINE s == Subject(k)[1]
             t == Subject(k)[2]
  <1>1. Working(k, "terminal") /\ WorkDone(k) /\ UNCHANGED <<now, run>>
    BY DEF handleRunCompletion
  <1>2. s \in Schedules
    BY <1>1, SubjectTyped DEF ScheduleInv
  <1>3. /\ \A r \in Schedules : r # s => schedule'[r] = schedule[r]
        /\ schedule'[s].next \in {schedule[s].next, NextAfter(s, tick[k].now)}
    <2>1. schedule \in [Schedules -> Rows]
      BY DEF ScheduleInv, TypeOK, Rows
    <2>2. \/ UNCHANGED schedule
          \/ schedule' = [schedule EXCEPT ![s].next = NextAfter(s, tick[k].now)]
          \/ schedule' = [schedule EXCEPT ![s].status = "AUTO_PAUSED", ![s].pausedBy = t]
      BY DEF handleRunCompletion
    <2> HIDE DEF s, t
    <2> QED
      BY <1>2, <2>1, <2>2 DEF Rows
  <1> HIDE DEF s
  <1>4. tick[k].phase # "idle" /\ \A l \in Schedulers : LaterTick(l)
    BY <1>1, WorkMoves
  <1>5. \A r \in Schedules : LaterNext(r)
    BY <1>2, <1>3, <1>4, NextMovesOn DEF LaterNext
  <1> QED
    BY <1>1, <1>4, <1>5, QuietMoves

(* A run claimed or ended, and the clock.                                  *)
LEMMA RunMoves ==
  ASSUME ScheduleInv, RunStep \/ Elapse
  PROVE  OrderMoves
  <1>1. CASE RunStep
    <2>1. UNCHANGED <<now, tick, schedule>>
      BY <1>1 DEF RunStep, ClaimRun, EndRun
    <2>2. PICK r \in Schedules, u \in Instants :
            run[r][u] # "none" /\ \E st : run' = [run EXCEPT ![r][u] = st]
      BY <1>1, ZenonT(60) DEF RunStep, ClaimRun, EndRun
    <2>3. run \in [Schedules ->
                   [Instants -> {"none"} \cup ActiveRuns \cup TerminalRuns]]
      BY DEF ScheduleInv, TypeOK
    <2>4. \A s \in Schedules : \A t \in Instants :
            run[s][t] = "none" => run'[s][t] = "none"
      BY <2>2, <2>3
    <2>5. /\ \A k \in Schedulers : LaterTick(k)
          /\ \A s \in Schedules : LaterNext(s)
      BY <2>1 DEF LaterTick, LaterNext
    <2> QED
      BY <2>1, <2>4, <2>5, QuietMoves
  <1>2. CASE Elapse
    <2>1. now <= now' /\ now' \in Instants
      BY <1>2, ScheduleAssumption DEF Elapse, ScheduleInv, TypeOK, Instants
    <2>2. UNCHANGED <<schedule, run, tick>>
      BY <1>2 DEF Elapse
    <2> QED
      BY <2>1, <2>2 DEF OrderMoves, LaterTick, LaterNext
  <1> QED
    BY <1>1, <1>2

(* Every step moves so.                                                    *)
LEMMA NextOrderMoves ==
  ASSUME ScheduleInv, [Next]_vars
  PROVE  OrderMoves
  <1>1. CASE UNCHANGED vars
    <2>1. /\ \A k \in Schedulers : LaterTick(k)
          /\ \A s \in Schedules : LaterNext(s)
      BY <1>1 DEF vars, LaterTick, LaterNext
    <2> QED
      BY <1>1, <2>1, QuietMoves DEF vars
  <1>2. ASSUME NEW k \in Schedulers, TickStep(k) \/ Crash(k)
        PROVE  OrderMoves
    BY <1>2, TickMoves, SkipMoves, ProcessMoves, CloseMoves DEF TickStep
  <1> QED
    BY <1>1, <1>2, UserMoves, RunMoves DEF Next

(* With one scheduler the order is kept, and seen in every dispatch.       *)
LEMMA OrderStep ==
  ASSUME ScheduleInv, ScheduleInv', OrderInv, OneScheduler, [Next]_vars
  PROVE  OrderInv' /\ DispatchesInOrder
  <1>0. /\ OrderMoves /\ now \in Int /\ now' \in Int
        /\ \A k \in Schedulers : tick[k].now \in Int
        /\ \A k \in Schedulers : tick[k].phase # "idle" => tick[k].now <= now
        /\ \A s \in Schedules : \A t \in Instants :
             run[s][t] # "none" => PassedBy(s, t)
        /\ \A s \in Schedules : schedule[s].next \in Int /\ schedule'[s].next \in Int
    <2>1. Instants \subseteq Int /\ None \in Int
      BY ScheduleAssumption DEF Instants, None
    <2>2. /\ now \in Instants /\ now' \in Instants
          /\ \A k \in Schedulers : tick[k].now \in Instants
          /\ \A s \in Schedules : /\ schedule[s].next \in Instants \cup {None}
                                  /\ schedule'[s].next \in Instants \cup {None}
      BY DEF ScheduleInv, TypeOK, TicksTyped, Ticks
    <2> QED
      BY <2>1, <2>2, NextOrderMoves DEF OrderInv
  <1>1. \A k \in Schedulers : tick'[k].phase # "idle" => tick'[k].now <= now'
    BY <1>0 DEF OrderMoves, LaterTick
  <1>2. ASSUME NEW s \in Schedules, NEW t \in Instants, run'[s][t] # "none"
        PROVE  /\ t <= now'
               /\ \A k \in Schedulers : tick'[k].phase # "idle" => t <= tick'[k].now
               /\ schedule'[s].next # None => t < schedule'[s].next
    <2>0. t \in Int
      BY ScheduleAssumption DEF Instants
    <2>1. CASE run[s][t] # "none"
      <3>1. PassedBy(s, t) /\ LaterNext(s)
        BY <1>0, <2>1 DEF OrderMoves
      <3>2. t <= now'
        BY <1>0, <2>0, <3>1 DEF PassedBy, OrderMoves
      <3>3. \A k \in Schedulers : tick'[k].phase # "idle" => t <= tick'[k].now
        BY <1>0, <2>0, <3>1 DEF PassedBy, OrderMoves, LaterTick
      <3>4. schedule'[s].next # None => t < schedule'[s].next
        BY <1>0, <2>0, <3>1 DEF PassedBy, LaterNext
      <3> QED
        BY <3>2, <3>3, <3>4
    <2>2. CASE run[s][t] = "none"
      <3>1. PICK k \in Schedulers :
              /\ tick[k].phase # "idle" /\ tick'[k].now = tick[k].now /\ t <= tick[k].now
              /\ schedule'[s].next # None => schedule'[s].next > tick[k].now
        BY <1>0, <1>2, <2>2 DEF OrderMoves, RunAppears
      <3>2. t <= now'
        BY <1>0, <2>0, <3>1 DEF OrderMoves
      <3>3. \A l \in Schedulers : l = k
        BY DEF OneScheduler
      <3> QED
        BY <1>0, <2>0, <3>1, <3>2, <3>3
    <2> QED
      BY <2>1, <2>2
  <1>3. DispatchesInOrder
    <2> SUFFICES ASSUME NEW s \in Schedules, NEW t \in Instants, NEW u \in Instants,
                        run[s][t] = "none", run'[s][t] # "none", run[s][u] # "none"
                 PROVE  u < t
      BY DEF DispatchesInOrder
    <2>1. t = schedule[s].next /\ PassedBy(s, u)
      BY <1>0 DEF OrderMoves, RunAppears
    <2>2. t # None
      BY ScheduleAssumption DEF Instants, None
    <2> QED
      BY <2>1, <2>2 DEF PassedBy
  <1>4. OrderInv'
    BY <1>0, <1>1, <1>2 DEF OrderInv, PassedBy
  <1> QED
    BY <1>3, <1>4

-----------------------------------------------------------------------------
(* Theorems                                                                *)

(* Rows, occurrences, runs, alerts and the work lists of every tick keep   *)
(* their kinds, for any number of schedules and schedulers; with them the  *)
(* two invariants below.                                                   *)
THEOREM ScheduleHolds == Spec => []ScheduleInv
  <1>1. Init => ScheduleInv
    BY ScheduleInit
  <1>2. ScheduleInv /\ [Next]_vars => ScheduleInv'
    BY ScheduleStep
  <1> QED
    BY <1>1, <1>2, PTL DEF Spec

(* However many schedulers tick and whatever they remember, a Runner gets  *)
(* one scheduled run at a time (processOccurrence).                        *)
THEOREM OneRunAtATime == Spec => []OneActiveRunPerRunner
  <1>1. ScheduleInv => OneActiveRunPerRunner
    BY DEF ScheduleInv
  <1> QED
    BY <1>1, ScheduleHolds, PTL

(* A schedule the system paused has an open alert that says so, through    *)
(* any pauses, resumptions, archivings and overlapping schedulers          *)
(* (autoPauseBlockedOccurrence, handleRunCompletion, resume).              *)
THEOREM PausesAreAlerted == Spec => []AutoPauseIsAlerted
  <1>1. ScheduleInv => AutoPauseIsAlerted
    BY DEF ScheduleInv
  <1> QED
    BY <1>1, ScheduleHolds, PTL

(* The occurrence of a run of unknown side effect closes only with a pause *)
(* of its schedule (handleRunCompletion).                                  *)
THEOREM AmbiguityPauses == Spec => [][AmbiguousClosePauses]_vars
  <1>1. ScheduleInv /\ [Next]_vars => [AmbiguousClosePauses]_vars
    BY ClosePauses
  <1> QED
    BY <1>1, ScheduleHolds, PTL DEF Spec

(* One scheduler, however often it dies, dispatches the firings of every   *)
(* schedule in their order (processOccurrence); two need not.              *)
THEOREM DispatchedInOrder ==
  ASSUME OneScheduler
  PROVE  Spec => [][DispatchesInOrder]_vars
  <1>1. Init => OrderInv
    BY DEF Init, OrderInv, Idle
  <1>2. ScheduleInv /\ ScheduleInv' /\ OrderInv /\ [Next]_vars => OrderInv'
    BY OrderStep
  <1>3. ScheduleInv /\ ScheduleInv' /\ OrderInv /\ [Next]_vars
          => [DispatchesInOrder]_vars
    BY OrderStep
  <1> QED
    BY <1>1, <1>2, <1>3, ScheduleHolds, PTL DEF Spec
=============================================================================
