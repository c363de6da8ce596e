-------------------------- MODULE RecorderSession --------------------------
(***************************************************************************)
(* The recorder of the browser extension: the service worker with its two  *)
(* independent queues (popup commands and recorded events), the content    *)
(* script of the recorded page, the session storage that outlives the      *)
(* worker, and the local archive with its outbox.                          *)
(*                                                                         *)
(* Every await of the worker is a step boundary, so that a command and an  *)
(* event interleave between a read of the storage and the write that       *)
(* follows it.  The browser may stop the worker between any two steps: the *)
(* queues and the open answers are lost, the storage is not.               *)
(***************************************************************************)
EXTENDS Integers, Sequences, FiniteSets, SequencesExt

CONSTANTS
  MaxSessions,  \* bound: recordings started
  MaxEvents,    \* bound: events captured
  MAX_RECORDING_EVENTS,  \* events of one timeline
  MaxStops,     \* bound: times the browser stops the worker
  MaxFailures   \* bound: storage and messaging failures

VARIABLES
  state,     \* tasktwin.recorder.session: status and session number
  timeline,  \* tasktwin.recorder.timeline: session and events
  archived,  \* archived artifacts: session -> events
  outbox,    \* sessions with an outbox entry
  command,   \* the command the worker executes
  handling,  \* the event the worker handles
  inbox,     \* events waiting in the worker's event queue
  page,      \* the content script
  acked,     \* <<session, event>> the content script got success for
  stopped,   \* sessions whose stop completed
  session,   \* the last session number
  event,     \* the last event number
  faults     \* how often the worker was stopped, and what failed

vars == <<state, timeline, archived, outbox, command, handling, inbox, page,
          acked, stopped, session, event, faults>>

Idle == [pc |-> "idle"]
NoScript == [alive |-> FALSE, status |-> "idle", session |-> 0,
             capturing |-> FALSE, pending |-> <<>>, flight |-> {},
             flushing |-> FALSE, flushed |-> TRUE]
createInitialRecordingState == [status |-> "idle", session |-> 0]

Init ==
  /\ state = createInitialRecordingState
  /\ timeline = [session |-> 0, events |-> <<>>]
  /\ archived = <<>>
  /\ outbox = {}
  /\ command = Idle
  /\ handling = Idle
  /\ inbox = <<>>
  /\ page = NoScript
  /\ acked = {}
  /\ stopped = {}
  /\ session = 0
  /\ event = 0
  /\ faults = [stops |-> 0, failures |-> 0]

MayFail == faults.failures < MaxFailures
failing == faults' = [faults EXCEPT !.failures = @ + 1]
-----------------------------------------------------------------------------
(* The content script.                                                     *)

Submit(p, events) ==
  [p EXCEPT !.flight = @ \union Range(events), !.pending = <<>>]

\* The user clicks, or changes a control: the event is sent at once.
handleChange ==
  /\ page.capturing /\ event < MaxEvents
  /\ event' = event + 1
  /\ page' = [page EXCEPT !.flight = @ \union {event + 1}]
  /\ inbox' = Append(inbox, event + 1)
  /\ UNCHANGED <<state, timeline, archived, outbox, command, handling, acked,
                 stopped, session, faults>>

\* The user types: the event waits for the debounce timer or the blur.
handleInput ==
  /\ page.capturing /\ event < MaxEvents
  /\ event' = event + 1
  /\ page' = [page EXCEPT !.pending = <<event + 1>>]
  /\ UNCHANGED <<state, timeline, archived, outbox, command, handling, inbox,
                 acked, stopped, session, faults>>

\* The timer fires, or the field loses the focus.
flushInput ==
  /\ page.pending # <<>> /\ ~page.flushing
  /\ page' = Submit(page, page.pending)
  /\ inbox' = inbox \o page.pending
  /\ UNCHANGED <<state, timeline, archived, outbox, command, handling, acked,
                 stopped, session, event, faults>>

\* The user leaves the page: its content script is gone with all it held.
navigate ==
  /\ page.alive /\ MayFail /\ failing
  /\ page' = NoScript
  /\ UNCHANGED <<state, timeline, archived, outbox, command, handling, inbox,
                 acked, stopped, session, event>>

\* ContentScriptController.handle of a state notification.
Notified(p, s) ==
  IF ~p.alive THEN p
  ELSE [p EXCEPT !.capturing = s.status = "recording",
                 !.pending = IF s.status = "recording" THEN @ ELSE <<>>,
                 !.status = s.status, !.session = s.session]
-----------------------------------------------------------------------------
(* The event queue of the worker: RecordingEventController.handle.         *)

\* The content script is told that its event e was not recorded.
Rejected(e) == [page EXCEPT !.flight = @ \ {e},
                            !.flushed = @ /\ e \notin page.flight]

\* The state is read; unless it is recording the event is rejected.
takeEvent ==
  /\ handling = Idle /\ inbox # <<>>
  /\ inbox' = Tail(inbox)
  /\ IF state.status = "recording"
     THEN /\ handling' = [pc |-> "read", event |-> Head(inbox), state |-> state]
          /\ UNCHANGED page
     ELSE page' = Rejected(Head(inbox)) /\ UNCHANGED handling
  /\ UNCHANGED <<state, timeline, archived, outbox, command, acked, stopped,
                 session, event, faults>>

\* The timeline is read: it must be the session's, with room for the event.
readTimeline ==
  /\ handling.pc = "read"
  /\ handling' =
       [handling EXCEPT !.pc =
          IF /\ timeline.session = handling.state.session
             /\ Len(timeline.events) < MAX_RECORDING_EVENTS
          THEN "append" ELSE "fail"] @@ [timeline |-> timeline]
  /\ UNCHANGED <<state, timeline, archived, outbox, command, inbox, page,
                 acked, stopped, session, event, faults>>

\* The timeline with the event is saved and the event acknowledged.
appendRecordingEvent ==
  /\ handling.pc = "append"
  /\ timeline' = [handling.timeline EXCEPT
                    !.events = Append(@, handling.event)]
  /\ acked' = IF handling.event \in page.flight
              THEN acked \union {<<handling.state.session, handling.event>>}
              ELSE acked
  /\ page' = [page EXCEPT !.flight = @ \ {handling.event}]
  /\ handling' = Idle
  /\ UNCHANGED <<state, archived, outbox, command, inbox, stopped, session,
                 event, faults>>

\* The state cannot be read, or the error state not be saved: the event is
\* rejected and the recording goes on as if it had not been captured.
eventUnread ==
  /\ handling = Idle /\ inbox # <<>> /\ MayFail /\ failing
  /\ inbox' = Tail(inbox)
  /\ page' = Rejected(Head(inbox))
  /\ UNCHANGED <<state, timeline, archived, outbox, command, handling, acked,
                 stopped, session, event>>

errorUnsaved ==
  /\ handling.pc = "fail" /\ MayFail /\ failing
  /\ page' = Rejected(handling.event)
  /\ handling' = Idle
  /\ UNCHANGED <<state, timeline, archived, outbox, command, inbox, acked,
                 stopped, session, event>>

\* The timeline cannot be read or saved.
timelineFails ==
  /\ handling.pc \in {"read", "append"} /\ MayFail /\ failing
  /\ handling' = [handling EXCEPT !.pc = "fail"]
  /\ UNCHANGED <<state, timeline, archived, outbox, command, inbox, page,
                 acked, stopped, session, event>>

\* failActiveRecording: the state read at the start becomes the error state,
\* the event is rejected, and the page is told the state.
failActiveRecording ==
  /\ handling.pc = "fail"
  /\ state' = [handling.state EXCEPT !.status = "error"]
  /\ page' = Notified(Rejected(handling.event), state')
  /\ handling' = Idle
  /\ UNCHANGED <<timeline, archived, outbox, command, inbox, acked, stopped,
                 session, event, faults>>
-----------------------------------------------------------------------------
(* The command queue of the worker: RecorderController.                    *)

\* transitionRecordingState: the next state, or "invalid".
transition(s, e) ==
  CASE e = "start" /\ s.status = "idle" ->
         [status |-> "starting", session |-> session + 1]
    [] e = "complete-start" /\ s.status = "starting" ->
         [s EXCEPT !.status = "recording"]
    [] e = "pause" /\ s.status = "recording" -> [s EXCEPT !.status = "paused"]
    [] e = "resume" /\ s.status = "paused" ->
         [s EXCEPT !.status = "recording"]
    [] e = "stop" /\ s.status \in {"recording", "paused"} ->
         [s EXCEPT !.status = "stopping"]
    [] e = "complete-stop" /\ s.status = "stopping" ->
         createInitialRecordingState
    [] e = "reset" /\ s.status = "error" -> createInitialRecordingState
    [] e = "fail" /\ s.status \notin {"idle", "error"} ->
         [s EXCEPT !.status = "error"]
    [] OTHER -> [status |-> "invalid", session |-> 0]

Cmd(op, pc, s) == [op |-> op, pc |-> pc, state |-> s]

\* Where a command goes once its state is loaded.
FirstStep(op) ==
  CASE op = "get-state" -> "done"
    [] op \in {"pause", "stop"} -> "flush"
    [] OTHER -> "persist"

\* loadState: an interrupted start has failed, an interrupted stop is
\* finished before anything else.
loadState(op) ==
  command' = CASE state.status = "stopping" -> Cmd(op, "finalize", state)
               [] state.status = "starting" -> Cmd(op, "failStart", state)
               [] OTHER -> Cmd(op, FirstStep(op), state)

begin(op) ==
  /\ command = Idle
  /\ op = "start" => session < MaxSessions
  /\ loadState(op)
  /\ UNCHANGED <<state, timeline, archived, outbox, handling, inbox, page,
                 acked, stopped, session, event, faults>>

Go(pc, s) == command' = IF pc = "done" THEN Idle
                        ELSE Cmd(command.op, pc, s)

failInterruptedStart ==
  /\ command.pc = "failStart"
  /\ state' = transition(command.state, "fail")
  /\ Go(FirstStep(command.op), state')
  /\ UNCHANGED <<timeline, archived, outbox, handling, inbox, page, acked,
                 stopped, session, event, faults>>

\* flushBeforeTransition asks the content script for its pending events;
\* suspendAndFlush detaches the listeners first.
flushPending ==
  /\ command.pc = "flush"
  /\ IF command.state.session = 0 THEN
       Go("done", command.state) /\ UNCHANGED <<page, inbox>>
     ELSE IF /\ page.alive /\ page.session = command.state.session
             /\ page.status \in {"recording", "paused"}
     THEN /\ page' = [Submit(page, page.pending) EXCEPT !.capturing = FALSE,
                        !.flushing = TRUE, !.flushed = TRUE]
          /\ inbox' = inbox \o page.pending
          /\ Go("flushing", command.state)
     ELSE Go("reload", [command.state EXCEPT !.session = 0])
          /\ UNCHANGED <<page, inbox>>
  /\ UNCHANGED <<state, timeline, archived, outbox, handling, acked, stopped,
                 session, event, faults>>

\* Mutant: the stop does not wait for the events in flight.
FlushUnawaited == TRUE

\* The content script answers when no event is in flight any more, or the
\* page is gone.
FlushDone == ~page.alive \/ page.flight = {}
flushAnswer ==
  /\ command.pc = "flushing" /\ FlushDone
  /\ page' = [page EXCEPT !.flushing = FALSE]
  /\ Go("reload", IF page.alive /\ page.flushing /\ page.flushed
                  THEN command.state ELSE [command.state EXCEPT !.session = 0])
  /\ UNCHANGED <<state, timeline, archived, outbox, handling, inbox, acked,
                 stopped, session, event, faults>>

\* The state is loaded again: an error ends the command, a failed flush
\* fails the recording.
reload ==
  /\ command.pc = "reload"
  /\ IF state.status = "error" THEN Go("done", state)
     ELSE IF command.state.session = 0 THEN Go("fail", state)
     ELSE Go("persist", state)
  /\ UNCHANGED <<state, timeline, archived, outbox, handling, inbox, page,
                 acked, stopped, session, event, faults>>

AfterPersist(op) == IF op = "start" THEN "timeline" ELSE "notify"

\* persistTransition of the command itself.
persist ==
  LET next == transition(command.state, command.op) IN
  /\ command.pc = "persist"
  /\ IF next.status = "invalid"
     THEN Go("done", next) /\ UNCHANGED <<state, session>>
     ELSE /\ state' = next
          /\ session' = IF command.op = "start" THEN session + 1 ELSE session
          /\ Go(AfterPersist(command.op), next)
  /\ UNCHANGED <<timeline, archived, outbox, handling, inbox, page, acked,
                 stopped, event, faults>>

\* failOperation.
failOperation ==
  LET next == transition(command.state, "fail") IN
  /\ command.pc = "fail"
  /\ state' = IF next.status = "invalid" THEN state ELSE next
  /\ Go("done", next)
  /\ UNCHANGED <<timeline, archived, outbox, handling, inbox, page, acked,
                 stopped, session, event, faults>>

\* start: the timeline is created, the content script injected.
createRecordingTimeline ==
  /\ command.pc = "timeline"
  /\ timeline' = [session |-> command.state.session, events |-> <<>>]
  /\ Go("prepare", command.state)
  /\ UNCHANGED <<state, archived, outbox, handling, inbox, page, acked,
                 stopped, session, event, faults>>

prepare ==
  /\ command.pc = "prepare"
  /\ page' = [page EXCEPT !.alive = TRUE]
  /\ Go("completeStart", command.state)
  /\ UNCHANGED <<state, timeline, archived, outbox, handling, inbox, acked,
                 stopped, session, event, faults>>

completeStart ==
  /\ command.pc = "completeStart"
  /\ state' = transition(command.state, "complete-start")
  /\ Go("notify", state')
  /\ UNCHANGED <<timeline, archived, outbox, handling, inbox, page, acked,
                 stopped, session, event, faults>>

\* notifyState: a page that does not answer fails the recording, except
\* after a reset, which has no session any more.
notifyState ==
  /\ command.pc = "notify"
  /\ page' = Notified(page, command.state)
  /\ Go(IF command.op = "reset" THEN "done"
        ELSE IF ~page.alive THEN "fail"
        ELSE IF command.op = "stop" THEN "finalize" ELSE "done",
        command.state)
  /\ UNCHANGED <<state, timeline, archived, outbox, handling, inbox, acked,
                 stopped, session, event, faults>>

\* LocalRecordingArtifactFinalizer with archive.finalize: the timeline must
\* be the session's, and an artifact archived before must be the same.
finalize ==
  LET s == command.state.session IN
  /\ command.pc = "finalize"
  /\ IF /\ timeline.session = s
        /\ s \in DOMAIN archived => archived[s] = timeline.events
     THEN /\ archived' = (s :> timeline.events) @@ archived
          /\ Go("outbox", command.state)
     ELSE UNCHANGED archived /\ Go("fail", command.state)
  /\ UNCHANGED <<state, timeline, outbox, handling, inbox, page, acked,
                 stopped, session, event, faults>>

ensureOutboxEntry ==
  /\ command.pc = "outbox"
  /\ outbox' = outbox \union {command.state.session}
  /\ Go("completeStop", command.state)
  /\ UNCHANGED <<state, timeline, archived, handling, inbox, page, acked,
                 stopped, session, event, faults>>

\* complete-stop of a stop, or of the recovery before another command.
completeStop ==
  /\ command.pc = "completeStop"
  /\ state' = createInitialRecordingState
  /\ stopped' = stopped \union {command.state.session}
  /\ page' = Notified(page, state')
  /\ Go(IF command.op = "stop" THEN "done" ELSE FirstStep(command.op), state')
  /\ UNCHANGED <<timeline, archived, outbox, handling, inbox, acked, session,
                 event, faults>>

\* A write or a message of the command fails.
stepFails ==
  /\ MayFail /\ failing
  /\ \/ /\ command.pc \in {"persist", "failStart", "fail", "completeStart",
                           "completeStop"}
        /\ command' = Idle
     \/ /\ command.pc \in {"timeline", "prepare", "notify", "finalize",
                           "outbox"}
        /\ command.op # "reset"
        /\ Go("fail", command.state)
  /\ UNCHANGED <<state, timeline, archived, outbox, handling, inbox, page,
                 acked, stopped, session, event>>

\* The browser stops the worker.
stopWorker ==
  /\ faults.stops < MaxStops
  /\ command # Idle \/ handling # Idle \/ inbox # <<>>
  /\ faults' = [faults EXCEPT !.stops = @ + 1]
  /\ command' = Idle /\ handling' = Idle /\ inbox' = <<>>
  /\ page' = [page EXCEPT !.flight = {}, !.flushing = FALSE]
  /\ UNCHANGED <<state, timeline, archived, outbox, acked, stopped, session,
                 event>>

Ops == {"start", "pause", "resume", "stop", "reset", "get-state"}

Next ==
  \/ handleChange \/ handleInput \/ flushInput \/ navigate
  \/ takeEvent \/ eventUnread \/ readTimeline \/ appendRecordingEvent
  \/ timelineFails \/ failActiveRecording \/ errorUnsaved
  \/ \E op \in Ops : begin(op)
  \/ failInterruptedStart \/ flushPending \/ flushAnswer \/ reload \/ persist
  \/ failOperation \/ createRecordingTimeline \/ prepare \/ completeStart
  \/ notifyState \/ finalize \/ ensureOutboxEntry \/ completeStop
  \/ stepFails \/ stopWorker

Spec == Init /\ [][Next]_vars
-----------------------------------------------------------------------------
TypeOK ==
  /\ state.status \in {"idle", "starting", "recording", "paused",
                       "stopping", "error"}
  /\ timeline.session \in 0..MaxSessions
  /\ DOMAIN archived \subseteq 1..MaxSessions
  /\ outbox \subseteq DOMAIN archived
  /\ page.flight \subseteq 1..MaxEvents
  /\ Len(inbox) <= MaxEvents

\* A stop that completed, also one a later command finished after the
\* worker was stopped, left an archived artifact in the outbox that holds
\* every event the page was told is recorded.
StoppedMeansArchived ==
  \A s \in stopped :
    /\ s \in DOMAIN archived /\ s \in outbox
    /\ \A e \in 1..MaxEvents :
         <<s, e>> \in acked => e \in Range(archived[s])

\* Stopping the worker never costs a recording: as long as no write, message
\* or page was lost, a recording with acknowledged events ends in the error
\* state only at the event limit.
RestartKeepsTheRecording ==
  /\ faults.failures = 0 /\ state.status = "error"
  /\ \E e \in 1..MaxEvents : <<state.session, e>> \in acked
  => Len(timeline.events) = MAX_RECORDING_EVENTS
=============================================================================
