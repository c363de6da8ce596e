--------------------------- MODULE RecordingSync ---------------------------
(***************************************************************************)
(* The control plane's side of a recording: a client declares a recording  *)
(* session, sends its events in batches, completes it, and a member turns  *)
(* the completed recording into a workflow draft.                          *)
(*                                                                         *)
(* Every request is a serializable transaction, so each is one step.  The  *)
(* client is any client: it repeats requests whose answers were lost, uses *)
(* a batch identifier again with other events, and sends batches out of    *)
(* order.  A digest is modelled as the value it is computed from.          *)
(***************************************************************************)
EXTENDS Integers, Sequences, FiniteSets, SequencesExt

CONSTANTS
  EventIds,       \* event identifiers a client generates
  Policy,         \* Policy[e]: what the privacy engine decided on e
  BatchIds,       \* client batch identifiers
  MaxEvents,      \* bound: events of a recording
  Converters,     \* members with a role that may convert
  Viewers,        \* members that may not
  ConversionIds,  \* client conversion identifiers
  Names,          \* workflow names
  MaxWorkflows    \* bound: workflows created

ASSUME RecordingAssumption == MaxEvents \in Nat

VARIABLES
  recording,   \* the row of recording_sessions
  rows,        \* recording_events: sequence -> event
  batches,     \* recording_sync_batches: batch identifier -> batch
  accepted,    \* batches the server answered with success
  request,     \* each converter's conversion between its transactions
  conversions, \* recording_workflow_conversions
  workflow     \* names of the workflows created, by number

recordingVars ==
  <<recording, rows, batches, accepted, request, conversions, workflow>>

Workspace == Converters \union Viewers
NoRequest == [stage |-> "idle"]
NoRecording == [status |-> "none"]

RecordingInit ==
  /\ recording = NoRecording
  /\ rows = <<>>
  /\ batches = <<>>
  /\ accepted = {}
  /\ request = [u \in Converters |-> NoRequest]
  /\ conversions = {}
  /\ workflow = <<>>
-----------------------------------------------------------------------------
\* createRecordingPrivacySummary: how many events there are of each policy.
createRecordingPrivacySummary(events) ==
  [p \in {"allow", "mask", "block"} |->
     Cardinality({i \in DOMAIN events : Policy[events[i]] = p})]

PrivacySummaries ==
  [{"allow", "mask", "block"} -> 0..MaxEvents]

\* RecordingPrivacySummarySchema: the counts add up to the total.
SummaryTotal(summary) == summary.allow + summary.mask + summary.block

\* validateDeclaredRecordingMetadata: what a create request may declare.
validateDeclaredRecordingMetadata(m) ==
  m.lastSequence = m.eventCount /\ SummaryTotal(m.privacySummary) = m.eventCount

Declarations ==
  {m \in [createdBy : Workspace, eventCount : 0..MaxEvents,
          lastSequence : 0..MaxEvents, privacySummary : PrivacySummaries] :
     validateDeclaredRecordingMetadata(m)}

\* RecordingEventBatchSchema: a contiguous run of distinct events.
RecordingEventBatches ==
  {b \in [clientBatchId : BatchIds, firstSequence : 1..MaxEvents,
          events : SeqOf(EventIds, MaxEvents)] :
     b.events # <<>> /\ IsInjective(b.events)}

LastSequence(b) == b.firstSequence + Len(b.events) - 1
EventsOf(b) == [i \in b.firstSequence..LastSequence(b) |->
                  b.events[i - b.firstSequence + 1]]

\* createSession: the declaration is stored once.  A repeat with the same
\* declaration is answered with the stored row, another one with a conflict.
createSession ==
  /\ recording = NoRecording
  /\ \E m \in Declarations :
       recording' = [status |-> "receiving", declared |-> m,
                   receivedEventCount |-> 0,
                   receivedMinSequence |-> 0, receivedMaxSequence |-> 0]
  /\ UNCHANGED <<rows, batches, accepted, request, conversions, workflow>>

\* ingestBatch of a known identifier: the same batch is answered as before,
\* with nothing stored, and other contents are a conflict.
KnownBatch(b) ==
  b.clientBatchId \in DOMAIN batches /\ batches[b.clientBatchId] = b

repeatBatch(b) ==
  /\ recording # NoRecording /\ KnownBatch(b)
  /\ accepted' = accepted \union {b}
  /\ UNCHANGED <<recording, rows, batches, request, conversions, workflow>>

\* A sequence or an event identifier that is already stored.
Collides(b) ==
  \/ DOMAIN EventsOf(b) \intersect DOMAIN rows # {}
  \/ Range(b.events) \intersect Range(rows) # {}

Acceptable(b) ==
  /\ recording.status # "completed"
  /\ LastSequence(b) <= recording.declared.lastSequence
  /\ recording.declared.eventCount # 0
  /\ ~Collides(b)
  /\ recording.receivedEventCount + Len(b.events)
       <= recording.declared.eventCount

\* ingestBatch of a new identifier: the events, the batch and the counters
\* of the session are written together.
ingestBatch(b) ==
  /\ recording # NoRecording /\ b.clientBatchId \notin DOMAIN batches
  /\ Acceptable(b)
  /\ rows' = [i \in DOMAIN EventsOf(b) \union DOMAIN rows |->
                IF i \in DOMAIN rows THEN rows[i] ELSE EventsOf(b)[i]]
  /\ batches' = [id \in DOMAIN batches \union {b.clientBatchId} |->
                   IF id \in DOMAIN batches THEN batches[id] ELSE b]
  /\ recording' = [recording EXCEPT
       !.receivedEventCount = @ + Len(b.events),
       !.receivedMinSequence = IF @ = 0 \/ b.firstSequence < @
                               THEN b.firstSequence ELSE @,
       !.receivedMaxSequence = IF LastSequence(b) > @
                               THEN LastSequence(b) ELSE @]
  /\ accepted' = accepted \union {b}
  /\ UNCHANGED <<request, conversions, workflow>>

\* reconstructValidatedArtifact with RecordingArtifactSchema: the events in
\* sequence order are contiguous from one, distinct, as many as declared,
\* and have the declared privacy summary.
ValidatedArtifact ==
  /\ DOMAIN rows = 1..recording.declared.eventCount
  /\ \A i, j \in DOMAIN rows : rows[i] = rows[j] => i = j
  /\ createRecordingPrivacySummary(rows) = recording.declared.privacySummary

\* completeSession: the declaration must be the stored one; a repeat is
\* answered as before, the first one needs the whole recording.
hasMatchingCompletion(m) ==
  /\ recording.declared.eventCount = m.eventCount
  /\ recording.declared.lastSequence = m.lastSequence
  /\ recording.declared.privacySummary = m.privacySummary

\* Mutant: only the number of events is compared on completion.
CountsOnly == recording.receivedEventCount = recording.declared.eventCount

WholeArtifact == ValidatedArtifact

completeSession ==
  /\ recording.status = "receiving" /\ WholeArtifact
  /\ \E m \in Declarations : hasMatchingCompletion(m)
  /\ recording' = [recording EXCEPT
       !.status = "completed",
       !.receivedEventCount = Cardinality(DOMAIN rows),
       !.receivedMinSequence = IF rows = <<>> THEN 0 ELSE 1,
       !.receivedMaxSequence = Cardinality(DOMAIN rows)]
  /\ UNCHANGED <<rows, batches, accepted, request, conversions, workflow>>
-----------------------------------------------------------------------------
\* getCompletedArtifactForConversion, the first transaction of a conversion;
\* convertRecordingArtifact then works on the events it returned.
CompletedArtifact ==
  recording # NoRecording /\ recording.status = "completed" /\ ValidatedArtifact

beginConversion(u, k, name) ==
  /\ request[u] = NoRequest
  /\ CompletedArtifact
  /\ request' = [request EXCEPT ![u] =
       [stage |-> "converted", key |-> k, name |-> name, source |-> rows,
        count |-> recording.declared.eventCount]]
  /\ UNCHANGED
       <<recording, rows, batches, accepted, conversions, workflow>>

ExistingConversion(k) == {c \in conversions : c.key = k}

\* createDraft: the workflow, its first version and the conversion are
\* created together, unless the identifier already has a conversion.  Then
\* a request with the draft's present name is answered with it, and any
\* other is a conflict.
createDraft(u) ==
  LET r == request[u] IN
  /\ r.stage = "converted"
  /\ request' = [request EXCEPT ![u] = NoRequest]
  /\ IF /\ recording.status = "completed"
        /\ r.count = recording.declared.eventCount
        /\ ExistingConversion(r.key) = {}
     THEN /\ Len(workflow) < MaxWorkflows
          /\ workflow' = Append(workflow, r.name)
          /\ conversions' = conversions \union
               {[key |-> r.key, workflow |-> Len(workflow) + 1,
                 source |-> r.source]}
     ELSE UNCHANGED <<conversions, workflow>>
  /\ UNCHANGED <<recording, rows, batches, accepted>>

\* The draft of a conversion is edited: its name changes.
editDraft(w, name) ==
  /\ w \in DOMAIN workflow /\ workflow[w] # name
  /\ workflow' = [workflow EXCEPT ![w] = name]
  /\ UNCHANGED <<recording, rows, batches, accepted, request, conversions>>

RecordingNext ==
  \/ createSession
  \/ completeSession
  \/ \E b \in RecordingEventBatches : repeatBatch(b) \/ ingestBatch(b)
  \/ \E u \in Converters :
       \/ createDraft(u)
       \/ \E k \in ConversionIds, n \in Names : beginConversion(u, k, n)
  \/ \E w \in DOMAIN workflow, n \in Names : editDraft(w, n)

RecordingSpec == RecordingInit /\ [][RecordingNext]_recordingVars
-----------------------------------------------------------------------------
RecordingTypeOK ==
  /\ recording.status \in {"none", "receiving", "completed"}
  /\ DOMAIN rows \subseteq 1..MaxEvents /\ Range(rows) \subseteq EventIds
  /\ DOMAIN batches \subseteq BatchIds
  /\ \A b \in accepted : b.clientBatchId \in BatchIds
  /\ Len(workflow) \in 0..MaxWorkflows

\* A completed recording holds exactly the events its declaration promised:
\* contiguous, none twice, with the declared privacy summary, and the
\* counters of the session agree with the rows, whatever batches were
\* repeated, reordered or refused.
CompletedIsWhole ==
  recording # NoRecording =>
    /\ recording.receivedEventCount = Cardinality(DOMAIN rows)
    /\ recording.status = "completed" =>
         /\ DOMAIN rows = 1..recording.declared.lastSequence
         /\ Cardinality(Range(rows)) = recording.declared.eventCount
         /\ createRecordingPrivacySummary(rows)
              = recording.declared.privacySummary

\* A batch that was ever answered with success is stored, event by event,
\* and stays stored: a client may forget it.
AcceptedIsStored ==
  \A b \in accepted : \A i \in DOMAIN EventsOf(b) :
    i \in DOMAIN rows /\ rows[i] = EventsOf(b)[i]

\* However often a conversion request is repeated, by however many members
\* at once, one client conversion identifier makes one workflow, and no
\* workflow is made without its conversion.
OneDraftPerRequest ==
  /\ \A c, d \in conversions : c.key = d.key => c = d
  /\ {c.workflow : c \in conversions} = DOMAIN workflow

\* The draft was converted from the recording as it is stored, though the
\* conversion ran between two transactions.
DraftTellsTheRecording ==
  \A c \in conversions : c.source = rows /\ recording.status = "completed"

\* A recording from its declaration to the drafts made of it (createSession,
\* ingestBatch, completeSession, createDraft).
RecordingIsKept ==
  /\ CompletedIsWhole /\ AcceptedIsStored
  /\ OneDraftPerRequest /\ DraftTellsTheRecording
=============================================================================
