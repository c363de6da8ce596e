----------------------------- MODULE AuditTrail -----------------------------
(***************************************************************************)
(* The hash-chained audit trail of one workspace: the appender that every  *)
(* domain transaction calls, the verification an administrator asks for,   *)
(* the verdict the dashboard shows, and the verifier of a restored         *)
(* database.                                                               *)
(*                                                                         *)
(* A hash is modelled as the sequence of everything it covers, so two      *)
(* hashes are equal exactly when their inputs are.  Damage to the stored   *)
(* rows (a changed payload, a lost row) is what the chain is there to      *)
(* show.  A verification reads the head, then the rows, then records its   *)
(* verdict, in three transactions: events are appended in between.         *)
(***************************************************************************)
EXTENDS Integers, Sequences, FiniteSets, FiniteSetsExt

CONSTANTS
  Writers,       \* domain transactions that append an event
  Sources,       \* source identifiers
  Payloads,      \* event payloads
  Verifiers,     \* administrators
  FromSequences, \* values of fromSequence a request carries, 0 for none
  ToSequences,   \* values of toSequence, 0 for none
  SampleLimits,  \* values of sampleLimit, 100 unless the request says less
  BATCH,         \* AUDIT_BATCH_SIZE of the restore verifier
  MaxChain       \* bound: events of the chain

ASSUME TrailAssumption ==
  /\ MaxChain \in Nat /\ BATCH \in Nat \ {0}
  /\ FromSequences \subseteq Nat /\ ToSequences \subseteq Nat
  /\ SampleLimits \subseteq Nat \ {0}
  /\ "none" \notin Writers /\ "changed" \notin Payloads

VARIABLES
  chain,     \* workspace_audit_events, in sequence order
  head,      \* workspace_audit_chain_heads
  locked,    \* the writer that holds the row lock of the head, or "none"
  writer,    \* each writer's transaction
  verifier,  \* each administrator's verification
  verdict,   \* workspace_audit_verification_states
  alarms,    \* audit_integrity_failed alerts
  damaged    \* whether a stored row was changed or lost

trailVars ==
  <<chain, head, locked, writer, verifier, verdict, alarms, damaged>>

GENESIS_PREVIOUS_HASH == <<>>
createAuditPayloadDigest(payload) == <<"sha256", payload>>
createAuditEventHash(e) ==
  Append(e.previousHash, <<e.sequence, e.sourceId, e.payloadDigest>>)

NoTransaction == [stage |-> "idle"]
NoVerdict == [valid |-> FALSE, known |-> FALSE, last |-> 0, count |-> 0,
              clean |-> TRUE]

TrailInit ==
  /\ chain = <<>>
  /\ head = [lastSequence |-> 0, lastEventHash |-> GENESIS_PREVIOUS_HASH]
  /\ locked = "none"
  /\ writer = [w \in Writers |-> NoTransaction]
  /\ verifier = [v \in Verifiers |-> NoTransaction]
  /\ verdict = NoVerdict
  /\ alarms = {}
  /\ damaged = FALSE
-----------------------------------------------------------------------------
LockFree == locked = "none"

\* lockChainHead: the appender takes the row lock of the head and reads it.
lockChainHead(w, s, p) ==
  /\ writer[w] = NoTransaction /\ LockFree /\ head.lastSequence < MaxChain
  /\ locked' = w
  /\ writer' = [writer EXCEPT ![w] =
       [stage |-> "locked", source |-> s, payload |-> p, head |-> head]]
  /\ UNCHANGED <<chain, head, verifier, verdict, alarms, damaged>>

findEventBySourceId(s) == {i \in DOMAIN chain : chain[i].sourceId = s}

nextEvent(t) ==
  LET e == [sequence |-> t.head.lastSequence + 1, sourceId |-> t.source,
            payload |-> t.payload,
            payloadDigest |-> createAuditPayloadDigest(t.payload),
            previousHash |-> IF t.head.lastSequence = 0
                             THEN GENESIS_PREVIOUS_HASH
                             ELSE t.head.lastEventHash]
  IN [sequence |-> e.sequence, sourceId |-> e.sourceId,
      payload |-> e.payload, payloadDigest |-> e.payloadDigest,
      previousHash |-> e.previousHash, eventHash |-> createAuditEventHash(e)]

\* The rest of appendAuditEvent: a known source is not appended again (with
\* another payload the whole transaction fails), otherwise the event is
\* inserted and the head moved.  The lock goes with the transaction.
appendAuditEvent(w) ==
  /\ writer[w].stage = "locked"
  /\ locked' = "none"
  /\ writer' = [writer EXCEPT ![w] = NoTransaction]
  /\ IF findEventBySourceId(writer[w].source) # {}
     THEN UNCHANGED <<chain, head>>
     ELSE LET e == nextEvent(writer[w])
          IN /\ chain' = Append(chain, e)
             /\ head' = [lastSequence |-> e.sequence,
                         lastEventHash |-> e.eventHash]
  /\ UNCHANGED <<verifier, verdict, alarms, damaged>>

\* A stored payload changes outside the appender.
changePayload(i) ==
  /\ chain' = [chain EXCEPT ![i].payload = "changed"]
  /\ damaged' = TRUE
  /\ UNCHANGED <<head, locked, writer, verifier, verdict, alarms>>

\* A stored row is lost.
loseRow(i) ==
  /\ chain' = SubSeq(chain, 1, i - 1) \o SubSeq(chain, i + 1, Len(chain))
  /\ damaged' = TRUE
  /\ UNCHANGED <<head, locked, writer, verifier, verdict, alarms>>
-----------------------------------------------------------------------------
\* readRangeForVerification: the stored rows of the range in sequence order,
\* at most limit of them.
FirstSequence(from) == IF from = 0 THEN 1 ELSE from
Skipped(from) == {i \in DOMAIN chain : chain[i].sequence < FirstSequence(from)}
InRange(from, to) ==
  {i \in DOMAIN chain : /\ chain[i].sequence >= FirstSequence(from)
                        /\ to = 0 \/ chain[i].sequence <= to}

readRange(from, to, limit) ==
  LET found == Cardinality(InRange(from, to))
      taken == IF found < limit THEN found ELSE limit
  IN [k \in 1..taken |-> chain[Cardinality(Skipped(from)) + k]]

\* What the event at place i of the rows read should start from.
PreviousIn(events, i, previous) ==
  IF i = 1 THEN previous ELSE events[i - 1].eventHash

\* Mutant: the payload is not compared with its digest.
LinksOnly(events, i, first, previous) ==
  LET e == events[i] IN
  IF e.sequence # first + i - 1 THEN "SEQUENCE_GAP"
  ELSE IF e.previousHash # PreviousIn(events, i, previous)
    THEN "PREVIOUS_HASH_MISMATCH"
  ELSE IF createAuditEventHash(e) # e.eventHash THEN "EVENT_HASH_MISMATCH"
  ELSE "ok"

\* The first check an event fails, or "ok".
FailureOf(events, i, first, previous) ==
  LET e == events[i] IN
  IF e.sequence # first + i - 1 THEN "SEQUENCE_GAP"
  ELSE IF e.previousHash # PreviousIn(events, i, previous)
    THEN "PREVIOUS_HASH_MISMATCH"
  ELSE IF createAuditPayloadDigest(e.payload) # e.payloadDigest
    THEN "PAYLOAD_DIGEST_MISMATCH"
  ELSE IF createAuditEventHash(e) # e.eventHash THEN "EVENT_HASH_MISMATCH"
  ELSE "ok"

\* The loop of verifyAuditEventChain, which stops at the first failing event;
\* with requireHeadMatch unset this is all of it.
verifyEvents(events, first, previous) ==
  LET bad == {i \in DOMAIN events :
                FailureOf(events, i, first, previous) # "ok"}
      i == Min(bad)
  IN IF bad # {}
     THEN [code |-> FailureOf(events, i, first, previous), checked |-> i - 1,
           last |-> IF i = 1 THEN 0 ELSE first + i - 2]
     ELSE [code |-> "ok", checked |-> Len(events),
           last |-> IF events = <<>> THEN 0 ELSE events[Len(events)].sequence]

LastHash(events, previous) ==
  IF events = <<>> THEN previous ELSE events[Len(events)].eventHash

\* verifyAuditEventChain: the head is compared when every event passed.
verifyAuditEventChain(events, first, previous, headHash) ==
  LET r == verifyEvents(events, first, previous)
  IN [r EXCEPT !.code = IF @ = "ok" /\ LastHash(events, previous) # headHash
                        THEN "HEAD_HASH_MISMATCH" ELSE @]

\* The verification starts: the head is read.
readHead(v, from, to, limit) ==
  /\ verifier[v] = NoTransaction
  /\ to = 0 \/ from <= to
  /\ verifier' = [verifier EXCEPT ![v] =
       [stage |-> "head", from |-> from, to |-> to, limit |-> limit,
        head |-> head]]
  /\ UNCHANGED <<chain, head, locked, writer, verdict, alarms, damaged>>

\* The rows are read, later, and checked against the head read before.
checkRows(v) ==
  /\ verifier[v].stage = "head"
  /\ LET q == verifier[v]
         events == readRange(q.from, q.to, q.limit)
     IN verifier' = [verifier EXCEPT ![v] =
          [stage |-> "checked", from |-> q.from, to |-> q.to,
           head |-> q.head, clean |-> ~damaged,
           result |-> verifyAuditEventChain(events,
                        FirstSequence(q.from), GENESIS_PREVIOUS_HASH,
                        q.head.lastEventHash)]]
  /\ UNCHANGED <<chain, head, locked, writer, verdict, alarms, damaged>>

\* A failure counts unless the rows read end elsewhere than the head read.
authoritativeFailure(q) ==
  /\ q.result.code # "ok"
  /\ q.result.code # "HEAD_HASH_MISMATCH"
       \/ q.result.last = q.head.lastSequence

completeVerification(q) ==
  /\ q.from = 0 /\ q.to = 0
  /\ q.result.code = "ok" /\ q.result.checked = q.head.lastSequence

\* The verdict is stored, with the alert of a failure.
recordVerdict(v) ==
  /\ verifier[v].stage = "checked"
  /\ verifier' = [verifier EXCEPT ![v] = NoTransaction]
  /\ LET q == verifier[v] IN
     /\ verdict' = IF authoritativeFailure(q)
                   THEN [valid |-> FALSE, known |-> TRUE,
                         last |-> q.result.last, count |-> q.result.checked,
                         clean |-> q.clean]
                   ELSE IF completeVerification(q)
                   THEN [valid |-> TRUE, known |-> TRUE,
                         last |-> q.result.last, count |-> q.result.checked,
                         clean |-> q.clean]
                   ELSE verdict
     /\ alarms' = IF authoritativeFailure(q)
                  THEN alarms \cup {[code |-> q.result.code,
                                     from |-> q.from, clean |-> q.clean]}
                  ELSE alarms
  /\ UNCHANGED <<chain, head, locked, writer, damaged>>

\* auditSummary: what the dashboard says of the chain.
auditSummary ==
  CASE verdict.known /\ ~verdict.valid -> "invalid"
    [] verdict.valid /\ (\/ head.lastSequence = 0 /\ verdict.count = 0
                         \/ verdict.last = head.lastSequence) -> "valid"
    [] OTHER -> "not_verified"
-----------------------------------------------------------------------------
\* The loop of verifyWorkspaceAuditChains over batches: from the sequence
\* and the hash expected next, does the rest of the chain verify up to the
\* head?
Batch(k) == readRange(k * BATCH + 1, 0, BATCH)
FullBatch(k) == Len(Batch(k)) = BATCH
BatchHash(k) == Batch(k)[Len(Batch(k))].eventHash
ExpectedHash(k) == IF k = 0 THEN GENESIS_PREVIOUS_HASH ELSE BatchHash(k - 1)
BatchValid(k) ==
  Batch(k) # <<>> =>
    verifyEvents(Batch(k), k * BATCH + 1, ExpectedHash(k)).code = "ok"

\* The batches the loop reads, up to the first that is not full.
BatchesRead == {k \in 0..MaxChain : \A j \in 0..(k - 1) : FullBatch(j)}

RestoredChainValid ==
  LET final == Max(BatchesRead)
  IN /\ \A k \in BatchesRead : BatchValid(k)
     /\ head.lastSequence = final * BATCH + Len(Batch(final))
     /\ head.lastEventHash = IF Batch(final) # <<>> THEN BatchHash(final)
                             ELSE ExpectedHash(final)

TrailNext ==
  \/ \E w \in Writers :
       \/ \E s \in Sources, p \in Payloads : lockChainHead(w, s, p)
       \/ appendAuditEvent(w)
  \/ \E i \in DOMAIN chain : changePayload(i) \/ loseRow(i)
  \/ \E v \in Verifiers :
       \/ \E f \in FromSequences, t \in ToSequences, n \in SampleLimits :
            readHead(v, f, t, n)
       \/ checkRows(v) \/ recordVerdict(v)

TrailSpec == TrailInit /\ [][TrailNext]_trailVars
-----------------------------------------------------------------------------
TrailTypeOK ==
  /\ Len(chain) <= MaxChain /\ head.lastSequence \in 0..MaxChain
  /\ locked \in Writers \cup {"none"}
  /\ \A w \in Writers : writer[w].stage \in {"idle", "locked"}
  /\ \A v \in Verifiers : verifier[v].stage \in {"idle", "head", "checked"}
  /\ verdict.valid \in BOOLEAN /\ verdict.last \in 0..MaxChain

\* Undamaged rows form one chain that ends at the stored head, each source
\* once, whatever transactions append and retry at the same time.
ChainEndsAtHead ==
  ~damaged =>
    /\ Len(chain) = head.lastSequence
    /\ \A i \in DOMAIN chain :
         FailureOf(chain, i, 1, GENESIS_PREVIOUS_HASH) = "ok"
    /\ chain # <<>> => chain[Len(chain)].eventHash = head.lastEventHash
    /\ \A i, j \in DOMAIN chain :
         chain[i].sourceId = chain[j].sourceId => i = j

\* A verification that runs while events are appended, over the whole chain
\* or up to some sequence, raises an integrity alert only for a damaged one.
\* One that starts after the first sequence expects no event before its own
\* and raises it always.
AlarmMeansDamage ==
  \A a \in alarms : FirstSequence(a.from) = 1 => ~a.clean

\* The dashboard says valid only when a verification of undamaged rows went
\* as far as the present head.
ValidMeansVerified ==
  auditSummary = "valid" =>
    verdict.clean /\ verdict.last = head.lastSequence

\* Verifying a restored chain batch by batch accepts exactly the chains that
\* one pass over all rows accepts.
BatchesAgreeWithOnePass ==
  RestoredChainValid <=>
    /\ verifyAuditEventChain(chain, 1, GENESIS_PREVIOUS_HASH,
                             head.lastEventHash).code = "ok"
    /\ Len(chain) = head.lastSequence

\* The audit trail of a workspace: its chain, its alarms, its verdict on the
\* dashboard and its verification after a restore (appendAuditEvent,
\* verifyChain, auditSummary, verifyWorkspaceAuditChains).
TrailIsSound ==
  /\ ChainEndsAtHead /\ AlarmMeansDamage
  /\ ValidMeansVerified /\ BatchesAgreeWithOnePass
=============================================================================
