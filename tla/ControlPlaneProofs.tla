------------------------- MODULE ControlPlaneProofs ---------------------------
(***************************************************************************)
(* Proofs about the components of the Control Plane that surround the run  *)
(* ledger: the inputs of a run, locator repairs, pairing, rollouts, the    *)
(* draft editor, recordings and the audit trail, each for any number of    *)
(* its actors and rows.                                                    *)
(*                                                                         *)
(* Each part states the inductive invariant of its component (SecureInv,   *)
(* LocatorInv, PairingInv, RolloutInv, EditorInv, RecordingInv, TrailInv), *)
(* shows that every operation keeps it, and ends in the theorem that the   *)
(* component has the property the runs check.                              *)
(***************************************************************************)
EXTENDS SecureInputs, LocatorRepair, RunnerPairing, RunnerRollout, DraftEditor,
        RecordingSync, AuditTrail, Integers, FiniteSetTheorems,
        SequenceTheorems, WellFoundedInduction, TLAPS

-----------------------------------------------------------------------------
(* The inputs of a run                                                     *)

\* The panel is a record of its four fields, for a Runner that exists.
PanelShape ==
  panel \in [runId : {panel.runId}, prepId : {panel.prepId},
             has : {panel.has}, runner : KeyHolders]

\* ensureRegistered holds the key of the file once it is about to register,
\* and there is none while it is about to save one.
KeyOnItsWay(n) ==
  /\ pc[n] # "idle" => gone[n] # "unpaired"
  /\ pc[n] = "save" => local[n] = 0
  /\ pc[n] = "register" => local[n] = mem[n]
  /\ registered[n] # 0 /\ gone[n] # "unpaired" => local[n] = registered[n]

\* A preparation names the key its Runner registered, which is never
\* replaced, and what was committed to it is bound to it.
PreparationHolds(p) ==
  /\ Existing(p) => /\ prep[p].runner \in KeyHolders
                    /\ registered[prep[p].runner] # 0
                    /\ prep[p].key = registered[prep[p].runner]
  /\ Consumed(p) => Existing(p) /\ Bound(p, run[p])

SecureInv ==
  /\ SecureTypeOK
  /\ gone \in [KeyHolders -> {"no", "unpaired", "revoked"}]
  /\ PanelShape
  /\ prep = [p \in Ids |-> prep[p]] /\ run = [p \in Ids |-> run[p]]
  /\ \A n \in KeyHolders : KeyOnItsWay(n)
  /\ \A p \in Ids : PreparationHolds(p)
  /\ \A p, q \in Ids :
       Existing(p) /\ Existing(q) /\ prep[p].runId = prep[q].runId => p = q
  /\ AcceptedEnvelopeOpens

LEMMA SecureStarts == SecureInit => SecureInv
  BY SecureAssumption, SMT
  DEF SecureInit, SecureInv, SecureTypeOK, PanelShape, KeyOnItsWay,
      PreparationHolds, AcceptedEnvelopeOpens, Existing, Consumed, Absent,
      NoEnvelope, Fresh, Ids

(* Every step of ensureRegistered, and the end of a Runner.                *)
LEMMA KeyStepKeeps ==
  ASSUME SecureInv, NEW n \in KeyHolders,
         \/ load(n) \/ save(n) \/ registerRunnerKey(n) \/ crash(n)
         \/ unpair(n) \/ revokeKeyHolder(n)
  PROVE  SecureInv'
  <1>1. /\ UNCHANGED <<moment, prep, run, opened, panel, published, sealed>>
        /\ \A m \in KeyHolders :
             registered[m] # 0 => registered'[m] = registered[m]
    BY DEF load, save, registerRunnerKey, crash, unpair, revokeKeyHolder,
           keyVars, serverVars, SecureInv, SecureTypeOK
  <1>2. /\ local' \in [KeyHolders -> 0..MaxKeys]
        /\ mem' \in [KeyHolders -> 0..MaxKeys]
        /\ pc' \in [KeyHolders -> {"idle", "save", "register"}]
        /\ registered' \in [KeyHolders -> 0..MaxKeys]
        /\ gone' \in [KeyHolders -> {"no", "unpaired", "revoked"}]
    <2> USE SecureAssumption DEF SecureInv, SecureTypeOK
    <2>1. CASE load(n)
      BY <2>1 DEF load
    <2>2. CASE save(n)
      BY <2>2 DEF save
    <2>3. CASE registerRunnerKey(n)
      BY <2>3 DEF registerRunnerKey
    <2>4. CASE crash(n)
      BY <2>4 DEF crash
    <2>5. CASE unpair(n)
      BY <2>5 DEF unpair
    <2>6. CASE revokeKeyHolder(n)
      BY <2>6 DEF revokeKeyHolder, keyVars
    <2> QED
      BY <2>1, <2>2, <2>3, <2>4, <2>5, <2>6
  <1>3. ASSUME NEW m \in KeyHolders PROVE KeyOnItsWay(m)'
    <2> USE SecureAssumption DEF SecureInv, SecureTypeOK, KeyOnItsWay
    <2>1. CASE load(n)
      BY <2>1 DEF load
    <2>2. CASE save(n)
      BY <2>2 DEF save
    <2>3. CASE registerRunnerKey(n)
      BY <2>3 DEF registerRunnerKey
    <2>4. CASE crash(n)
      BY <2>4 DEF crash
    <2>5. CASE unpair(n)
      BY <2>5 DEF unpair
    <2>6. CASE revokeKeyHolder(n)
      BY <2>6 DEF revokeKeyHolder, keyVars
    <2> QED
      BY <2>1, <2>2, <2>3, <2>4, <2>5, <2>6
  <1>4. \A p \in Ids : PreparationHolds(p)'
    BY <1>1 DEF SecureInv, PreparationHolds, Existing, Consumed, Bound
  <1> QED
    BY <1>1, <1>2, <1>3, <1>4
    DEF SecureInv, SecureTypeOK, PanelShape, Existing, AcceptedEnvelopeOpens

(* prepare: a new row names the registered key and a new client run id.    *)
LEMMA PrepareKeeps ==
  ASSUME SecureInv, NEW heard \in BOOLEAN, prepare(heard)
  PROVE  SecureInv'
  <1> DEFINE id == IF panel.runId = 0 THEN NewId(RunIds) ELSE panel.runId
             q == IF panel.prepId = 0 THEN NewId({r \in Ids : Existing(r)})
                                      ELSE panel.prepId
             n == panel.runner
             prepared == [runner |-> n, key |-> registered[n], runId |-> id,
                          expiresAt |-> moment + TTL]
  <1>1. /\ prep' = Prepared(q, id, n, moment)
        /\ panel' = [panel EXCEPT !.runId = id, !.prepId = q,
                       !.has = heard /\ PrepareSucceeds(q, id, n)]
        /\ UNCHANGED <<moment, keyVars, gone, published, run, sealed, opened>>
    BY DEF prepare
  <1>2. n \in KeyHolders /\ PanelShape'
    BY <1>1 DEF SecureInv, PanelShape
  <1> HIDE DEF id, q
  <1>3. UNCHANGED <<local, pc, mem, registered>>
    BY <1>1 DEF keyVars
  <1>4. CASE prep' = prep
    BY <1>1, <1>2, <1>3, <1>4
    DEF SecureInv, SecureTypeOK, KeyOnItsWay, PreparationHolds, Existing,
        Consumed, Bound, AcceptedEnvelopeOpens
  <1>5. CASE prep' # prep
    <2>1. /\ ~Existing(q) /\ ~RunIdTaken(id) /\ registered[n] # 0
          /\ prep' = [prep EXCEPT ![q] = prepared]
      BY <1>1, <1>5 DEF Prepared, MayPrepare
    <2>2. prep = [p \in Ids |-> prep[p]]
      BY DEF SecureInv
    <2>3. /\ prep' = [p \in Ids |-> prep'[p]]
          /\ \A p \in Ids : prep'[p] = IF p = q THEN prepared ELSE prep[p]
      BY <2>1, <2>2, Zenon
    <2>4. prepared # Absent
      BY <2>1 DEF Absent
    <2>5. \A p \in Ids : Existing(p)' <=> Existing(p) \/ p = q
      BY <2>1, <2>3, <2>4 DEF Existing
    <2>6. \A p \in Ids : PreparationHolds(p)'
      BY <1>1, <1>2, <1>3, <2>1, <2>3, <2>5
      DEF SecureInv, PreparationHolds, Consumed, Bound
    <2>7. \A p, r \in Ids :
            (Existing(p) /\ Existing(r) /\ prep[p].runId = prep[r].runId)'
              => p = r
      BY <2>1, <2>3, <2>5 DEF SecureInv, RunIdTaken
    <2>8. \A p \in Ids : prep'[p].expiresAt \in 0..(MaxTime + TTL)
      BY <2>3, SecureAssumption DEF SecureInv, SecureTypeOK
    <2> QED
      BY <1>1, <1>2, <1>3, <2>3, <2>6, <2>7, <2>8
      DEF SecureInv, SecureTypeOK, KeyOnItsWay, AcceptedEnvelopeOpens
  <1> QED
    BY <1>4, <1>5

(* commit: only an envelope bound to the preparation is stored with it.    *)
LEMMA CommitKeeps ==
  ASSUME SecureInv, NEW p \in Ids, NEW e \in sealed, NEW heard \in BOOLEAN,
         commit(p, e, heard)
  PROVE  SecureInv'
  <1>1. /\ UNCHANGED <<moment, local, pc, mem, registered, gone, published,
                       prep, sealed, opened>>
        /\ run' = IF Consumed(p) THEN run ELSE [run EXCEPT ![p] = e]
    BY DEF commit, keyVars
  <1>2. PanelShape'
    BY DEF commit, SecureInv, PanelShape, Fresh
  <1>3. run' = [r \in Ids |-> run'[r]]
    <2>1. run = [r \in Ids |-> run[r]]
      BY DEF SecureInv
    <2> QED
      BY <1>1, <2>1, Zenon
  <1>4. ASSUME NEW r \in Ids PROVE PreparationHolds(r)'
    <2>1. run = [s \in Ids |-> run[s]]
      BY DEF SecureInv
    <2>2. run'[r] = IF r = p /\ ~Consumed(p) THEN e ELSE run[r]
      BY <1>1, <2>1
    <2>3. ~Consumed(p) => Existing(p) /\ Bound(p, e)
      BY DEF commit, MayCommit
    <2> QED
      BY <1>1, <2>2, <2>3
      DEF SecureInv, PreparationHolds, Existing, Consumed, Bound
  <1> QED
    BY <1>1, <1>2, <1>3, <1>4
    DEF SecureInv, SecureTypeOK, KeyOnItsWay, Existing, AcceptedEnvelopeOpens

(* acquireSecureRuntime: what was committed opens unless it is late.       *)
LEMMA OpeningKeeps ==
  ASSUME SecureInv, NEW p \in Ids, acquireSecureRuntime(p) PROVE SecureInv'
  <1>1. /\ UNCHANGED <<moment, local, pc, mem, registered, gone, published,
                       prep, run, sealed, panel>>
        /\ opened' = [opened EXCEPT ![p] =
             IF decryptRunInputs(p, run[p]) THEN "opened"
             ELSE IF moment >= prep[p].expiresAt THEN "late" ELSE "invalid"]
    BY DEF acquireSecureRuntime, keyVars, serverVars
  <1>2. moment < prep[p].expiresAt => decryptRunInputs(p, run[p])
    BY DEF acquireSecureRuntime, SecureInv, PreparationHolds, KeyOnItsWay,
           decryptRunInputs, Bound
  <1>3. moment \in Int /\ prep[p].expiresAt \in Int
    BY SecureAssumption DEF SecureInv, SecureTypeOK
  <1> QED
    BY <1>1, <1>2, <1>3
    DEF SecureInv, SecureTypeOK, KeyOnItsWay, PreparationHolds, PanelShape,
        Existing, Consumed, Bound, AcceptedEnvelopeOpens

LEMMA SecureStepKeeps == SecureInv /\ [SecureNext]_svars => SecureInv'
  <1> SUFFICES ASSUME SecureInv, [SecureNext]_svars PROVE SecureInv'
    OBVIOUS
  <1> USE DEF SecureInv, SecureTypeOK, KeyOnItsWay, PreparationHolds,
              PanelShape, Existing, Consumed, Bound, AcceptedEnvelopeOpens
  <1>1. CASE UNCHANGED svars
    BY <1>1 DEF svars
  <1>2. ASSUME NEW n \in KeyHolders, chooseRunner(n) PROVE SecureInv'
    <2> HIDE DEF PanelShape, PreparationHolds, KeyOnItsWay, SecureTypeOK,
                 Existing
    <2>1. PanelShape'
      BY <1>2 DEF chooseRunner, PanelShape
    <2> QED
      BY <1>2, <2>1
      DEF chooseRunner, keyVars, serverVars, SecureTypeOK, KeyOnItsWay,
          PreparationHolds, Existing
  <1>3. CASE reload
    BY <1>3, SecureAssumption DEF reload, keyVars, serverVars, Fresh
  <1>4. CASE encryptRunInputs \/ withdraw
    BY <1>4 DEF encryptRunInputs, withdraw, keyVars, serverVars
  <1>5. CASE SecureTick
    BY <1>5, SecureAssumption DEF SecureTick, keyVars, serverVars
  <1> QED
    BY <1>1, <1>2, <1>3, <1>4, <1>5, KeyStepKeeps, PrepareKeeps, CommitKeeps,
       OpeningKeeps DEF SecureNext

(* For any Runners, preparations, keys and envelopes: the key the Control  *)
(* Plane hands out is the one in the Runner's file, what it accepted opens *)
(* unless it is late, a client run id has one run, and the inputs of a run *)
(* are never replaced (ensureRegistered, prepare, commit).                 *)
THEOREM InputsArrive == SecureSpec => InputsReachTheirRun
  <1>1. SecureSpec => []SecureInv
    BY SecureStarts, SecureStepKeeps, PTL DEF SecureSpec
  <1>2. SecureInv =>
          RegisteredKeyIsHeld /\ AcceptedEnvelopeOpens /\ OneRunPerClientRun
    BY DEF SecureInv, RegisteredKeyIsHeld, KeyOnItsWay, OneRunPerClientRun,
           PreparationHolds
  <1>3. SecureInv /\ [SecureNext]_svars => [InputsAreFinal]_svars
    <2> SUFFICES ASSUME SecureInv, SecureNext PROVE InputsAreFinal
      OBVIOUS
    <2>1. CASE run' = run
      BY <2>1 DEF InputsAreFinal
    <2>2. ASSUME NEW p \in Ids, NEW e \in sealed, NEW heard \in BOOLEAN,
                 commit(p, e, heard)
          PROVE  InputsAreFinal
      <3>1. run = [r \in Ids |-> run[r]]
        BY DEF SecureInv
      <3> QED
        BY <2>2, <3>1 DEF commit, InputsAreFinal, Consumed
    <2> QED
      BY <2>1, <2>2
      DEF SecureNext, load, save, registerRunnerKey, crash, unpair,
          revokeKeyHolder, chooseRunner, prepare, reload, encryptRunInputs,
          withdraw, SecureTick, acquireSecureRuntime, keyVars, serverVars
  <1> QED
    BY <1>1, <1>2, <1>3, PTL DEF SecureSpec, InputsReachTheirRun

-----------------------------------------------------------------------------
(* Locator repairs                                                         *)

\* What the rows hold.
LocatorRows ==
  /\ proposal \in [status : {"none", "OPEN", "READY", "APPLIED"},
                   digest : SUBSET Candidates, page : {0, 1, 2},
                   selected : Candidates \cup {NoId},
                   target : Drafts \cup {NoId}, revision : Nat,
                   apply : ClientIds \cup {NoId}]
  /\ candidate \in [Candidates ->
                     [test : {"NOT_REQUESTED", "PENDING"} \cup TestResults,
                      seen : {0, 1, 2}]]
  /\ draft \in [Drafts -> [status : {"draft", "published"}, revision : Nat,
                           locator : Candidates \cup {"source", "edited"}]]
  /\ browserPage \in {1, 2}

\* A candidate that passed did so on the proposal's page, there are none
\* tested without a proposal, and one at most is being tested.
TestsAreOfThePage ==
  /\ \A c \in Candidates :
       /\ proposal.status = "none" => candidate[c].test = "NOT_REQUESTED"
       /\ candidate[c].test = "PASSED" => candidate[c].seen = proposal.page
  /\ \A b, c \in Candidates :
       candidate[b].test = "PENDING" /\ candidate[c].test = "PENDING" => b = c

\* Only the target of the applied proposal holds one of its candidates, and
\* every answer is the one the proposal keeps.
ApplicationIsKept ==
  /\ \A d \in Drafts : draft[d].locator \in Candidates =>
       proposal.status = "APPLIED" /\ d = proposal.target
  /\ \A a \in answered :
       /\ proposal.status = "APPLIED"
       /\ a = [id |-> proposal.apply, target |-> proposal.target,
               revision |-> proposal.revision]
  /\ proposal.status # "APPLIED" => proposal.apply = NoId

LocatorInv == LocatorRows /\ TestsAreOfThePage /\ ApplicationIsKept

(* A set that holds one element at most.                                   *)
LEMMA AtMostOne ==
  ASSUME NEW S, \A x, y \in S : x = y PROVE Cardinality(S) <= 1
  <1>1. CASE S = {}
    BY <1>1, FS_EmptySet
  <1>2. CASE S # {}
    <2>1. PICK x \in S : S = {x}
      BY <1>2
    <2> QED
      BY <2>1, FS_Singleton
  <1> QED
    BY <1>1, <1>2

LEMMA LocatorStarts == LocatorInit => LocatorInv
  BY LocatorAssumption
  DEF LocatorInit, LocatorInv, LocatorRows, TestsAreOfThePage,
      ApplicationIsKept, NoProposal, Untested, TestResults

(* createForRunner: nothing was tested or applied before.                  *)
LEMMA CreationKeeps ==
  ASSUME LocatorInv, NEW cs \in SUBSET Candidates, createForRunner(cs)
  PROVE  LocatorInv'
  <1>1. /\ proposal' = [NoProposal EXCEPT !.status = "OPEN", !.digest = cs,
                                          !.page = browserPage]
        /\ proposal.status = "none"
        /\ UNCHANGED <<candidate, draft, browserPage, answered>>
    BY DEF createForRunner
  <1>2. LocatorRows'
    BY <1>1 DEF LocatorInv, LocatorRows, NoProposal
  <1>3. TestsAreOfThePage'
    BY <1>1 DEF LocatorInv, TestsAreOfThePage, LocatorRows
  <1>4. ApplicationIsKept'
    BY <1>1 DEF LocatorInv, ApplicationIsKept, NoProposal
  <1> QED
    BY <1>2, <1>3, <1>4 DEF LocatorInv

(* requestCandidateTest: only when no other test is pending.               *)
LEMMA RequestKeeps ==
  ASSUME LocatorInv, NEW c \in Candidates, requestCandidateTest(c)
  PROVE  LocatorInv'
  <1>1. /\ candidate' = [candidate EXCEPT ![c].test = "PENDING"]
        /\ proposal.status # "none" /\ NonePending
        /\ UNCHANGED <<proposal, draft, browserPage, answered>>
    BY DEF requestCandidateTest, TestAllowed
  <1>2. LocatorRows'
    BY <1>1 DEF LocatorInv, LocatorRows
  <1>3. TestsAreOfThePage'
    BY <1>1 DEF LocatorInv, TestsAreOfThePage, LocatorRows, NonePending
  <1>4. ApplicationIsKept'
    BY <1>1 DEF LocatorInv, ApplicationIsKept
  <1> QED
    BY <1>2, <1>3, <1>4 DEF LocatorInv

(* submitTestResultForRunner: a pass on another page is not accepted.      *)
LEMMA ResultKeeps ==
  ASSUME LocatorInv, NEW c \in Candidates, NEW r \in TestResults,
         submitTestResultForRunner(c, r)
  PROVE  LocatorInv'
  <1>1. /\ candidate' = [candidate EXCEPT ![c] =
                          [test |-> r, seen |-> browserPage]]
        /\ candidate[c].test = "PENDING"
        /\ r = "PASSED" => browserPage = proposal.page
        /\ proposal' = IF r = "PASSED" /\ proposal.status = "OPEN"
                       THEN [proposal EXCEPT !.status = "READY"] ELSE proposal
        /\ UNCHANGED <<draft, browserPage, answered>>
    BY DEF submitTestResultForRunner, ContextAgrees
  <1>2. candidate' \in [Candidates ->
                         [test : {"NOT_REQUESTED", "PENDING"} \cup TestResults,
                          seen : {0, 1, 2}]]
    <2>1. browserPage \in {1, 2}
      BY DEF LocatorInv, LocatorRows
    <2> QED
      BY <1>1, <2>1 DEF LocatorInv, LocatorRows
  <1>3. LocatorRows'
    BY <1>1, <1>2 DEF LocatorInv, LocatorRows
  <1>4. /\ proposal'.page = proposal.page /\ proposal'.apply = proposal.apply
        /\ proposal'.target = proposal.target
        /\ proposal'.revision = proposal.revision
        /\ proposal'.status = "APPLIED" <=> proposal.status = "APPLIED"
        /\ proposal'.status = "none" <=> proposal.status = "none"
    BY <1>1 DEF LocatorInv, LocatorRows
  <1>5. TestsAreOfThePage'
    BY <1>1, <1>4 DEF LocatorInv, TestsAreOfThePage, LocatorRows, TestResults
  <1>6. ApplicationIsKept'
    BY <1>1, <1>4 DEF LocatorInv, ApplicationIsKept
  <1> QED
    BY <1>3, <1>5, <1>6 DEF LocatorInv

(* applyToDraft: the first application, to a draft with the source's       *)
(* locator.                                                                *)
LEMMA ApplicationKeeps ==
  ASSUME LocatorInv, NEW c \in Candidates, NEW d \in Drafts,
         NEW n \in 1..MaxPatchRevision, NEW id \in ClientIds,
         applyToDraft(c, d, n, id)
  PROVE  LocatorInv'
  <1>1. /\ proposal.status = "READY" /\ candidate[c].test = "PASSED"
        /\ draft' = [draft EXCEPT ![d].locator = c, ![d].revision = @ + 1]
        /\ proposal' = [proposal EXCEPT !.status = "APPLIED", !.selected = c,
                          !.target = d, !.revision = n + 1, !.apply = id]
        /\ answered' = answered \cup {[id |-> id, target |-> d,
                                       revision |-> n + 1]}
        /\ UNCHANGED <<candidate, browserPage>>
    BY DEF applyToDraft, ApplyAllowed
  <1>2. n + 1 \in Nat
    BY LocatorAssumption
  <1>3. LocatorRows'
    <2>1. proposal' \in [status : {"none", "OPEN", "READY", "APPLIED"},
                         digest : SUBSET Candidates, page : {0, 1, 2},
                         selected : Candidates \cup {NoId},
                         target : Drafts \cup {NoId}, revision : Nat,
                         apply : ClientIds \cup {NoId}]
      BY <1>1, <1>2 DEF LocatorInv, LocatorRows
    <2>2. draft' \in [Drafts ->
                       [status : {"draft", "published"}, revision : Nat,
                        locator : Candidates \cup {"source", "edited"}]]
      BY <1>1 DEF LocatorInv, LocatorRows
    <2> QED
      BY <1>1, <2>1, <2>2 DEF LocatorInv, LocatorRows
  <1>4. /\ proposal'.status = "APPLIED" /\ proposal'.target = d
        /\ proposal'.revision = n + 1 /\ proposal'.apply = id
        /\ proposal'.page = proposal.page
    BY <1>1 DEF LocatorInv, LocatorRows
  <1>5. TestsAreOfThePage'
    BY <1>1, <1>4 DEF LocatorInv, TestsAreOfThePage
  <1>6. ApplicationIsKept'
    <2>1. answered = {}
      BY <1>1 DEF LocatorInv, ApplicationIsKept
    <2>2. \A e \in Drafts : draft'[e].locator \in Candidates => e = d
      BY <1>1 DEF LocatorInv, LocatorRows, ApplicationIsKept
    <2> QED
      BY <1>1, <1>4, <2>1, <2>2 DEF ApplicationIsKept
  <1> QED
    BY <1>3, <1>5, <1>6 DEF LocatorInv

LEMMA LocatorStepKeeps == LocatorInv /\ [LocatorNext]_lrVars => LocatorInv'
  <1> SUFFICES ASSUME LocatorInv, [LocatorNext]_lrVars PROVE LocatorInv'
    OBVIOUS
  <1>1. CASE UNCHANGED lrVars
    BY <1>1 DEF lrVars, LocatorInv, LocatorRows, TestsAreOfThePage,
                ApplicationIsKept
  <1>2. CASE pollForRunner \/ RunGoesOn \/ Expire
    BY <1>2 DEF pollForRunner, RunGoesOn, Expire, LocatorInv, LocatorRows,
                TestsAreOfThePage, ApplicationIsKept
  <1>3. CASE PageChanges
    BY <1>3 DEF PageChanges, LocatorInv, LocatorRows, TestsAreOfThePage,
                ApplicationIsKept
  <1>4. ASSUME NEW d \in Drafts, NEW id \in ClientIds, applyToDraftAgain(d, id)
        PROVE  LocatorInv'
    BY <1>4, LocatorAssumption
    DEF applyToDraftAgain, RetryAnswer, LocatorInv, LocatorRows,
        TestsAreOfThePage, ApplicationIsKept
  <1>5. ASSUME NEW d \in Drafts, NEW b \in BOOLEAN, EditDraft(d, b)
        PROVE  LocatorInv'
    <2> DEFINE loc == IF b THEN "edited" ELSE draft[d].locator
               new == [status |-> "draft", locator |-> loc,
                       revision |-> draft[d].revision + 1]
               shape == [status : {"draft", "published"}, revision : Nat,
                        locator : Candidates \cup {"source", "edited"}]
    <2>1. /\ draft' = [draft EXCEPT ![d] = new]
          /\ UNCHANGED <<proposal, candidate, browserPage, answered>>
      BY <1>5 DEF EditDraft
    <2>2. draft' \in [Drafts -> shape]
      <3>1. draft \in [Drafts -> shape]
        BY DEF LocatorInv, LocatorRows
      <3>2. new \in shape
        <4>1. draft[d] \in shape
          BY <3>1
        <4>2. loc \in Candidates \cup {"source", "edited"}
          BY <4>1
        <4> HIDE DEF loc
        <4>3. draft[d].revision + 1 \in Nat
          BY <4>1
        <4> QED
          BY <4>2, <4>3
      <3> HIDE DEF new, shape
      <3> QED
        BY <2>1, <3>1, <3>2
    <2>3. \A e \in Drafts : draft'[e].locator \in Candidates =>
                              draft[e].locator \in Candidates
      BY <2>1, LocatorAssumption DEF LocatorInv, LocatorRows
    <2> QED
      BY <2>1, <2>2, <2>3
      DEF LocatorInv, LocatorRows, TestsAreOfThePage, ApplicationIsKept
  <1>6. ASSUME NEW d \in Drafts, PublishDraft(d) PROVE LocatorInv'
    BY <1>6 DEF PublishDraft, LocatorInv, LocatorRows, TestsAreOfThePage,
                ApplicationIsKept
  <1> QED
    BY <1>1, <1>2, <1>3, <1>4, <1>5, <1>6, CreationKeeps, RequestKeeps,
       ResultKeeps, ApplicationKeeps DEF LocatorNext

(* For any candidates, drafts and client ids: one draft at most receives a *)
(* candidate, which passed on the proposal's page, in place of the locator *)
(* that failed; a repeated application gets its first answer; one          *)
(* candidate at most is being tested (applyToDraft, requestCandidateTest). *)
THEOREM RepairedOnce == LocatorSpec => LocatorRepairedOnce
  <1>1. LocatorSpec => []LocatorInv
    BY LocatorStarts, LocatorStepKeeps, PTL DEF LocatorSpec
  <1>2. LocatorInv => AppliedOnce /\ OneTestAtATime
    <2> SUFFICES ASSUME LocatorInv PROVE AppliedOnce /\ OneTestAtATime
      OBVIOUS
    <2>1. Cardinality({d \in Drafts : draft[d].locator \in Candidates}) <= 1
      BY AtMostOne DEF LocatorInv, ApplicationIsKept
    <2>2. OneTestAtATime
      BY AtMostOne DEF LocatorInv, TestsAreOfThePage, OneTestAtATime
    <2> QED
      BY <2>1, <2>2 DEF LocatorInv, ApplicationIsKept, AppliedOnce
  <1>3. LocatorInv /\ [LocatorNext]_lrVars
          => [PatchReplacesTheFailedLocator]_lrVars
    <2> SUFFICES ASSUME LocatorInv, LocatorNext
                 PROVE  PatchReplacesTheFailedLocator
      OBVIOUS
    <2>1. CASE draft' = draft
      BY <2>1 DEF PatchReplacesTheFailedLocator
    <2>2. ASSUME NEW c \in Candidates, NEW d \in Drafts,
                 NEW n \in 1..MaxPatchRevision, NEW id \in ClientIds,
                 applyToDraft(c, d, n, id)
          PROVE  PatchReplacesTheFailedLocator
      <3>1. \A e \in Drafts :
              draft'[e].locator # draft[e].locator => e = d
        BY <2>2 DEF applyToDraft, LocatorInv, LocatorRows
      <3>2. /\ draft'[d].locator = c /\ candidate[c].test = "PASSED"
            /\ draft[d].locator = "source" /\ draft[d].status = "draft"
            /\ hasCompatibleLineage(d)
        BY <2>2 DEF applyToDraft, ApplyAllowed, LocatorUnchanged, LocatorInv,
                    LocatorRows
      <3> QED
        BY <3>1, <3>2
        DEF PatchReplacesTheFailedLocator, LocatorInv, TestsAreOfThePage
    <2>3. ASSUME NEW d \in Drafts, NEW b \in BOOLEAN, EditDraft(d, b)
          PROVE  PatchReplacesTheFailedLocator
      BY <2>3, LocatorAssumption
      DEF EditDraft, PatchReplacesTheFailedLocator, LocatorInv, LocatorRows
    <2>4. ASSUME NEW d \in Drafts, PublishDraft(d)
          PROVE  PatchReplacesTheFailedLocator
      BY <2>4 DEF PublishDraft, PatchReplacesTheFailedLocator, LocatorInv,
                  LocatorRows
    <2> QED
      BY <2>1, <2>2, <2>3, <2>4
      DEF LocatorNext, createForRunner, requestCandidateTest, pollForRunner,
          submitTestResultForRunner, applyToDraftAgain, RunGoesOn, Expire,
          PageChanges
  <1> QED
    BY <1>1, <1>2, <1>3, PTL DEF LocatorSpec, LocatorRepairedOnce

-----------------------------------------------------------------------------
(* Pairing                                                                 *)

Events == [kind : {"version", "mode", "unlock"}, rev : Nat,
           from : {1, 2, "cli", "service", "none", "key"},
           to : {1, 2, "cli", "service", "none", "key"}]

\* The event is not newer than the revision of its kind.
NotNewer(e, sw, mode, unlock) ==
  /\ e.kind = "version" => e.rev <= sw
  /\ e.kind = "mode" => e.rev <= mode
  /\ e.kind = "unlock" => e.rev <= unlock

\* The trail of a device: its version history, and no event of a kind is
\* newer than the revision of that kind.
TrailOK(trail, v, sw, mode, unlock) ==
  /\ trail \in Seq(Events)
  /\ VersionHistory(trail, v)
  /\ \A i \in 1..Len(trail) : NotNewer(trail[i], sw, mode, unlock)

(* An event newer than all of its kind differs from all of them.           *)
LEMMA NewEventDiffers ==
  ASSUME NEW trail \in Seq(Events), NEW longer, NEW e \in Events,
         Len(longer) = Len(trail) + 1, longer[Len(trail) + 1] = e,
         \A i \in 1..Len(trail) : longer[i] = trail[i],
         \A i, j \in 1..Len(trail) :
           trail[i].kind = trail[j].kind /\ trail[i].rev = trail[j].rev
             => i = j,
         \A i \in 1..Len(trail) :
           trail[i].kind = e.kind => trail[i].rev < e.rev,
         NEW i \in 1..Len(longer), NEW j \in 1..Len(longer),
         longer[i].kind = longer[j].kind, longer[i].rev = longer[j].rev
  PROVE  i = j
  <1>1. \A n \in 1..Len(trail) : trail[n].rev \in Int
    <2>1. \A n \in 1..Len(trail) : trail[n] \in Events
      OBVIOUS
    <2> QED
      BY <2>1 DEF Events
  <1>2. e.rev \in Int /\ Len(trail) \in Nat
    BY DEF Events
  <1>3. CASE i \in 1..Len(trail) /\ j \in 1..Len(trail)
    BY <1>3
  <1>4. CASE i \in 1..Len(trail) /\ j = Len(trail) + 1
    <2>1. trail[i].kind = e.kind /\ trail[i].rev = e.rev
      BY <1>4
    <2> QED
      BY <1>1, <1>2, <1>4, <2>1
  <1>5. CASE j \in 1..Len(trail) /\ i = Len(trail) + 1
    <2>1. trail[j].kind = e.kind /\ trail[j].rev = e.rev
      BY <1>5
    <2> QED
      BY <1>1, <1>2, <1>5, <2>1
  <1> QED
    BY <1>2, <1>3, <1>4, <1>5

(* An event of another kind says nothing of the version.                   *)
LEMMA LeadsToSame ==
  ASSUME NEW trail \in Seq(Events), NEW e \in Events, NEW i \in Nat, NEW v,
         i <= Len(trail) + 1, LeadsTo(trail, i, v)
  PROVE  LeadsTo(Append(trail, e), i, v)
  <1> DEFINE longer == Append(trail, e)
  <1>1. /\ longer \in Seq(Events) /\ Len(longer) = Len(trail) + 1
        /\ \A j \in 1..Len(trail) : longer[j] = trail[j]
    OBVIOUS
  <1>2. Len(trail) \in Nat
    OBVIOUS
  <1> HIDE DEF longer
  <1>3. {j \in VersionEvents(longer) : j < i}
          = {j \in VersionEvents(trail) : j < i}
    BY <1>1, <1>2 DEF VersionEvents
  <1>4. \A j \in VersionEvents(trail) : longer[j] = trail[j]
    BY <1>1 DEF VersionEvents
  <1>5. LeadsTo(longer, i, v)
    BY <1>3, <1>4 DEF LeadsTo
  <1> QED
    BY <1>5 DEF longer

(* A newer version event leads from the version of the device to its own.  *)
LEMMA VersionAppended ==
  ASSUME NEW trail, NEW v, NEW sw \in Nat, NEW mode, NEW unlock,
         TrailOK(trail, v, sw, mode, unlock),
         NEW e \in Events, e.kind = "version", e.rev > sw, e.from = v
  PROVE  TrailOK(Append(trail, e), e.to, e.rev, mode, unlock)
  <1> DEFINE longer == Append(trail, e)
  <1>1. trail \in Seq(Events) /\ Len(trail) \in Nat
    BY DEF TrailOK
  <1>2. /\ longer \in Seq(Events) /\ Len(longer) = Len(trail) + 1
        /\ \A j \in 1..Len(trail) : longer[j] = trail[j]
        /\ longer[Len(trail) + 1] = e
    BY <1>1
  <1>3. \A i \in 1..Len(trail) + 1 : \A w :
          LeadsTo(trail, i, w) => LeadsTo(longer, i, w)
    BY <1>1, LeadsToSame
  <1> HIDE DEF longer
  <1>4. \A i \in 1..Len(trail) : trail[i] \in Events
    BY <1>1
  <1>5. \A i, j \in 1..Len(longer) :
          longer[i].kind = longer[j].kind /\ longer[i].rev = longer[j].rev
            => i = j
    <2>1. \A i \in 1..Len(trail) : trail[i].kind = "version" =>
                                     trail[i].rev < e.rev
      BY <1>4 DEF TrailOK, NotNewer, Events
    <2>2. \A i, j \in 1..Len(trail) :
            trail[i].kind = trail[j].kind /\ trail[i].rev = trail[j].rev
              => i = j
      BY DEF TrailOK, VersionHistory
    <2> QED
      BY <1>1, <1>2, <2>1, <2>2, NewEventDiffers
  <1>6. VersionEvents(longer) = VersionEvents(trail) \cup {Len(trail) + 1}
    BY <1>1, <1>2 DEF VersionEvents
  <1>7. \A i \in VersionEvents(longer) : LeadsTo(longer, i, longer[i].from)
    <2>1. \A i \in VersionEvents(trail) : LeadsTo(longer, i, longer[i].from)
      <3> TAKE i \in VersionEvents(trail)
      <3>1. i \in 1..Len(trail) /\ i \in 1..Len(trail) + 1
        BY <1>1 DEF VersionEvents
      <3>2. LeadsTo(trail, i, trail[i].from)
        BY DEF TrailOK, VersionHistory
      <3> QED
        BY <1>2, <1>3, <3>1, <3>2
    <2>2. LeadsTo(longer, Len(trail) + 1, v)
      BY <1>1, <1>3 DEF TrailOK, VersionHistory
    <2> QED
      BY <1>2, <1>6, <2>1, <2>2
  <1>8. LeadsTo(longer, Len(longer) + 1, e.to)
    <2> DEFINE earlier == {j \in VersionEvents(longer) : j < Len(longer) + 1}
    <2>1. Len(trail) + 1 \in earlier /\ earlier \subseteq 1..Len(trail) + 1
      BY <1>1, <1>2, <1>6 DEF VersionEvents
    <2>2. \A j \in earlier : (\A k \in earlier : k <= j) => j = Len(trail) + 1
      BY <1>1, <2>1
    <2> HIDE DEF earlier
    <2>3. earlier # {}
      BY <2>1
    <2>4. \A j \in earlier :
            (\A k \in earlier : k <= j) => e.to = longer[j].to
      BY <1>2, <2>2
    <2> QED
      BY <2>3, <2>4 DEF LeadsTo, earlier
  <1>9. \A i \in 1..Len(longer) :
          NotNewer(longer[i], e.rev, mode, unlock)
    <2>1. \A i \in 1..Len(trail) : NotNewer(trail[i], e.rev, mode, unlock)
      BY <1>4 DEF TrailOK, NotNewer, Events
    <2>2. NotNewer(e, e.rev, mode, unlock)
      BY DEF NotNewer, Events
    <2> QED
      BY <1>1, <1>2, <2>1, <2>2
  <1>10. TrailOK(longer, e.to, e.rev, mode, unlock)
    BY <1>2, <1>5, <1>7, <1>8, <1>9 DEF TrailOK, VersionHistory
  <1> QED
    BY <1>10 DEF longer

(* A newer event of another kind leaves the version history as it is.      *)
LEMMA OtherAppended ==
  ASSUME NEW trail, NEW v, NEW sw, NEW mode \in Nat, NEW unlock \in Nat,
         TrailOK(trail, v, sw, mode, unlock),
         NEW e \in Events, NEW newMode \in Nat, NEW newUnlock \in Nat,
         mode <= newMode, unlock <= newUnlock,
         \/ e.kind = "mode" /\ e.rev > mode /\ e.rev = newMode
         \/ e.kind = "unlock" /\ e.rev > unlock /\ e.rev = newUnlock
  PROVE  TrailOK(Append(trail, e), v, sw, newMode, newUnlock)
  <1> DEFINE longer == Append(trail, e)
  <1>1. trail \in Seq(Events) /\ Len(trail) \in Nat
    BY DEF TrailOK
  <1>2. /\ longer \in Seq(Events) /\ Len(longer) = Len(trail) + 1
        /\ \A j \in 1..Len(trail) : longer[j] = trail[j]
        /\ longer[Len(trail) + 1] = e
    BY <1>1
  <1>3. \A i \in 1..Len(trail) + 1 : \A w :
          LeadsTo(trail, i, w) => LeadsTo(longer, i, w)
    BY <1>1, LeadsToSame
  <1> HIDE DEF longer
  <1>4. \A i \in 1..Len(trail) : trail[i] \in Events
    BY <1>1
  <1>5. \A i, j \in 1..Len(longer) :
          longer[i].kind = longer[j].kind /\ longer[i].rev = longer[j].rev
            => i = j
    <2>1. \A i \in 1..Len(trail) : trail[i].kind = e.kind =>
                                     trail[i].rev < e.rev
      BY <1>4 DEF TrailOK, NotNewer, Events
    <2>2. \A i, j \in 1..Len(trail) :
            trail[i].kind = trail[j].kind /\ trail[i].rev = trail[j].rev
              => i = j
      BY DEF TrailOK, VersionHistory
    <2> QED
      BY <1>1, <1>2, <2>1, <2>2, NewEventDiffers
  <1>6. VersionEvents(longer) = VersionEvents(trail)
    BY <1>1, <1>2 DEF VersionEvents
  <1>7. \A i \in VersionEvents(longer) : LeadsTo(longer, i, longer[i].from)
    <2> TAKE i \in VersionEvents(longer)
    <2>1. i \in 1..Len(trail) /\ i \in 1..Len(trail) + 1
      BY <1>1, <1>6 DEF VersionEvents
    <2>2. LeadsTo(trail, i, trail[i].from)
      BY <1>6 DEF TrailOK, VersionHistory
    <2> QED
      BY <1>2, <1>3, <2>1, <2>2
  <1>8. LeadsTo(longer, Len(longer) + 1, v)
    <2>1. LeadsTo(longer, Len(trail) + 1, v)
      BY <1>1, <1>3 DEF TrailOK, VersionHistory
    <2>2. {j \in VersionEvents(longer) : j < Len(longer) + 1}
            = {j \in VersionEvents(longer) : j < Len(trail) + 1}
      BY <1>1, <1>2, <1>6 DEF VersionEvents
    <2> QED
      BY <2>1, <2>2 DEF LeadsTo
  <1>9. \A i \in 1..Len(longer) :
          NotNewer(longer[i], sw, newMode, newUnlock)
    <2>1. \A i \in 1..Len(trail) : NotNewer(trail[i], sw, newMode, newUnlock)
      BY <1>4 DEF TrailOK, NotNewer, Events
    <2>2. NotNewer(e, sw, newMode, newUnlock)
      BY DEF NotNewer, Events
    <2> QED
      BY <1>1, <1>2, <2>1, <2>2
  <1>10. TrailOK(longer, v, sw, newMode, newUnlock)
    BY <1>2, <1>5, <1>7, <1>8, <1>9 DEF TrailOK, VersionHistory
  <1> QED
    BY <1>10 DEF longer

-----------------------------------------------------------------------------
Statuses == {"none", "PENDING", "APPROVED", "DENIED", "EXPIRED", "CONSUMED"}

\* What the session and the device hold.
PairingRows ==
  /\ clock \in Nat /\ asked \subseteq Nat
  /\ session \in [status : Statuses, workspace : Workspaces \cup {"none"},
                  approvedAt : Nat, polledAt : Nat, interval : Nat,
                  deliverUntil : Nat]
  /\ device \in [workspace : Workspaces \cup {"none"}, revoked : BOOLEAN,
                 version : {1, 2}, software : Nat, protocol : {0, 1},
                 mode : {"cli", "service"}, unlock : {"none", "key"},
                 runtime : Nat]

\* The device comes from the session: its workspace approved it in time,
\* and nothing was told of it before.
DeviceOfSession ==
  /\ session.status \in {"none", "PENDING"} => session.workspace = "none"
  /\ session.status \in {"APPROVED", "CONSUMED"} =>
       session.workspace \in Workspaces /\ session.approvedAt < ExpiresAt
  /\ session.status = "CONSUMED" => device.workspace = session.workspace
  /\ session.status # "CONSUMED" => device = NoDevice
  /\ told \subseteq (IF session.status = "CONSUMED" THEN {session.workspace}
                     ELSE {})
  /\ passed => session.status = "CONSUMED"

DeviceTrailOK == TrailOK(audit, device.version, device.software,
                         device.runtime, device.runtime)

PairingInv == PairingRows /\ DeviceOfSession /\ DeviceTrailOK

LEMMA PairingStarts == PairingInit => PairingInv
  <1> SUFFICES ASSUME PairingInit PROVE PairingInv
    OBVIOUS
  <1>1. PairingRows /\ DeviceOfSession
    BY DEF PairingInit, PairingRows, DeviceOfSession, NoSession, NoDevice,
           Statuses
  <1>2. audit = <<>> /\ audit \in Seq(Events) /\ device.version = 1
    BY DEF PairingInit, NoDevice
  <1>3. VersionEvents(audit) = {}
    BY <1>2 DEF VersionEvents
  <1>4. DeviceTrailOK
    BY <1>2, <1>3 DEF DeviceTrailOK, TrailOK, VersionHistory, LeadsTo
  <1> QED
    BY <1>1, <1>4 DEF PairingInv

(* Steps that leave the device and its trail alone.                        *)
LEMMA TrailStays ==
  ASSUME DeviceTrailOK, UNCHANGED audit,
         device'.version = device.version,
         device'.software = device.software, device'.runtime = device.runtime
  PROVE  DeviceTrailOK'
  BY DEF DeviceTrailOK

(* A decision is taken on a pending session that has not expired.          *)
LEMMA DecisionKeeps ==
  ASSUME PairingInv, NEW w \in Workspaces, approvePairing(w) \/ denyPairing(w)
  PROVE  PairingInv'
  <1>1. session.status = "PENDING" /\ clock < ExpiresAt
    BY PairingAssumption
    DEF approvePairing, denyPairing, Decidable, expireIfRequired, PairingInv,
        PairingRows
  <1>2. /\ \/ session' = [session EXCEPT !.status = "APPROVED",
                            !.workspace = w, !.approvedAt = clock]
           \/ session' = [session EXCEPT !.status = "DENIED", !.workspace = w]
        /\ UNCHANGED <<clock, device, asked, told, audit, passed>>
    BY DEF approvePairing, denyPairing
  <1>3. PairingRows'
    BY <1>2 DEF PairingInv, PairingRows, Statuses
  <1>4. DeviceOfSession'
    BY <1>1, <1>2 DEF PairingInv, PairingRows, DeviceOfSession, Statuses
  <1> QED
    BY <1>2, <1>3, <1>4, TrailStays DEF PairingInv

(* The session a poll or an inspection finds: the same, or expired.        *)
LEMMA ExpiryIsOfTheOpen ==
  ASSUME NEW t \in Nat, PairingInv
  PROVE  \/ expireIfRequired(t) = session
         \/ /\ session.status \in {"PENDING", "APPROVED"}
            /\ expireIfRequired(t) = [session EXCEPT !.status = "EXPIRED"]
  BY DEF expireIfRequired

(* pollPairing                                                             *)
LEMMA PollKeeps ==
  ASSUME PairingInv, NEW t \in asked, pollPairing(t) PROVE PairingInv'
  <1>1. t \in Nat
    BY DEF PairingInv, PairingRows
  <1> DEFINE now == expireIfRequired(t)
  <1>2. /\ asked' = {} /\ UNCHANGED <<clock, audit, passed>>
        /\ \/ session' = now /\ UNCHANGED <<device, told>>
           \/ /\ now.status = "CONSUMED" /\ UNCHANGED <<session, device>>
              /\ told' \subseteq told \cup {device.workspace}
           \/ /\ now.status \in {"PENDING", "APPROVED"}
              /\ session' = slowDown(t) /\ UNCHANGED <<device, told>>
           \/ session' = [now EXCEPT !.polledAt = t]
              /\ UNCHANGED <<device, told>>
           \/ now.status = "APPROVED" /\ consume(t)
    BY DEF pollPairing
  <1>3. /\ now \in [status : Statuses, workspace : Workspaces \cup {"none"},
                    approvedAt : Nat, polledAt : Nat, interval : Nat,
                    deliverUntil : Nat]
        /\ now.workspace = session.workspace
        /\ now.approvedAt = session.approvedAt
        /\ now.status = session.status
             \/ /\ session.status \in {"PENDING", "APPROVED"}
                /\ now.status = "EXPIRED"
    BY <1>1, ExpiryIsOfTheOpen DEF PairingInv, PairingRows, Statuses
  <1> HIDE DEF now
  <1>4. CASE session' = now /\ UNCHANGED <<device, told>>
    <2>1. PairingRows'
      BY <1>2, <1>3, <1>4 DEF PairingInv, PairingRows
    <2>2. DeviceOfSession'
      BY <1>2, <1>3, <1>4 DEF PairingInv, DeviceOfSession
    <2> QED
      BY <1>2, <1>4, <2>1, <2>2, TrailStays DEF PairingInv
  <1>5. CASE /\ now.status = "CONSUMED" /\ UNCHANGED <<session, device>>
             /\ told' \subseteq told \cup {device.workspace}
    <2>1. PairingRows'
      BY <1>2, <1>5 DEF PairingInv, PairingRows
    <2>2. DeviceOfSession'
      BY <1>2, <1>3, <1>5 DEF PairingInv, DeviceOfSession
    <2> QED
      BY <1>2, <1>5, <2>1, <2>2, TrailStays DEF PairingInv
  <1>6. CASE /\ now.status \in {"PENDING", "APPROVED"}
             /\ session' = slowDown(t) /\ UNCHANGED <<device, told>>
    <2>1. session' = [now EXCEPT !.polledAt = t, !.interval =
                        IF @ + 1 < MaxInterval THEN @ + 1 ELSE MaxInterval]
      BY <1>6 DEF slowDown, now
    <2>2. /\ session' \in [status : Statuses,
                           workspace : Workspaces \cup {"none"},
                           approvedAt : Nat, polledAt : Nat, interval : Nat,
                           deliverUntil : Nat]
          /\ session'.status = now.status
          /\ session'.workspace = now.workspace
          /\ session'.approvedAt = now.approvedAt
      <3> DEFINE k == IF now.interval + 1 < MaxInterval
                      THEN now.interval + 1 ELSE MaxInterval
      <3>1. k \in Nat
        BY <1>3, PairingAssumption
      <3>2. session' = [now EXCEPT !.polledAt = t, !.interval = k]
        BY <2>1
      <3> HIDE DEF k
      <3> QED
        BY <1>1, <1>3, <3>1, <3>2
    <2>3. PairingRows'
      BY <1>2, <1>6, <2>2 DEF PairingInv, PairingRows
    <2>4. DeviceOfSession'
      BY <1>2, <1>3, <1>6, <2>2 DEF PairingInv, DeviceOfSession
    <2> QED
      BY <1>2, <1>6, <2>3, <2>4, TrailStays DEF PairingInv
  <1>7. CASE session' = [now EXCEPT !.polledAt = t] /\ UNCHANGED <<device, told>>
    <2>1. PairingRows'
      BY <1>1, <1>2, <1>3, <1>7 DEF PairingInv, PairingRows
    <2>2. DeviceOfSession'
      BY <1>2, <1>3, <1>7 DEF PairingInv, DeviceOfSession
    <2> QED
      BY <1>2, <1>7, <2>1, <2>2, TrailStays DEF PairingInv
  <1>8. CASE now.status = "APPROVED" /\ consume(t)
    <2>1. /\ device' = [NoDevice EXCEPT !.workspace = session.workspace]
          /\ session' = [session EXCEPT !.status = "CONSUMED", !.polledAt = t,
                                        !.deliverUntil = t + Window]
          /\ told' = told \cup {session.workspace}
          /\ session.status = "APPROVED"
      BY <1>3, <1>8 DEF consume
    <2>2. t + Window \in Nat
      BY <1>1, PairingAssumption
    <2>3. PairingRows'
      BY <1>1, <1>2, <2>1, <2>2 DEF PairingInv, PairingRows, NoDevice, Statuses
    <2>4. DeviceOfSession'
      BY <1>2, <2>1 DEF PairingInv, PairingRows, DeviceOfSession, NoDevice
    <2>5. device = NoDevice
      BY <2>1 DEF PairingInv, DeviceOfSession
    <2> QED
      BY <1>2, <2>1, <2>3, <2>4, <2>5, TrailStays DEF PairingInv, NoDevice
  <1> QED
    BY <1>2, <1>4, <1>5, <1>6, <1>7, <1>8

(* A trail that fits revisions fits later ones.                            *)
LEMMA TrailGrows ==
  ASSUME NEW trail, NEW v, NEW sw \in Nat, NEW mode \in Nat,
         NEW unlock \in Nat, TrailOK(trail, v, sw, mode, unlock),
         NEW sw2 \in Nat, NEW mode2 \in Nat, NEW unlock2 \in Nat,
         sw <= sw2, mode <= mode2, unlock <= unlock2
  PROVE  TrailOK(trail, v, sw2, mode2, unlock2)
  <1>1. \A i \in 1..Len(trail) : trail[i] \in Events
    BY DEF TrailOK
  <1>2. \A i \in 1..Len(trail) : NotNewer(trail[i], sw2, mode2, unlock2)
    BY <1>1 DEF TrailOK, NotNewer, Events
  <1> QED
    BY <1>2 DEF TrailOK

(* heartbeat: every change is recorded under the revision it made.         *)
LEMMA HeartbeatKeeps ==
  ASSUME PairingInv, NEW v \in 1..2, NEW p \in 0..1,
         NEW m \in {"cli", "service"}, NEW u \in {"none", "key"},
         heartbeat(v, p, m, u)
  PROVE  PairingInv'
  <1> DEFINE sw == device.software + IF softwareChanged(v, p) THEN 1 ELSE 0
             rt == device.runtime + IF runtimeChanged(m, u) THEN 1 ELSE 0
             When(c, e) == IF c THEN <<e>> ELSE <<>>
             e1 == Event("version", sw, device.version, v)
             e2 == Event("mode", rt, device.mode, m)
             e3 == Event("unlock", rt, device.unlock, u)
             a1 == audit \o When(device.version # v, e1)
             a2 == a1 \o When(device.mode # m, e2)
             a3 == a2 \o When(device.unlock # u, e3)
  <1>1. /\ device' = [device EXCEPT !.version = v, !.protocol = p, !.mode = m,
                        !.unlock = u, !.software = sw, !.runtime = rt]
        /\ audit' = a3 /\ UNCHANGED <<clock, session, asked, told>>
    BY DEF heartbeat
  <1>2. /\ device.version \in {1, 2} /\ device.mode \in {"cli", "service"}
        /\ device.unlock \in {"none", "key"}
        /\ device.software \in Nat /\ device.runtime \in Nat
    BY DEF PairingInv, PairingRows
  <1>3. /\ sw \in Nat /\ rt \in Nat
        /\ device.software <= sw /\ device.runtime <= rt
        /\ device.version # v => device.software < sw
        /\ device.mode # m \/ device.unlock # u => device.runtime < rt
    BY <1>2 DEF softwareChanged, runtimeChanged
  <1> HIDE DEF sw, rt
  <1>0. sw <= sw /\ rt <= rt /\ device.runtime <= device.runtime
    BY <1>2, <1>3
  <1>4. /\ e1 \in Events /\ e1.kind = "version" /\ e1.rev = sw
        /\ e1.from = device.version /\ e1.to = v
        /\ e2 \in Events /\ e2.kind = "mode" /\ e2.rev = rt
        /\ e3 \in Events /\ e3.kind = "unlock" /\ e3.rev = rt
    BY <1>2, <1>3 DEF Event, Events
  <1> HIDE DEF e1, e2, e3
  <1>5. \A s \in Seq(Events), e \in Events : s \o <<e>> = Append(s, e)
    OBVIOUS
  <1>6. \A s \in Seq(Events) : s \o <<>> = s
    OBVIOUS
  <1>7. TrailOK(a1, v, sw, device.runtime, device.runtime)
    <2>1. TrailOK(audit, device.version, device.software, device.runtime,
                  device.runtime) /\ audit \in Seq(Events)
      BY DEF PairingInv, DeviceTrailOK, TrailOK
    <2>2. CASE device.version # v
      <3>1. a1 = Append(audit, e1)
        BY <1>4, <1>5, <2>1, <2>2
      <3> QED
        BY <1>2, <1>3, <1>4, <2>1, <2>2, <3>1, VersionAppended
    <2>3. CASE device.version = v
      <3>1. a1 = audit
        BY <1>6, <2>1, <2>3
      <3> QED
        BY <1>2, <1>3, <2>1, <2>3, <3>1, TrailGrows
    <2> QED
      BY <2>2, <2>3
  <1> HIDE DEF a1
  <1>8. TrailOK(a2, v, sw, rt, device.runtime)
    <2>1. a1 \in Seq(Events)
      BY <1>7 DEF TrailOK
    <2>2. CASE device.mode # m
      <3>1. a2 = Append(a1, e2)
        BY <1>4, <1>5, <2>1, <2>2
      <3> QED
        <4>1. TrailOK(Append(a1, e2), v, sw, rt, device.runtime)
          BY <1>0, <1>2, <1>3, <1>4, <1>7, <2>2, OtherAppended
        <4> QED
          BY <3>1, <4>1
    <2>3. CASE device.mode = m
      <3>1. a2 = a1
        BY <1>6, <2>1, <2>3
      <3> QED
        <4>1. TrailOK(a1, v, sw, rt, device.runtime)
          BY <1>0, <1>2, <1>3, <1>7, TrailGrows
        <4> QED
          BY <3>1, <4>1
    <2> QED
      BY <2>2, <2>3
  <1> HIDE DEF a2
  <1>9. TrailOK(a3, v, sw, rt, rt)
    <2>1. a2 \in Seq(Events)
      BY <1>8 DEF TrailOK
    <2>2. CASE device.unlock # u
      <3>1. a3 = Append(a2, e3)
        BY <1>4, <1>5, <2>1, <2>2
      <3> QED
        <4>1. TrailOK(Append(a2, e3), v, sw, rt, rt)
          BY <1>0, <1>2, <1>3, <1>4, <1>8, <2>2, OtherAppended
        <4> QED
          BY <3>1, <4>1
    <2>3. CASE device.unlock = u
      <3>1. a3 = a2
        BY <1>6, <2>1, <2>3
      <3> QED
        <4>1. TrailOK(a2, v, sw, rt, rt)
          BY <1>0, <1>2, <1>3, <1>8, TrailGrows
        <4> QED
          BY <3>1, <4>1
    <2> QED
      BY <2>2, <2>3
  <1>10. /\ device'.version = v /\ device'.software = sw
         /\ device'.runtime = rt /\ device'.workspace = device.workspace
    BY <1>1 DEF PairingInv, PairingRows
  <1>11. PairingRows'
    <2>1. v \in {1, 2} /\ p \in {0, 1}
      OBVIOUS
    <2>2. device' \in [workspace : Workspaces \cup {"none"},
                       revoked : BOOLEAN, version : {1, 2}, software : Nat,
                       protocol : {0, 1}, mode : {"cli", "service"},
                       unlock : {"none", "key"}, runtime : Nat]
      BY <1>1, <1>3, <2>1 DEF PairingInv, PairingRows
    <2> QED
      BY <1>1, <2>2 DEF PairingInv, PairingRows
  <1>12. DeviceOfSession'
    <2>1. session.status = "CONSUMED"
      BY DEF heartbeat, PairingInv, DeviceOfSession
    <2> QED
      BY <1>1, <1>10, <2>1 DEF heartbeat, PairingInv, DeviceOfSession
  <1>13. DeviceTrailOK'
    BY <1>1, <1>9, <1>10 DEF DeviceTrailOK
  <1> QED
    BY <1>11, <1>12, <1>13 DEF PairingInv

LEMMA PairingStepKeeps == PairingInv /\ [PairingNext]_rpVars => PairingInv'
  <1> SUFFICES ASSUME PairingInv, [PairingNext]_rpVars PROVE PairingInv'
    OBVIOUS
  <1>1. CASE UNCHANGED rpVars
    BY <1>1 DEF rpVars, PairingInv, PairingRows, DeviceOfSession,
                DeviceTrailOK
  <1>2. CASE PairingTick \/ poll \/ canActivate \/ heartbeatRefused
    <2>1. /\ UNCHANGED <<session, device, told, audit>>
          /\ clock' \in Nat /\ asked' \subseteq Nat
      <3>1. clock \in Nat /\ asked \subseteq Nat
        BY DEF PairingInv, PairingRows
      <3>2. CASE PairingTick
        BY <3>1, <3>2 DEF PairingTick
      <3>3. CASE poll
        BY <3>1, <3>3 DEF poll
      <3>4. CASE canActivate \/ heartbeatRefused
        BY <3>1, <3>4 DEF canActivate, heartbeatRefused
      <3> QED
        BY <1>2, <3>2, <3>3, <3>4
    <2>2. passed' => passed \/ Paired
      BY <1>2, Zenon DEF PairingTick, poll, canActivate, heartbeatRefused,
                         findRunnerAuthentication
    <2> QED
      BY <2>1, <2>2 DEF PairingInv, PairingRows, DeviceOfSession, DeviceTrailOK,
                  Paired
  <1>3. CASE createPairingSession
    <2>1. /\ session' = [NoSession EXCEPT !.status = "PENDING"]
          /\ session.status = "none"
          /\ UNCHANGED <<clock, device, asked, told, passed, audit>>
      BY <1>3 DEF createPairingSession
    <2>2. PairingRows'
      BY <2>1 DEF PairingInv, PairingRows, NoSession, Statuses
    <2>3. DeviceOfSession'
      BY <2>1 DEF PairingInv, DeviceOfSession, NoSession
    <2> QED
      BY <2>1, <2>2, <2>3, TrailStays DEF PairingInv
  <1>4. CASE inspectPairing
    <2>1. /\ session' = [session EXCEPT !.status = "EXPIRED"]
          /\ session.status \in {"PENDING", "APPROVED"}
          /\ UNCHANGED <<clock, device, asked, told, passed, audit>>
      BY <1>4 DEF inspectPairing, expireIfRequired
    <2>2. PairingRows'
      BY <2>1 DEF PairingInv, PairingRows, Statuses
    <2>3. DeviceOfSession'
      BY <2>1 DEF PairingInv, PairingRows, DeviceOfSession
    <2> QED
      BY <2>1, <2>2, <2>3, TrailStays DEF PairingInv
  <1>5. CASE revokeRunnerDevice
    <2>1. /\ device' = [device EXCEPT !.revoked = TRUE] /\ device # NoDevice
          /\ UNCHANGED <<clock, session, asked, told, passed, audit>>
      BY <1>5 DEF revokeRunnerDevice, Paired
    <2>2. PairingRows'
      BY <2>1 DEF PairingInv, PairingRows
    <2>3. DeviceOfSession'
      BY <2>1 DEF PairingInv, PairingRows, DeviceOfSession
    <2>4. /\ device'.version = device.version
          /\ device'.software = device.software
          /\ device'.runtime = device.runtime
      BY <2>1 DEF PairingInv, PairingRows
    <2> QED
      BY <2>1, <2>2, <2>3, <2>4, TrailStays DEF PairingInv
  <1> QED
    BY <1>1, <1>2, <1>3, <1>4, <1>5, DecisionKeeps, PollKeeps, HeartbeatKeeps
    DEF PairingNext

(* For any workspaces, moments, delays and polls: a device exists only for *)
(* an approval given in time, its first decision stands, its version       *)
(* history has no gap and no double, and a revoked device changes no more  *)
(* (approvePairing, pollPairing, heartbeat, revokeRunnerDevice).           *)
THEOREM PairedSoundly == PairingSpec => PairingIsSound
  <1>1. PairingSpec => []PairingInv
    BY PairingStarts, PairingStepKeeps, PTL DEF PairingSpec
  <1>2. PairingInv => DeviceComesFromATimelyApproval /\ VersionHistoryUnbroken
    BY DEF PairingInv, DeviceOfSession, DeviceTrailOK, TrailOK, Paired,
           DeviceComesFromATimelyApproval, VersionHistoryUnbroken
  <1>3. PairingInv /\ [PairingNext]_rpVars => [DecisionIsFinal]_rpVars
    <2> SUFFICES ASSUME PairingInv, PairingNext PROVE DecisionIsFinal
      OBVIOUS
    <2>1. CASE session' = session
      BY <2>1 DEF DecisionIsFinal
    <2>2. CASE createPairingSession
      BY <2>2 DEF createPairingSession, PairingInv, DeviceOfSession,
                  DecisionIsFinal
    <2>3. CASE inspectPairing
      BY <2>3 DEF inspectPairing, expireIfRequired, PairingInv, PairingRows,
                  DecisionIsFinal
    <2>4. ASSUME NEW w \in Workspaces, approvePairing(w) \/ denyPairing(w)
          PROVE  DecisionIsFinal
      BY <2>4 DEF approvePairing, denyPairing, Decidable, expireIfRequired,
                  PairingInv, PairingRows, DeviceOfSession, DecisionIsFinal
    <2>5. ASSUME NEW t \in asked, pollPairing(t) PROVE DecisionIsFinal
      BY <2>5 DEF pollPairing, expireIfRequired, slowDown, consume,
                  PairingInv, PairingRows, DecisionIsFinal
    <2> QED
      BY <2>1, <2>2, <2>3, <2>4, <2>5
      DEF PairingNext, PairingTick, poll, canActivate, heartbeatRefused,
          revokeRunnerDevice, heartbeat
  <1>4. PairingInv /\ [PairingNext]_rpVars => [RevokedDeviceIsFrozen]_rpVars
    <2> SUFFICES ASSUME PairingInv, PairingNext, device.revoked
                 PROVE  device' = device /\ audit' = audit
      BY DEF RevokedDeviceIsFrozen
    <2>1. session.status = "CONSUMED"
      BY DEF PairingInv, DeviceOfSession, NoDevice
    <2> QED
      BY <2>1
      DEF PairingNext, PairingTick, createPairingSession, inspectPairing,
          poll, approvePairing, denyPairing, pollPairing, expireIfRequired,
          consume, canActivate, heartbeatRefused, revokeRunnerDevice,
          heartbeat, StillTrusted
  <1> QED
    BY <1>1, <1>2, <1>3, <1>4, PTL DEF PairingSpec, PairingIsSound

-----------------------------------------------------------------------------
(* Rollouts                                                                *)

ReleaseStatuses == {"unknown", "available", "deprecated", "blocked"}
RolloutStatuses == {"none", "draft", "active", "paused", "completed",
                    "cancelled"}
StageStatuses ==
  {"pending", "active", "completed", "failed_review", "cancelled"}
Assignments ==
  [status : {"pending", "target_assigned", "converged", "rolled_back",
             "failed", "cancelled"}, baseline : Versions \cup {0}]

\* What the rows hold, rollout by rollout.
RolloutRows ==
  /\ release \in [Versions -> ReleaseStatuses]
  /\ rollout \in [Rollouts -> [status : RolloutStatuses,
       review : {"none", "target_release_blocked", "rolled_back", "failed"}]]
  /\ fleet \in [Fleet -> [version : Versions, desired : Versions \cup {0},
                          owner : Rollouts \cup {"none"}, revoked : BOOLEAN]]
StageRows ==
  /\ stage = [x \in Rollouts |-> stage[x]]
  /\ \A x \in Rollouts :
       /\ stage[x] = [k \in Stages(x) |-> stage[x][k]]
       /\ \A k \in Stages(x) : stage[x][k] \in StageStatuses
AssignmentRows ==
  /\ assignment = [x \in Rollouts |-> assignment[x]]
  /\ \A x \in Rollouts :
       /\ assignment[x] = [n \in Members(x) |-> assignment[x][n]]
       /\ \A n \in Members(x) : assignment[x][n] \in Assignments

Started == {"active", "completed", "failed_review"}

\* The rollout a Runner is bound to has started the Runner's stage.
OwnersFit ==
  \A n \in Fleet : fleet[n].owner # "none" =>
    LET x == fleet[n].owner IN
    /\ rollout[x].status \in {"active", "paused"}
    /\ fleet[n].desired = VersionOf[x]
    /\ n \in Members(x)
    /\ stage[x][StageOf(x, n)] \in Started

\* Stages start in order.  One that failed its review stopped the rollout,
\* and every Runner of a completed one converged.
StageFits(x, k) ==
  /\ stage[x][k] \in Started => \A j \in 1..(k - 1) :
       stage[x][j] \in {"completed", "failed_review", "cancelled"}
  /\ stage[x][k] = "failed_review" => rollout[x].review # "none"
  /\ stage[x][k] = "cancelled" => rollout[x].status = "cancelled"
  /\ stage[x][k] = "completed" =>
       \A n \in Plan[x][k] : assignment[x][n].status = "converged"
RolloutFits(x) ==
  /\ rollout[x].status # "none" => validateRolloutPlan(x)
  /\ rollout[x].status = "none" =>
       \A k \in Stages(x) : stage[x][k] = "pending"
  /\ rollout[x].status = "completed" =>
       \A k \in Stages(x) : stage[x][k] = "completed"
  /\ \A k \in Stages(x) : StageFits(x, k)
StagesFit == \A x \in Rollouts : RolloutFits(x)

RolloutInv ==
  /\ RolloutRows /\ StageRows /\ AssignmentRows
  /\ OwnersFit /\ StagesFit /\ ReviewStopsProgress

(* The stages of a rollout, and the one a Runner is in.                    *)
LEMMA StagesAreNumbered ==
  ASSUME NEW x \in Rollouts
  PROVE  /\ Stages(x) \subseteq Nat \ {0}
         /\ \A k \in Stages(x) : 1..(k - 1) \subseteq Stages(x)
         /\ \A k \in Stages(x) : Plan[x][k] \subseteq Members(x)
  <1>1. Stages(x) = 1..Len(Plan[x]) /\ Len(Plan[x]) \in Nat
    BY RolloutAssumption DEF Stages
  <1> QED
    BY <1>1 DEF Members

LEMMA StageOfMember ==
  ASSUME NEW x \in Rollouts, NEW n \in Members(x)
  PROVE  /\ StageOf(x, n) \in Stages(x) /\ n \in Plan[x][StageOf(x, n)]
         /\ n \in Fleet
         /\ validateRolloutPlan(x) =>
              \A k \in Stages(x) : n \in Plan[x][k] => k = StageOf(x, n)
  <1>1. \E k \in Stages(x) : n \in Plan[x][k]
    BY DEF Members
  <1>2. StageOf(x, n) \in Stages(x) /\ n \in Plan[x][StageOf(x, n)]
    BY <1>1 DEF StageOf
  <1>3. n \in Fleet
    BY <1>2, RolloutAssumption DEF Stages
  <1> QED
    BY <1>2, <1>3 DEF validateRolloutPlan

LEMMA RolloutStarts == RolloutInit => RolloutInv
  <1> SUFFICES ASSUME RolloutInit PROVE RolloutInv
    OBVIOUS
  <1>1. RolloutRows
    BY RolloutAssumption DEF RolloutInit, RolloutRows, ReleaseStatuses,
                             RolloutStatuses
  <1>2. StageRows /\ AssignmentRows
    BY DEF RolloutInit, StageRows, AssignmentRows, StageStatuses, Assignments
  <1>3. OwnersFit
    BY DEF RolloutInit, OwnersFit
  <1>4. StagesFit /\ ReviewStopsProgress
    BY DEF RolloutInit, StagesFit, RolloutFits, StageFits, Started,
           ReviewStopsProgress
  <1> QED
    BY <1>1, <1>2, <1>3, <1>4 DEF RolloutInv

(* importTrusted, create and the statuses an administrator sets.           *)
LEMMA ImportKeeps ==
  ASSUME RolloutInv, NEW v \in Versions, importTrusted(v) PROVE RolloutInv'
  <1>1. /\ release' = [release EXCEPT ![v] = "available"]
        /\ UNCHANGED <<rollout, stage, assignment, fleet>>
    BY DEF importTrusted
  <1>2. RolloutRows'
    BY <1>1 DEF RolloutInv, RolloutRows, ReleaseStatuses
  <1>3. ReviewStopsProgress'
    BY <1>1, RolloutAssumption
    DEF RolloutInv, RolloutRows, ReviewStopsProgress
  <1> QED
    BY <1>1, <1>2, <1>3
    DEF RolloutInv, StageRows, AssignmentRows, OwnersFit, StagesFit,
        RolloutFits, StageFits, validateRolloutPlan

LEMMA StatusKeeps ==
  ASSUME RolloutInv, NEW x \in Rollouts,
         \/ create(x)
         \/ \E s \in {"active", "paused"} : changeRolloutState(x, s)
  PROVE  RolloutInv'
  <1>1. PICK s \in {"draft", "active", "paused"} :
          /\ rollout' = [rollout EXCEPT ![x].status = s]
          /\ rollout[x].status \notin {"completed", "cancelled"}
          /\ s = "draft" => rollout[x].status = "none" /\ validateRolloutPlan(x)
          /\ s # "draft" => rollout[x].status \in {"draft", "active", "paused"}
          /\ s = "active" => Activatable(x)
          /\ UNCHANGED <<release, stage, assignment, fleet>>
    BY DEF create, changeRolloutState, rolloutTransitions, RolloutInv,
           RolloutRows, RolloutStatuses
  <1>2. RolloutRows'
    BY <1>1 DEF RolloutInv, RolloutRows, RolloutStatuses
  <1>3. /\ rollout'[x].status = s /\ rollout'[x].review = rollout[x].review
        /\ \A y \in Rollouts : y # x => rollout'[y] = rollout[y]
    BY <1>1 DEF RolloutInv, RolloutRows
  <1>4. \A n \in Fleet : fleet[n].owner = x => s # "draft"
    BY <1>1, RolloutAssumption DEF RolloutInv, OwnersFit
  <1>5. OwnersFit'
    BY <1>1, <1>3, <1>4, RolloutAssumption
    DEF RolloutInv, OwnersFit, RolloutRows
  <1>6. StagesFit'
    BY <1>1, <1>3 DEF RolloutInv, StagesFit, RolloutFits, StageFits,
                      validateRolloutPlan, Started
  <1>7. ReviewStopsProgress'
    BY <1>1, <1>3 DEF RolloutInv, ReviewStopsProgress, Activatable
  <1> QED
    BY <1>1, <1>2, <1>5, <1>6, <1>7 DEF RolloutInv, StageRows, AssignmentRows

(* changeStatus: the rollouts of a blocked release are paused for review.  *)
LEMMA BlockKeeps ==
  ASSUME RolloutInv, NEW v \in Versions, NEW s \in {"deprecated", "blocked"},
         changeStatus(v, s)
  PROVE  RolloutInv'
  <1> DEFINE hit == {x \in Rollouts : s = "blocked" /\ VersionOf[x] = v
                                      /\ rollout[x].status = "active"}
  <1>1. /\ release' = [release EXCEPT ![v] = s]
        /\ rollout' = [x \in Rollouts |->
                         IF x \in hit THEN Paused(x) ELSE rollout[x]]
        /\ stage' = [x \in Rollouts |-> [k \in Stages(x) |->
                       IF x \in hit /\ stage[x][k] = "active"
                       THEN "failed_review" ELSE stage[x][k]]]
        /\ UNCHANGED <<assignment, fleet>>
    BY DEF changeStatus
  <1>2. RolloutRows'
    BY <1>1 DEF RolloutInv, RolloutRows, ReleaseStatuses, RolloutStatuses,
                Paused
  <1>3. \A x \in Rollouts :
          IF x \in hit
          THEN /\ rollout[x].status = "active"
               /\ rollout'[x].status = "paused"
               /\ rollout'[x].review = "target_release_blocked"
          ELSE rollout'[x] = rollout[x]
    BY <1>1 DEF Paused
  <1>4. \A x \in Rollouts : \A k \in Stages(x) :
          stage'[x][k] = IF x \in hit /\ stage[x][k] = "active"
                         THEN "failed_review" ELSE stage[x][k]
    BY <1>1
  <1>5. StageRows'
    BY <1>1, <1>4 DEF RolloutInv, StageRows, StageStatuses
  <1>6. OwnersFit'
    <2> SUFFICES ASSUME NEW n \in Fleet, fleet[n].owner # "none"
                 PROVE  LET x == fleet[n].owner IN
                        /\ rollout'[x].status \in {"active", "paused"}
                        /\ fleet[n].desired = VersionOf[x]
                        /\ n \in Members(x)
                        /\ stage'[x][StageOf(x, n)] \in Started
      BY <1>1 DEF OwnersFit
    <2>1. fleet[n].owner \in Rollouts
      BY DEF RolloutInv, RolloutRows
    <2> QED
      BY <1>3, <1>4, <2>1, StageOfMember DEF RolloutInv, OwnersFit, Started
  <1>7. ReviewStopsProgress'
    BY <1>1, <1>3, RolloutAssumption
    DEF RolloutInv, RolloutRows, ReviewStopsProgress
  <1>8. StagesFit'
    <2> SUFFICES ASSUME NEW x \in Rollouts PROVE RolloutFits(x)'
      BY DEF StagesFit
    <2>1. RolloutFits(x)
      BY DEF RolloutInv, StagesFit
    <2>2. \A k \in Stages(x) : \A j \in 1..(k - 1) : j \in Stages(x)
      BY StagesAreNumbered
    <2> HIDE DEF hit
    <2>3. ASSUME NEW k \in Stages(x) PROVE StageFits(x, k)'
      <3>1. StageFits(x, k)
        BY <2>1 DEF RolloutFits
      <3>2. \A j \in 1..(k - 1) :
              stage[x][j] \in {"completed", "failed_review", "cancelled"}
                => stage'[x][j] = stage[x][j]
        BY <1>4, <2>2
      <3>3. stage'[x][k] \in Started => stage[x][k] \in Started
        BY <1>4 DEF Started
      <3> QED
        BY <1>1, <1>3, <1>4, <3>1, <3>2, <3>3 DEF StageFits
    <2> QED
      BY <1>3, <1>4, <2>1, <2>3 DEF RolloutFits, validateRolloutPlan
  <1> QED
    BY <1>1, <1>2, <1>5, <1>6, <1>7, <1>8 DEF RolloutInv, AssignmentRows

(* activateStage: the stages before it are done, and no later one started. *)
LEMMA ActivationKeeps ==
  ASSUME RolloutInv, NEW x \in Rollouts, NEW k \in Stages(x),
         activateStage(x, k)
  PROVE  RolloutInv'
  <1>1. /\ stage[x][k] \notin {"active", "completed"}
        /\ rollout[x].status = "active" /\ release[VersionOf[x]] = "available"
        /\ k > 1 => stage[x][k - 1] = "completed"
        /\ \A n \in Plan[x][k] : fleet[n].owner \in {"none", x}
        /\ fleet' = [n \in Fleet |->
             IF n \in Plan[x][k]
             THEN [fleet[n] EXCEPT !.desired = VersionOf[x], !.owner = x]
             ELSE fleet[n]]
        /\ assignment' = [assignment EXCEPT ![x] = [n \in Members(x) |->
             IF n \in Plan[x][k]
             THEN [status |-> "target_assigned", baseline |-> fleet[n].version]
             ELSE assignment[x][n]]]
        /\ stage' = [stage EXCEPT ![x][k] = "active"]
        /\ UNCHANGED <<release, rollout>>
    BY DEF activateStage, StageMayActivate, Free
  <1>2. /\ RolloutRows /\ StageRows /\ AssignmentRows /\ OwnersFit
        /\ ReviewStopsProgress /\ \A y \in Rollouts : RolloutFits(y)
    BY DEF RolloutInv, StagesFit
  <1>3. /\ \A y \in Rollouts : y # x => stage'[y] = stage[y]
        /\ stage'[x] = [stage[x] EXCEPT ![k] = "active"]
        /\ stage' = [y \in Rollouts |-> stage'[y]]
    BY <1>1, <1>2 DEF StageRows
  <1>4. /\ \A j \in Stages(x) :
             stage'[x][j] = IF j = k THEN "active" ELSE stage[x][j]
        /\ stage'[x] = [j \in Stages(x) |-> stage'[x][j]]
    BY <1>2, <1>3 DEF StageRows
  <1>5. /\ \A y \in Rollouts : y # x => assignment'[y] = assignment[y]
        /\ assignment'[x] = [n \in Members(x) |->
             IF n \in Plan[x][k]
             THEN [status |-> "target_assigned", baseline |-> fleet[n].version]
             ELSE assignment[x][n]]
        /\ assignment' = [y \in Rollouts |-> assignment'[y]]
    BY <1>1, <1>2 DEF AssignmentRows
  <1>6. StageRows'
    BY <1>2, <1>3, <1>4 DEF StageRows, StageStatuses
  <1>7. Plan[x][k] \subseteq Members(x) /\ Plan[x][k] \subseteq Fleet
    BY StagesAreNumbered, RolloutAssumption DEF Stages
  <1>8. AssignmentRows'
    <2>1. \A n \in Members(x) : assignment'[x][n] \in Assignments
      BY <1>2, <1>5, <1>7 DEF AssignmentRows, Assignments, RolloutRows
    <2>2. assignment'[x] = [n \in Members(x) |-> assignment'[x][n]]
      BY <1>5
    <2> QED
      BY <1>2, <1>5, <2>1, <2>2 DEF AssignmentRows
  <1>9. RolloutRows'
    BY <1>1, <1>2, RolloutAssumption DEF RolloutRows
  <1>10. validateRolloutPlan(x)
    BY <1>1, <1>2 DEF RolloutFits
  <1>11. \A j \in Stages(x) : stage[x][j] \in Started => j < k
    <2> SUFFICES ASSUME NEW j \in Stages(x), stage[x][j] \in Started,
                        k < j \/ k = j
                 PROVE  FALSE
      BY StagesAreNumbered
    <2>1. /\ stage[x][k] # "failed_review" /\ stage[x][k] # "cancelled"
      <3>1. rollout[x].review = "none"
        BY <1>1, <1>2 DEF ReviewStopsProgress
      <3>2. StageFits(x, k)
        BY <1>2 DEF RolloutFits
      <3> QED
        BY <1>1, <3>1, <3>2 DEF StageFits
    <2>2. CASE k = j
      BY <1>1, <2>1, <2>2 DEF Started
    <2>3. CASE k < j
      <3>1. k \in 1..(j - 1)
        BY <2>3, StagesAreNumbered
      <3> QED
        BY <1>1, <1>2, <2>1, <3>1 DEF RolloutFits, StageFits
    <2> QED
      BY <2>2, <2>3
  <1>12. OwnersFit'
    <2> SUFFICES ASSUME NEW n \in Fleet, fleet'[n].owner # "none"
                 PROVE  LET y == fleet'[n].owner IN
                        /\ rollout[y].status \in {"active", "paused"}
                        /\ fleet'[n].desired = VersionOf[y]
                        /\ n \in Members(y)
                        /\ stage'[y][StageOf(y, n)] \in Started
      BY <1>1 DEF OwnersFit
    <2>1. CASE n \in Plan[x][k]
      <3>1. fleet'[n].owner = x /\ fleet'[n].desired = VersionOf[x]
        BY <1>1, <1>2, <2>1 DEF RolloutRows
      <3>2. n \in Members(x) /\ k = StageOf(x, n)
        BY <1>7, <1>10, <2>1, StageOfMember
      <3> QED
        BY <1>1, <1>4, <3>1, <3>2 DEF Started
    <2>2. CASE n \notin Plan[x][k]
      <3>1. fleet'[n] = fleet[n] /\ fleet[n].owner \in Rollouts
        BY <1>1, <1>2, <2>2 DEF RolloutRows
      <3>2. /\ n \in Members(fleet[n].owner)
            /\ StageOf(fleet[n].owner, n) \in Stages(fleet[n].owner)
        BY <1>2, <3>1, StageOfMember DEF OwnersFit
      <3> QED
        BY <1>2, <1>3, <1>4, <3>1, <3>2 DEF OwnersFit, Started
    <2> QED
      BY <2>1, <2>2
  <1>13. RolloutFits(x)'
    <2>1. ASSUME NEW j \in Stages(x) PROVE StageFits(x, j)'
      <3>1. StageFits(x, j)
        BY <1>2 DEF RolloutFits
      <3>2. j \in Nat \ {0} /\ k \in Nat \ {0} /\ 1..(j - 1) \subseteq Stages(x)
        BY StagesAreNumbered
      <3>3. CASE j = k
        <4>1. \A i \in 1..(k - 1) : stage[x][i] \in
                {"completed", "failed_review", "cancelled"}
          <5> SUFFICES ASSUME NEW i \in 1..(k - 1) PROVE stage[x][i] \in
                {"completed", "failed_review", "cancelled"}
            OBVIOUS
          <5>0. k > 1 /\ k - 1 \in 1..(k - 1)
            BY <3>2
          <5>1. k - 1 \in 1..(k - 1) /\ stage[x][k - 1] = "completed"
            BY <1>1, <5>0
          <5>2. k - 1 \in Stages(x)
            BY <3>2, <3>3, <5>1
          <5>3. CASE i = k - 1
            BY <5>1, <5>3
          <5>4. CASE i # k - 1
            <6>1. i \in 1..((k - 1) - 1)
              BY <3>2, <5>4
            <6>2. StageFits(x, k - 1)
              BY <1>2, <5>2 DEF RolloutFits
            <6> QED
              BY <5>1, <6>1, <6>2 DEF StageFits, Started
          <5> QED
            BY <5>3, <5>4
        <4>2. \A i \in 1..(k - 1) : stage'[x][i] = stage[x][i]
          BY <1>4, <3>2, <3>3
        <4> QED
          BY <1>4, <3>3, <4>1, <4>2 DEF StageFits
      <3>4. CASE j # k
        <4>1. stage'[x][j] = stage[x][j]
          BY <1>4, <3>4
        <4>2. stage[x][j] \in Started =>
                \A i \in 1..(j - 1) : stage'[x][i] = stage[x][i]
          BY <1>4, <1>11, <3>2
        <4>3. \A n \in Plan[x][j] : n \in Members(x) /\ n \notin Plan[x][k]
          BY <1>10, <3>4, StagesAreNumbered DEF validateRolloutPlan
        <4>4. \A n \in Plan[x][j] : assignment'[x][n] = assignment[x][n]
          BY <1>5, <4>3
        <4> QED
          BY <1>1, <3>1, <4>1, <4>2, <4>4 DEF StageFits
      <3> QED
        BY <3>3, <3>4
    <2> QED
      BY <1>1, <1>10, <2>1 DEF RolloutFits, validateRolloutPlan
  <1>14. ASSUME NEW y \in Rollouts, y # x PROVE RolloutFits(y)'
    <2>1. stage'[y] = stage[y] /\ assignment'[y] = assignment[y]
      BY <1>3, <1>5, <1>14
    <2>2. rollout'[y] = rollout[y] /\ RolloutFits(y)
      BY <1>1, <1>2
    <2>3. \A j \in Stages(y) : StageFits(y, j)'
      BY <2>1, <2>2 DEF RolloutFits, StageFits
    <2> QED
      BY <2>1, <2>2, <2>3 DEF RolloutFits, validateRolloutPlan
  <1>15. ReviewStopsProgress'
    BY <1>1, <1>2 DEF ReviewStopsProgress
  <1> QED
    BY <1>6, <1>8, <1>9, <1>12, <1>13, <1>14, <1>15 DEF RolloutInv, StagesFit

(* cancel: the Runners of the rollout are released.                        *)
LEMMA CancelKeeps ==
  ASSUME RolloutInv, NEW x \in Rollouts, cancel(x) PROVE RolloutInv'
  <1>1. /\ rollout[x].status \in {"draft", "active", "paused"}
        /\ rollout' = [rollout EXCEPT ![x].status = "cancelled"]
        /\ fleet' = [n \in Fleet |->
             IF n \in Members(x) /\ fleet[n].owner = x
             THEN Released(x, n) ELSE fleet[n]]
        /\ assignment' = [assignment EXCEPT ![x] = [n \in Members(x) |->
             IF assignment[x][n].status \in Open
             THEN [assignment[x][n] EXCEPT !.status = "cancelled"]
             ELSE assignment[x][n]]]
        /\ stage' = [stage EXCEPT ![x] = [k \in Stages(x) |->
             IF stage[x][k] \in {"pending", "active", "failed_review"}
             THEN "cancelled" ELSE stage[x][k]]]
        /\ UNCHANGED release
    BY DEF cancel, rolloutTransitions, RolloutInv, RolloutRows,
           RolloutStatuses
  <1>2. /\ RolloutRows /\ StageRows /\ AssignmentRows /\ OwnersFit
        /\ ReviewStopsProgress /\ \A y \in Rollouts : RolloutFits(y)
    BY DEF RolloutInv, StagesFit
  <1>3. /\ rollout'[x].status = "cancelled"
        /\ rollout'[x].review = rollout[x].review
        /\ \A y \in Rollouts : y # x => rollout'[y] = rollout[y]
    BY <1>1, <1>2 DEF RolloutRows
  <1>4. /\ \A k \in Stages(x) : stage'[x][k] =
             IF stage[x][k] \in {"pending", "active", "failed_review"}
             THEN "cancelled" ELSE stage[x][k]
        /\ stage'[x] = [k \in Stages(x) |-> stage'[x][k]]
        /\ \A y \in Rollouts : y # x => stage'[y] = stage[y]
        /\ stage' = [y \in Rollouts |-> stage'[y]]
    BY <1>1, <1>2 DEF StageRows
  <1>5. /\ \A n \in Members(x) : assignment'[x][n] =
             IF assignment[x][n].status \in Open
             THEN [assignment[x][n] EXCEPT !.status = "cancelled"]
             ELSE assignment[x][n]
        /\ assignment'[x] = [n \in Members(x) |-> assignment'[x][n]]
        /\ \A y \in Rollouts : y # x => assignment'[y] = assignment[y]
        /\ assignment' = [y \in Rollouts |-> assignment'[y]]
    BY <1>1, <1>2 DEF AssignmentRows
  <1>6. StageRows'
    BY <1>2, <1>4 DEF StageRows, StageStatuses
  <1>7. AssignmentRows'
    <2>1. \A n \in Members(x) : assignment'[x][n] \in Assignments
      BY <1>2, <1>5 DEF AssignmentRows, Assignments
    <2> QED
      BY <1>2, <1>5, <2>1 DEF AssignmentRows
  <1>8. \A n \in Fleet :
          IF n \in Members(x) /\ fleet[n].owner = x
          THEN fleet'[n].owner = "none" ELSE fleet'[n] = fleet[n]
    BY <1>1, <1>2 DEF RolloutRows, Released
  <1>9. RolloutRows'
    <2>1. \A n \in Fleet : Released(x, n) \in
            [version : Versions, desired : Versions \cup {0},
             owner : Rollouts \cup {"none"}, revoked : BOOLEAN]
      <3> TAKE n \in Fleet
      <3> DEFINE want == IF assignment[x][n].status = "converged"
                         THEN fleet[n].desired ELSE 0
      <3>1. fleet[n] \in [version : Versions, desired : Versions \cup {0},
                          owner : Rollouts \cup {"none"}, revoked : BOOLEAN]
        BY <1>2 DEF RolloutRows
      <3>2. want \in Versions \cup {0}
        BY <3>1
      <3>3. Released(x, n)
              = [fleet[n] EXCEPT !.owner = "none", !.desired = want]
        BY DEF Released
      <3> HIDE DEF want
      <3> QED
        BY <3>1, <3>2, <3>3
    <2>2. fleet' \in [Fleet ->
            [version : Versions, desired : Versions \cup {0},
             owner : Rollouts \cup {"none"}, revoked : BOOLEAN]]
      BY <1>1, <1>2, <2>1 DEF RolloutRows
    <2>3. rollout' \in [Rollouts -> [status : RolloutStatuses, review :
            {"none", "target_release_blocked", "rolled_back", "failed"}]]
      BY <1>1, <1>2 DEF RolloutRows, RolloutStatuses
    <2> QED
      BY <1>1, <1>2, <2>2, <2>3 DEF RolloutRows
  <1>10. OwnersFit'
    <2> SUFFICES ASSUME NEW n \in Fleet, fleet'[n].owner # "none"
                 PROVE  LET y == fleet'[n].owner IN
                        /\ rollout'[y].status \in {"active", "paused"}
                        /\ fleet'[n].desired = VersionOf[y]
                        /\ n \in Members(y)
                        /\ stage'[y][StageOf(y, n)] \in Started
      BY DEF OwnersFit
    <2>1. fleet'[n] = fleet[n] /\ fleet[n].owner \in Rollouts
      BY <1>2, <1>8 DEF RolloutRows
    <2>2. fleet[n].owner # x
      BY <1>2, <1>8, <2>1 DEF OwnersFit
    <2> QED
      BY <1>2, <1>3, <1>4, <2>1, <2>2 DEF OwnersFit
  <1>11. RolloutFits(x)'
    <2>1. ASSUME NEW k \in Stages(x) PROVE StageFits(x, k)'
      <3>1. /\ stage[x][k] \in StageStatuses /\ StageFits(x, k)
            /\ \A j \in 1..(k - 1) : j \in Stages(x)
        BY <1>2, StagesAreNumbered DEF StageRows, RolloutFits
      <3>2. stage'[x][k] = "completed" \/ stage'[x][k] = "cancelled"
        BY <1>4, <3>1 DEF StageStatuses
      <3>3. stage'[x][k] = "completed" => stage[x][k] = "completed"
        BY <1>4
      <3>4. \A j \in 1..(k - 1) :
              stage[x][j] \in {"completed", "failed_review", "cancelled"} =>
                stage'[x][j] \in {"completed", "cancelled"}
        BY <1>4, <3>1
      <3>5. stage[x][k] = "completed" =>
              \A n \in Plan[x][k] : assignment'[x][n].status = "converged"
        BY <1>5, <3>1, StagesAreNumbered DEF StageFits, Open
      <3> QED
        BY <1>3, <3>1, <3>2, <3>3, <3>4, <3>5 DEF StageFits, Started
    <2>2. validateRolloutPlan(x)
      BY <1>1, <1>2 DEF RolloutFits
    <2> QED
      BY <1>3, <2>1, <2>2 DEF RolloutFits, validateRolloutPlan
  <1>12. ASSUME NEW y \in Rollouts, y # x PROVE RolloutFits(y)'
    <2>1. stage'[y] = stage[y] /\ assignment'[y] = assignment[y]
      BY <1>4, <1>5, <1>12
    <2>2. rollout'[y] = rollout[y] /\ RolloutFits(y)
      BY <1>2, <1>3, <1>12
    <2>3. \A j \in Stages(y) : StageFits(y, j)'
      BY <2>1, <2>2 DEF RolloutFits, StageFits
    <2> QED
      BY <2>1, <2>2, <2>3 DEF RolloutFits, validateRolloutPlan
  <1>13. ReviewStopsProgress'
    BY <1>1, <1>2, <1>3 DEF ReviewStopsProgress
  <1> QED
    BY <1>6, <1>7, <1>9, <1>10, <1>11, <1>12, <1>13 DEF RolloutInv, StagesFit

FleetRow == [version : Versions, desired : Versions \cup {0},
             owner : Rollouts \cup {"none"}, revoked : BOOLEAN]

(* A Runner that is revoked, or reports a version that decides nothing,    *)
(* keeps its rollout and its desired version.                              *)
LEMMA RunnerChangeKeeps ==
  ASSUME RolloutInv, NEW n \in Fleet, NEW v \in Versions,
         \/ fleet' = [fleet EXCEPT ![n].version = v]
         \/ fleet' = [fleet EXCEPT ![n].revoked = TRUE],
         UNCHANGED <<release, rollout, stage, assignment>>
  PROVE  RolloutInv'
  <1>1. RolloutRows'
    <2>1. /\ fleet \in [Fleet -> FleetRow] /\ RolloutRows
      BY DEF RolloutInv, RolloutRows, FleetRow
    <2>2. CASE fleet' = [fleet EXCEPT ![n].version = v]
      <3>1. [fleet[n] EXCEPT !.version = v] \in FleetRow
        BY <2>1 DEF FleetRow
      <3>2. fleet' = [fleet EXCEPT ![n] = [fleet[n] EXCEPT !.version = v]]
        BY <2>1, <2>2
      <3>3. fleet' \in [Fleet -> FleetRow]
        BY <2>1, <3>1, <3>2
      <3> QED
        BY <2>1, <3>3 DEF RolloutRows, FleetRow
    <2>3. CASE fleet' = [fleet EXCEPT ![n].revoked = TRUE]
      <3>1. [fleet[n] EXCEPT !.revoked = TRUE] \in FleetRow
        BY <2>1 DEF FleetRow
      <3>2. fleet' = [fleet EXCEPT ![n] = [fleet[n] EXCEPT !.revoked = TRUE]]
        BY <2>1, <2>3
      <3>3. fleet' \in [Fleet -> FleetRow]
        BY <2>1, <3>1, <3>2
      <3> QED
        BY <2>1, <3>3 DEF RolloutRows, FleetRow
    <2> QED
      BY <2>2, <2>3
  <1>2. \A m \in Fleet : /\ fleet'[m].owner = fleet[m].owner
                         /\ fleet'[m].desired = fleet[m].desired
    BY DEF RolloutInv, RolloutRows
  <1>3. OwnersFit'
    BY <1>2 DEF RolloutInv, OwnersFit
  <1>4. StagesFit'
    BY DEF RolloutInv, StagesFit, RolloutFits, StageFits, validateRolloutPlan
  <1> QED
    BY <1>1, <1>3, <1>4
    DEF RolloutInv, StageRows, AssignmentRows, ReviewStopsProgress

(* What a heartbeat says of a Runner that is bound to a rollout.           *)
LEMMA BoundRunner ==
  ASSUME RolloutInv, NEW n \in Fleet, fleet[n].owner # "none"
  PROVE  LET x == fleet[n].owner IN
         /\ x \in Rollouts /\ n \in Members(x)
         /\ rollout[x].status \in {"active", "paused"}
         /\ StageOf(x, n) \in Stages(x) /\ n \in Plan[x][StageOf(x, n)]
         /\ stage[x][StageOf(x, n)] \in Started
         /\ validateRolloutPlan(x)
         /\ \A j \in Stages(x) : j # StageOf(x, n) => n \notin Plan[x][j]
  <1>1. fleet[n].owner \in Rollouts /\ n \in Members(fleet[n].owner)
    BY DEF RolloutInv, RolloutRows, OwnersFit
  <1>2. /\ rollout[fleet[n].owner].status \in {"active", "paused"}
        /\ stage[fleet[n].owner][StageOf(fleet[n].owner, n)] \in Started
    BY DEF RolloutInv, OwnersFit
  <1>3. validateRolloutPlan(fleet[n].owner)
    BY <1>1, <1>2 DEF RolloutInv, StagesFit, RolloutFits
  <1> QED
    BY <1>1, <1>2, <1>3, StageOfMember

(* observeRolloutAssignment: a Runner converged.                           *)
LEMMA ConvergenceKeeps ==
  ASSUME RolloutInv, NEW n \in Fleet, NEW x, x = fleet[n].owner, x # "none",
         NEW v \in Versions, observeConverged(x, n, v), UNCHANGED release
  PROVE  RolloutInv'
  <1> DEFINE k == StageOf(x, n)
             as == [assignment[x] EXCEPT ![n].status = "converged"]
             met == StageHasConverged(x, k, as)
             stages == IF met THEN [stage[x] EXCEPT ![k] = "completed"]
                              ELSE stage[x]
             done == met /\ \A j \in Stages(x) : stages[j] = "completed"
  <1>1. /\ assignment' = [assignment EXCEPT ![x] = as]
        /\ stage' = [stage EXCEPT ![x] = stages]
        /\ rollout' = IF done THEN [rollout EXCEPT ![x].status = "completed"]
                              ELSE rollout
        /\ fleet' = [m \in Fleet |->
             LET seen == IF m = n THEN [fleet[m] EXCEPT !.version = v]
                                  ELSE fleet[m]
             IN IF done /\ seen.owner = x THEN [seen EXCEPT !.owner = "none"]
                                          ELSE seen]
    BY DEF observeConverged
  <1>2. /\ x \in Rollouts /\ n \in Members(x)
        /\ rollout[x].status \in {"active", "paused"}
        /\ k \in Stages(x) /\ n \in Plan[x][k] /\ stage[x][k] \in Started
        /\ validateRolloutPlan(x)
    BY BoundRunner
  <1>3. /\ RolloutRows /\ StageRows /\ AssignmentRows /\ OwnersFit
        /\ ReviewStopsProgress /\ \A y \in Rollouts : RolloutFits(y)
    BY DEF RolloutInv, StagesFit
  <1>4. /\ as = [m \in Members(x) |-> as[m]]
        /\ \A m \in Members(x) : as[m] \in Assignments
        /\ \A m \in Members(x) : m # n => as[m] = assignment[x][m]
        /\ as[n].status = "converged"
    <2> DEFINE old == assignment[x]
               new == [old[n] EXCEPT !.status = "converged"]
    <2>1. /\ old = [m \in Members(x) |-> old[m]]
          /\ \A m \in Members(x) : old[m] \in Assignments
      BY <1>2, <1>3 DEF AssignmentRows
    <2>2. as = [old EXCEPT ![n] = new]
      OBVIOUS
    <2> HIDE DEF old, as
    <2>3. new \in Assignments /\ new.status = "converged"
      BY <1>2, <2>1 DEF Assignments
    <2> HIDE DEF new
    <2>4. /\ as = [m \in Members(x) |-> IF m = n THEN new ELSE old[m]]
      BY <1>2, <2>1, <2>2
    <2> QED
      BY <1>2, <2>1, <2>3, <2>4 DEF old
  <1> HIDE DEF as
  <1>5. /\ stages = [j \in Stages(x) |-> stages[j]]
        /\ \A j \in Stages(x) :
             stages[j] = IF met /\ j = k THEN "completed" ELSE stage[x][j]
    <2> HIDE DEF met, k
    <2>1. stage[x] = [j \in Stages(x) |-> stage[x][j]]
      BY <1>2, <1>3 DEF StageRows
    <2> DEFINE old == stage[x]
    <2>2. stages = IF met THEN [old EXCEPT ![k] = "completed"] ELSE old
      OBVIOUS
    <2>3. old = [j \in Stages(x) |-> old[j]]
      BY <2>1
    <2> HIDE DEF old, stages
    <2>4. /\ stages = [j \in Stages(x) |-> stages[j]]
          /\ \A j \in Stages(x) :
               stages[j] = IF met /\ j = k THEN "completed" ELSE old[j]
      BY <1>2, <2>2, <2>3
    <2> QED
      BY <2>4 DEF old
  <1>6. met => \A m \in Plan[x][k] : as[m].status = "converged"
    BY DEF StageHasConverged
  <1> HIDE DEF k, met, stages
  <1>7. /\ assignment'[x] = as /\ stage'[x] = stages
        /\ assignment' = [y \in Rollouts |-> assignment'[y]]
        /\ stage' = [y \in Rollouts |-> stage'[y]]
        /\ \A y \in Rollouts : y # x =>
             assignment'[y] = assignment[y] /\ stage'[y] = stage[y]
    BY <1>1, <1>2, <1>3 DEF StageRows, AssignmentRows
  <1>8. StageRows' /\ AssignmentRows'
    <2>1. ASSUME NEW y \in Rollouts
          PROVE  /\ stage'[y] = [j \in Stages(y) |-> stage'[y][j]]
                 /\ \A j \in Stages(y) : stage'[y][j] \in StageStatuses
                 /\ assignment'[y] = [m \in Members(y) |-> assignment'[y][m]]
                 /\ \A m \in Members(y) : assignment'[y][m] \in Assignments
      <3>1. CASE y # x
        BY <1>3, <1>7, <3>1 DEF StageRows, AssignmentRows
      <3>2. CASE y = x
        <4>1. \A j \in Stages(x) : stages[j] \in StageStatuses
          BY <1>2, <1>3, <1>5 DEF StageRows, StageStatuses
        <4> QED
          BY <1>4, <1>5, <1>7, <3>2, <4>1
      <3> QED
        BY <3>1, <3>2
    <2> QED
      BY <1>7, <2>1 DEF StageRows, AssignmentRows
  <1>9. done => \A j \in Stages(x) : stages[j] = "completed"
    OBVIOUS
  <1> HIDE DEF done
  <1>10. /\ rollout'[x].review = rollout[x].review
         /\ rollout'[x].status = IF done THEN "completed"
                                         ELSE rollout[x].status
         /\ \A y \in Rollouts : y # x => rollout'[y] = rollout[y]
    BY <1>1, <1>2, <1>3 DEF RolloutRows
  <1>11. fleet' \in [Fleet -> FleetRow] /\
         \A m \in Fleet :
           /\ fleet'[m].desired = fleet[m].desired
           /\ fleet'[m].owner = IF done /\ fleet[m].owner = x THEN "none"
                                ELSE fleet[m].owner
    <2> DEFINE seen(m) == IF m = n THEN [fleet[m] EXCEPT !.version = v]
                                   ELSE fleet[m]
               next(m) == IF done /\ seen(m).owner = x
                          THEN [seen(m) EXCEPT !.owner = "none"] ELSE seen(m)
    <2>1. fleet' = [m \in Fleet |-> next(m)]
      BY <1>1
    <2>2. ASSUME NEW m \in Fleet
          PROVE  /\ seen(m) \in FleetRow /\ seen(m).owner = fleet[m].owner
                 /\ seen(m).desired = fleet[m].desired
      BY <1>3 DEF RolloutRows, FleetRow
    <2> HIDE DEF seen
    <2>3. ASSUME NEW m \in Fleet
          PROVE  /\ next(m) \in FleetRow
                 /\ next(m).desired = fleet[m].desired
                 /\ next(m).owner = IF done /\ fleet[m].owner = x THEN "none"
                                    ELSE fleet[m].owner
      <3>1. CASE done /\ fleet[m].owner = x
        BY <2>2, <3>1 DEF FleetRow
      <3>2. CASE ~(done /\ fleet[m].owner = x)
        BY <2>2, <3>2
      <3> QED
        BY <3>1, <3>2
    <2> HIDE DEF next
    <2>4. DOMAIN fleet' = Fleet /\ \A m \in Fleet : fleet'[m] = next(m)
      BY <2>1
    <2>5. fleet' \in [Fleet -> FleetRow]
      BY <2>1, <2>3
    <2> QED
      BY <2>3, <2>4, <2>5
  <1>12. RolloutRows'
    <2> DEFINE Row == [status : RolloutStatuses, review :
            {"none", "target_release_blocked", "rolled_back", "failed"}]
    <2>1. rollout' \in [Rollouts -> Row]
      <3>1. rollout \in [Rollouts -> Row]
        BY <1>3 DEF RolloutRows
      <3>2. [rollout[x] EXCEPT !.status = "completed"] \in Row
        BY <1>2, <3>1 DEF RolloutStatuses
      <3>3. rollout' \in {rollout, [rollout EXCEPT ![x] =
                             [rollout[x] EXCEPT !.status = "completed"]]}
        BY <1>1, <1>2, <3>1
      <3> HIDE DEF Row
      <3> QED
        BY <1>2, <3>1, <3>2, <3>3
    <2> QED
      BY <1>3, <1>11, <2>1 DEF RolloutRows, FleetRow
  <1>13. OwnersFit'
    <2> SUFFICES ASSUME NEW m \in Fleet, fleet'[m].owner # "none"
                 PROVE  LET y == fleet'[m].owner IN
                        /\ rollout'[y].status \in {"active", "paused"}
                        /\ fleet'[m].desired = VersionOf[y]
                        /\ m \in Members(y)
                        /\ stage'[y][StageOf(y, m)] \in Started
      BY DEF OwnersFit
    <2>1. /\ fleet'[m].owner = fleet[m].owner
          /\ fleet'[m].desired = fleet[m].desired
          /\ fleet[m].owner = x => ~done
          /\ fleet[m].owner \in Rollouts
      BY <1>3, <1>11 DEF RolloutRows
    <2>2. StageOf(fleet[m].owner, m) \in Stages(fleet[m].owner)
      BY <1>3, <2>1, StageOfMember DEF OwnersFit
    <2> QED
      BY <1>3, <1>5, <1>7, <1>10, <2>1, <2>2 DEF OwnersFit, Started
  <1>14. RolloutFits(x)'
    <2>1. RolloutFits(x)
      BY <1>2, <1>3
    <2>2. ASSUME NEW j \in Stages(x) PROVE StageFits(x, j)'
      <3>1. StageFits(x, j) /\ StageFits(x, k)
        BY <1>2, <2>1 DEF RolloutFits
      <3>2. /\ \A i \in 1..(j - 1) : i \in Stages(x)
            /\ Plan[x][j] \subseteq Members(x)
        BY <1>2, StagesAreNumbered
      <3>3. \A i \in 1..(j - 1) :
              stage[x][i] \in {"completed", "failed_review", "cancelled"} =>
              stage'[x][i] \in {"completed", "failed_review", "cancelled"}
        BY <1>5, <1>7, <3>2
      <3>4. stage'[x][j] \in Started => stage[x][j] \in Started
        BY <1>2, <1>5, <1>7
      <3>5. stage'[x][j] = "completed" =>
              \A m \in Plan[x][j] : assignment'[x][m].status = "converged"
        <4>1. CASE met /\ j = k
          BY <1>6, <1>7, <4>1
        <4>2. CASE ~(met /\ j = k)
          <5>1. stage'[x][j] = stage[x][j]
            BY <1>5, <1>7, <4>2
          <5>2. \A m \in Plan[x][j] : m \in Members(x)
                  /\ (m = n \/ assignment'[x][m] = assignment[x][m])
            BY <1>4, <1>7, <3>2
          <5>3. assignment'[x][n].status = "converged"
            BY <1>4, <1>7
          <5> QED
            BY <3>1, <5>1, <5>2, <5>3 DEF StageFits
        <4> QED
          BY <4>1, <4>2
      <3>6. /\ stage'[x][j] = "failed_review" => rollout'[x].review # "none"
            /\ stage'[x][j] # "cancelled"
        BY <1>2, <1>5, <1>7, <1>10, <3>1 DEF StageFits
      <3> QED
        BY <3>1, <3>3, <3>4, <3>5, <3>6 DEF StageFits
    <2> QED
      BY <1>2, <1>7, <1>9, <1>10, <2>2 DEF RolloutFits, validateRolloutPlan
  <1>15. ASSUME NEW y \in Rollouts, y # x PROVE RolloutFits(y)'
    <2>1. stage'[y] = stage[y] /\ assignment'[y] = assignment[y]
      BY <1>7, <1>15
    <2>2. rollout'[y] = rollout[y] /\ RolloutFits(y)
      BY <1>3, <1>10, <1>15
    <2>3. \A j \in Stages(y) : StageFits(y, j)'
      BY <2>1, <2>2 DEF RolloutFits, StageFits
    <2> QED
      BY <2>1, <2>2, <2>3 DEF RolloutFits, validateRolloutPlan
  <1>16. ReviewStopsProgress'
    BY <1>3, <1>10 DEF ReviewStopsProgress
  <1> QED
    BY <1>8, <1>12, <1>13, <1>14, <1>15, <1>16 DEF RolloutInv, StagesFit

(* observeRolloutAssignment: a converged Runner left the target.           *)
LEMMA DepartureKeeps ==
  ASSUME RolloutInv, NEW n \in Fleet, NEW x, x = fleet[n].owner, x # "none",
         NEW v \in Versions, NEW outcome \in {"rolled_back", "failed"},
         observeDeparture(x, n, v, outcome), UNCHANGED release
  PROVE  RolloutInv'
  <1> DEFINE k == StageOf(x, n)
  <1>1. /\ assignment' = [assignment EXCEPT ![x][n].status = outcome]
        /\ stage' = [stage EXCEPT ![x][k] = "failed_review"]
        /\ rollout' = [rollout EXCEPT ![x] = [status |-> "paused",
                                              review |-> outcome]]
        /\ fleet' = [fleet EXCEPT ![n].version = v]
    BY DEF observeDeparture
  <1>2. /\ x \in Rollouts /\ n \in Members(x)
        /\ rollout[x].status \in {"active", "paused"}
        /\ k \in Stages(x) /\ stage[x][k] \in Started
        /\ validateRolloutPlan(x)
        /\ \A j \in Stages(x) : j # k => n \notin Plan[x][j]
    BY BoundRunner
  <1>3. /\ RolloutRows /\ StageRows /\ AssignmentRows /\ OwnersFit
        /\ ReviewStopsProgress /\ \A y \in Rollouts : RolloutFits(y)
    BY DEF RolloutInv, StagesFit
  <1> HIDE DEF k
  <1>4. /\ assignment' = [y \in Rollouts |-> assignment'[y]]
        /\ assignment'[x] = [assignment[x] EXCEPT ![n] =
                               [assignment[x][n] EXCEPT !.status = outcome]]
        /\ \A y \in Rollouts : y # x => assignment'[y] = assignment[y]
    BY <1>1, <1>2, <1>3 DEF AssignmentRows
  <1>5. /\ stage' = [y \in Rollouts |-> stage'[y]]
        /\ stage'[x] = [stage[x] EXCEPT ![k] = "failed_review"]
        /\ \A y \in Rollouts : y # x => stage'[y] = stage[y]
    BY <1>1, <1>2, <1>3 DEF StageRows
  <1>6. /\ stage'[x] = [j \in Stages(x) |-> stage'[x][j]]
        /\ \A j \in Stages(x) : stage'[x][j] =
             IF j = k THEN "failed_review" ELSE stage[x][j]
    BY <1>2, <1>3, <1>5 DEF StageRows
  <1>7. /\ assignment'[x] = [m \in Members(x) |-> assignment'[x][m]]
        /\ \A m \in Members(x) : m # n => assignment'[x][m] = assignment[x][m]
        /\ assignment'[x][n] = [assignment[x][n] EXCEPT !.status = outcome]
    BY <1>2, <1>3, <1>4 DEF AssignmentRows
  <1>8. /\ rollout'[x] = [status |-> "paused", review |-> outcome]
        /\ \A y \in Rollouts : y # x => rollout'[y] = rollout[y]
    BY <1>1, <1>2, <1>3 DEF RolloutRows
  <1>9. /\ fleet' \in [Fleet -> FleetRow]
        /\ \A m \in Fleet : /\ fleet'[m].owner = fleet[m].owner
                            /\ fleet'[m].desired = fleet[m].desired
    BY <1>1, <1>3 DEF RolloutRows, FleetRow
  <1>10. StageRows'
    BY <1>2, <1>3, <1>5, <1>6 DEF StageRows, StageStatuses
  <1>11. AssignmentRows'
    <2>1. assignment'[x][n] \in Assignments
      BY <1>2, <1>3, <1>7 DEF AssignmentRows, Assignments
    <2>2. \A m \in Members(x) : assignment'[x][m] \in Assignments
      BY <1>2, <1>3, <1>7, <2>1 DEF AssignmentRows
    <2>3. \A y \in Rollouts \ {x} :
            /\ assignment'[y] = [m \in Members(y) |-> assignment'[y][m]]
            /\ \A m \in Members(y) : assignment'[y][m] \in Assignments
      BY <1>3, <1>4 DEF AssignmentRows
    <2> QED
      BY <1>4, <1>7, <2>2, <2>3 DEF AssignmentRows
  <1>12. RolloutRows'
    <2>1. rollout' \in [Rollouts -> [status : RolloutStatuses, review :
            {"none", "target_release_blocked", "rolled_back", "failed"}]]
      BY <1>1, <1>3 DEF RolloutRows, RolloutStatuses
    <2> QED
      BY <1>3, <1>9, <2>1 DEF RolloutRows, FleetRow
  <1>13. OwnersFit'
    <2> SUFFICES ASSUME NEW m \in Fleet, fleet'[m].owner # "none"
                 PROVE  LET y == fleet'[m].owner IN
                        /\ rollout'[y].status \in {"active", "paused"}
                        /\ fleet'[m].desired = VersionOf[y]
                        /\ m \in Members(y)
                        /\ stage'[y][StageOf(y, m)] \in Started
      BY DEF OwnersFit
    <2>1. /\ fleet'[m].owner = fleet[m].owner
          /\ fleet'[m].desired = fleet[m].desired
          /\ fleet[m].owner \in Rollouts
      BY <1>3, <1>9 DEF RolloutRows
    <2>2. StageOf(fleet[m].owner, m) \in Stages(fleet[m].owner)
      BY <1>3, <2>1, StageOfMember DEF OwnersFit
    <2> QED
      BY <1>3, <1>5, <1>6, <1>8, <2>1, <2>2 DEF OwnersFit, Started
  <1>14. RolloutFits(x)'
    <2>1. RolloutFits(x)
      BY <1>2, <1>3
    <2>2. ASSUME NEW j \in Stages(x) PROVE StageFits(x, j)'
      <3>1. StageFits(x, j) /\ StageFits(x, k)
        BY <1>2, <2>1 DEF RolloutFits
      <3>2. /\ \A i \in 1..(j - 1) : i \in Stages(x)
            /\ Plan[x][j] \subseteq Members(x)
        BY <1>2, StagesAreNumbered
      <3>3. \A i \in 1..(j - 1) :
              stage[x][i] \in {"completed", "failed_review", "cancelled"} =>
              stage'[x][i] \in {"completed", "failed_review", "cancelled"}
        BY <1>6, <3>2
      <3>4. stage'[x][j] \in Started => stage[x][j] \in Started
        BY <1>2, <1>6
      <3>5. stage'[x][j] = "completed" =>
              \A m \in Plan[x][j] : assignment'[x][m].status = "converged"
        <4> SUFFICES ASSUME stage'[x][j] = "completed", NEW m \in Plan[x][j]
                     PROVE  assignment'[x][m].status = "converged"
          OBVIOUS
        <4>1. j # k /\ stage[x][j] = "completed"
          BY <1>2, <1>6
        <4>2. assignment[x][m].status = "converged"
          BY <3>1, <4>1 DEF StageFits
        <4> QED
          BY <1>2, <1>6, <1>7, <3>1, <3>2, <4>1, <4>2 DEF StageFits
      <3>6. /\ rollout'[x].review # "none" /\ stage'[x][j] # "cancelled"
        BY <1>2, <1>6, <1>8, <3>1 DEF StageFits
      <3> QED
        BY <3>1, <3>3, <3>4, <3>5, <3>6 DEF StageFits
    <2> QED
      BY <1>2, <1>8, <2>2 DEF RolloutFits, validateRolloutPlan
  <1>15. ASSUME NEW y \in Rollouts, y # x PROVE RolloutFits(y)'
    <2>1. stage'[y] = stage[y] /\ assignment'[y] = assignment[y]
      BY <1>4, <1>5, <1>15
    <2>2. rollout'[y] = rollout[y] /\ RolloutFits(y)
      BY <1>3, <1>8, <1>15
    <2>3. \A j \in Stages(y) : StageFits(y, j)'
      BY <2>1, <2>2 DEF RolloutFits, StageFits
    <2> QED
      BY <2>1, <2>2, <2>3 DEF RolloutFits, validateRolloutPlan
  <1>16. ReviewStopsProgress'
    BY <1>3, <1>8 DEF ReviewStopsProgress
  <1> QED
    BY <1>10, <1>11, <1>12, <1>13, <1>14, <1>15, <1>16
    DEF RolloutInv, StagesFit

LEMMA RolloutStepKeeps == RolloutInv /\ [RolloutNext]_rrVars => RolloutInv'
  <1> SUFFICES ASSUME RolloutInv, [RolloutNext]_rrVars PROVE RolloutInv'
    OBVIOUS
  <1>1. CASE UNCHANGED rrVars
    BY <1>1 DEF rrVars, RolloutInv, RolloutRows, StageRows, AssignmentRows,
                OwnersFit, StagesFit, RolloutFits, StageFits,
                validateRolloutPlan, ReviewStopsProgress
  <1>2. ASSUME NEW n \in Fleet, NEW v \in Versions, heartbeatVersion(n, v)
        PROVE  RolloutInv'
    <2>1. \/ /\ fleet' = [fleet EXCEPT ![n].version = v]
             /\ UNCHANGED <<rollout, stage, assignment>>
          \/ /\ fleet[n].owner # "none"
             /\ \/ observeConverged(fleet[n].owner, n, v)
                \/ \E o \in {"rolled_back", "failed"} :
                     observeDeparture(fleet[n].owner, n, v, o)
      BY <1>2 DEF heartbeatVersion
    <2>2. UNCHANGED release
      BY <1>2 DEF heartbeatVersion
    <2> QED
      BY <2>1, <2>2, RunnerChangeKeeps, ConvergenceKeeps, DepartureKeeps
  <1>3. ASSUME NEW n \in Fleet, revokeFleetDevice(n) PROVE RolloutInv'
    BY <1>3, RolloutAssumption, RunnerChangeKeeps DEF revokeFleetDevice
  <1> QED
    BY <1>1, <1>2, <1>3, ImportKeeps, StatusKeeps, BlockKeeps,
       ActivationKeeps, CancelKeeps DEF RolloutNext

(* What deriveRunnerCompliance says, from any state.                       *)
LEMMA BlockedOrRolledBack == BlockedIsNeverCompliant
  <1> SUFFICES ASSUME NEW n \in Fleet, NEW compat, NEW draining \in BOOLEAN,
                      \/ release[fleet[n].version] = "blocked"
                      \/ /\ fleet[n].owner # "none"
                         /\ assignment[fleet[n].owner][n].status
                              = "rolled_back"
               PROVE  deriveRunnerCompliance(n, compat, draining)
                        \in {"unsupported", "rolled_back"}
    BY DEF BlockedIsNeverCompliant
  <1>1. CASE release[fleet[n].version] = "blocked"
    BY <1>1 DEF deriveRunnerCompliance
  <1>2. CASE release[fleet[n].version] # "blocked"
    BY <1>2 DEF deriveRunnerCompliance
  <1> QED
    BY <1>1, <1>2

(* For any fleet, plans and releases: a Runner is bound only to a rollout  *)
(* under way and wants its version, a review stops a rollout for good,     *)
(* stages converge in order, a converged Runner keeps its version, and a   *)
(* blocked release is never compliant (activateStage, changeRolloutState,  *)
(* observeRolloutAssignment, deriveRunnerCompliance).                      *)
THEOREM RolledOutSoundly == RolloutSpec => RolloutIsSound
  <1>1. RolloutSpec => []RolloutInv
    BY RolloutStarts, RolloutStepKeeps, PTL DEF RolloutSpec
  <1>2. RolloutInv => /\ OwnerIsUnderWay /\ ReviewStopsProgress
                      /\ StagesConvergeInOrder /\ BlockedIsNeverCompliant
    <2> SUFFICES ASSUME RolloutInv PROVE OwnerIsUnderWay /\ StagesConvergeInOrder
      BY BlockedOrRolledBack DEF RolloutInv
    <2>1. OwnerIsUnderWay
      BY DEF RolloutInv, OwnersFit, OwnerIsUnderWay
    <2>2. ASSUME NEW x \in Rollouts, rollout[x].status = "completed",
                 NEW n \in Members(x)
          PROVE  assignment[x][n].status = "converged"
      <3>1. StageOf(x, n) \in Stages(x) /\ n \in Plan[x][StageOf(x, n)]
        BY StageOfMember
      <3> QED
        BY <2>2, <3>1 DEF RolloutInv, StagesFit, RolloutFits, StageFits
    <2>3. StagesConvergeInOrder
      BY <2>2 DEF RolloutInv, StagesFit, RolloutFits, StageFits, Started,
                  StagesConvergeInOrder
    <2> QED
      BY <2>1, <2>3
  <1>3. RolloutInv /\ [RolloutNext]_rrVars
          => [ConvergedRunnersKeepTheirVersion]_rrVars
    <2> SUFFICES ASSUME RolloutInv, RolloutNext, NEW x \in Rollouts,
                        NEW n \in Fleet, fleet[n].owner = x,
                        fleet'[n].owner = "none", n \in Members(x),
                        assignment'[x][n].status = "converged"
                 PROVE  fleet'[n].desired = VersionOf[x]
      BY DEF ConvergedRunnersKeepTheirVersion
    <2>1. x # "none" /\ fleet[n].desired = VersionOf[x]
      BY RolloutAssumption DEF RolloutInv, OwnersFit
    <2> SUFFICES fleet'[n].desired = fleet[n].desired
      BY <2>1
    <2>2. CASE fleet' = fleet
      BY <2>2
    <2>3. ASSUME NEW y \in Rollouts, cancel(y)
          PROVE  fleet'[n].desired = fleet[n].desired
      <3>1. fleet' = [m \in Fleet |->
              IF m \in Members(y) /\ fleet[m].owner = y
              THEN Released(y, m) ELSE fleet[m]]
        BY <2>3 DEF cancel
      <3>2. CASE y # x
        BY <3>1, <3>2
      <3>3. CASE y = x
        <4>1. /\ \A m \in Members(x) :
                   assignment'[x][m] = IF assignment[x][m].status \in Open
                     THEN [assignment[x][m] EXCEPT !.status = "cancelled"]
                     ELSE assignment[x][m]
              /\ assignment[x][n] \in Assignments
          BY <2>3, <3>3 DEF cancel, RolloutInv, AssignmentRows
        <4>2. assignment[x][n].status = "converged"
          BY <4>1 DEF Assignments
        <4>3. fleet'[n] = Released(x, n)
          BY <3>1, <3>3
        <4> QED
          BY <4>2, <4>3 DEF Released, RolloutInv, RolloutRows
      <3> QED
        BY <3>2, <3>3
    <2>4. ASSUME NEW y \in Rollouts, NEW k \in Stages(y), activateStage(y, k)
          PROVE  FALSE
      BY <2>1, <2>4, RolloutAssumption
      DEF activateStage, RolloutInv, RolloutRows
    <2>5. ASSUME NEW m \in Fleet,
                 \/ revokeFleetDevice(m)
                 \/ \E v \in Versions : heartbeatVersion(m, v)
          PROVE  fleet'[n].desired = fleet[n].desired
      <3>1. CASE \E v \in Versions :
                   \/ fleet' = [fleet EXCEPT ![m].version = v]
                   \/ fleet' = [fleet EXCEPT ![m].revoked = TRUE]
        BY <3>1 DEF RolloutInv, RolloutRows
      <3>2. ASSUME NEW y, NEW v \in Versions, observeConverged(y, m, v)
            PROVE  fleet'[n].desired = fleet[n].desired
        <4>1. \E done \in BOOLEAN : fleet'[n] =
                LET seen == IF n = m THEN [fleet[n] EXCEPT !.version = v]
                            ELSE fleet[n]
                IN  IF done THEN [seen EXCEPT !.owner = "none"] ELSE seen
          BY <3>2 DEF observeConverged
        <4>2. fleet[n] \in FleetRow
          BY DEF RolloutInv, RolloutRows, FleetRow
        <4> QED
          BY <4>1, <4>2 DEF FleetRow
      <3> QED
        BY <2>5, <3>1, <3>2, RolloutAssumption
        DEF revokeFleetDevice, heartbeatVersion, observeDeparture
    <2> QED
      BY <2>2, <2>3, <2>4, <2>5
      DEF RolloutNext, importTrusted, changeStatus, create, changeRolloutState
  <1> QED
    BY <1>1, <1>2, <1>3, PTL DEF RolloutSpec, RolloutIsSound

-----------------------------------------------------------------------------
(* The editor                                                              *)

RowRecords == [definition : SUBSET Nat, revision : Nat,
               status : {"draft", "testing"}]
ActionRecords == [kind : {"save", "submit", "return"}, revision : Nat,
                  definition : SUBSET Nat]
Results == {"none", "success", "conflict", "error"}
ReplyRecords == [result : Results, revision : Nat, definition : SUBSET Nat]
PageRecords ==
  [definition : SUBSET Nat, revision : Nat, dirty : BOOLEAN,
   saveState : {"idle", "saving", "saved"} \cup Results,
   status : {"draft", "testing"}, queue : Seq(ActionRecords),
   reply : ReplyRecords]

\* An action was made of a state of the row that is at most as new as r: at
\* r's revision it holds all of r, what is submitted was stored, and a save
\* carries what the page must keep.
ActionFits(r, a, keeps) ==
  /\ a.revision <= r.revision
  /\ a.revision = r.revision => r.definition \subseteq a.definition
  /\ a.kind = "submit" => a.definition \subseteq r.definition
  /\ a.kind = "save" => keeps \subseteq a.definition \cup r.definition

\* The answer of a save is of a row that is at most as new as r.
ReplyFits(r, reply, keeps) ==
  /\ reply.revision <= r.revision
  /\ reply.revision = r.revision => reply.definition = r.definition
  /\ reply.definition \subseteq r.definition
  /\ keeps \subseteq r.definition

PageFits(r, pg, keeps) ==
  /\ pg.revision <= r.revision
  /\ pg.revision = r.revision => r.definition \subseteq pg.definition
  /\ ~pg.dirty => pg.definition \subseteq r.definition
  /\ keeps \subseteq pg.definition \cup r.definition
  /\ \A i \in 1..Len(pg.queue) : ActionFits(r, pg.queue[i], keeps)
  /\ pg.reply # NoReply => pg.queue # <<>>
  /\ pg.reply.result = "success" /\ Head(pg.queue).kind = "save"
       => ReplyFits(r, pg.reply, keeps)

EditorRows ==
  /\ row \in RowRecords
  /\ page \in [Pages -> PageRecords]
  /\ edits \in Nat
  /\ kept \in [Pages -> SUBSET Nat]

EditorInv ==
  /\ EditorRows
  /\ \A p \in Pages : PageFits(row, page[p], kept[p])

LEMMA EditorStarts == EditorInit => EditorInv
  <1> SUFFICES ASSUME EditorInit PROVE EditorInv
    OBVIOUS
  <1>1. EditorRows
    BY DEF EditorInit, EditorRows, RowRecords, PageRecords, ReplyRecords,
           Results, NoReply
  <1>2. ASSUME NEW p \in Pages PROVE PageFits(row, page[p], kept[p])
    <2>1. /\ row.definition = {} /\ row.revision = 1 /\ kept[p] = {}
          /\ page[p].definition = {} /\ page[p].revision = 1
          /\ page[p].queue = <<>> /\ page[p].reply = NoReply
      BY DEF EditorInit
    <2>2. Len(page[p].queue) = 0 /\ NoReply.result = "none"
      BY <2>1 DEF NoReply
    <2> QED
      BY <2>1, <2>2 DEF PageFits
  <1> QED
    BY <1>1, <1>2 DEF EditorInv

(* A row that is saved again keeps what the pages rely on.                 *)
LEMMA RowGrows ==
  ASSUME NEW r \in RowRecords, NEW s \in RowRecords, NEW pg \in PageRecords,
         NEW keeps, PageFits(r, pg, keeps),
         r.definition \subseteq s.definition,
         \/ s.revision = r.revision + 1
         \/ s.revision = r.revision /\ s.definition = r.definition
  PROVE  PageFits(s, pg, keeps)
  <1>1. /\ pg.revision \in Nat /\ pg.reply.revision \in Nat
        /\ \A i \in 1..Len(pg.queue) : pg.queue[i].revision \in Nat
        /\ r.revision \in Nat /\ s.revision \in Nat
    <2>1. \A i \in 1..Len(pg.queue) : pg.queue[i] \in ActionRecords
      BY DEF PageRecords
    <2> QED
      BY <2>1 DEF PageRecords, ReplyRecords, RowRecords, ActionRecords
  <1>2. ASSUME NEW i \in 1..Len(pg.queue)
        PROVE  ActionFits(s, pg.queue[i], keeps)
    <2>1. ActionFits(r, pg.queue[i], keeps)
      BY DEF PageFits
    <2> QED
      BY <1>1, <2>1 DEF ActionFits
  <1>3. ReplyFits(r, pg.reply, keeps) => ReplyFits(s, pg.reply, keeps)
    BY <1>1 DEF ReplyFits
  <1> QED
    BY <1>1, <1>2, <1>3 DEF PageFits

(* One step of one page: the row grows or stays, the page fits it again.   *)
LEMMA PageStep ==
  ASSUME EditorInv, NEW p \in Pages,
         row' \in RowRecords, row.definition \subseteq row'.definition,
         \/ row'.revision = row.revision + 1
         \/ /\ row'.revision = row.revision
            /\ row'.definition = row.definition,
         NEW pg \in PageRecords, page' = [page EXCEPT ![p] = pg],
         NEW k \in SUBSET Nat, kept' = [kept EXCEPT ![p] = k],
         edits' \in Nat, PageFits(row', pg, k)
  PROVE  EditorInv'
  <1>1. EditorRows'
    BY DEF EditorInv, EditorRows
  <1>2. ASSUME NEW q \in Pages PROVE PageFits(row', page'[q], kept'[q])
    <2>1. CASE q = p
      BY <2>1 DEF EditorInv, EditorRows
    <2>2. CASE q # p
      <3>1. page'[q] = page[q] /\ kept'[q] = kept[q]
        BY <2>2 DEF EditorInv, EditorRows
      <3>2. /\ PageFits(row, page[q], kept[q]) /\ row \in RowRecords
            /\ page[q] \in PageRecords
        BY DEF EditorInv, EditorRows
      <3> QED
        BY <3>1, <3>2, RowGrows
    <2> QED
      BY <2>1, <2>2
  <1> QED
    BY <1>1, <1>2 DEF EditorInv

(* What holds of the page before the step.                                 *)
LEMMA PageBefore ==
  ASSUME EditorInv, NEW p \in Pages
  PROVE  /\ row \in RowRecords /\ page[p] \in PageRecords
         /\ edits \in Nat /\ kept[p] \in SUBSET Nat
         /\ PageFits(row, page[p], kept[p])
         /\ kept = [kept EXCEPT ![p] = kept[p]]
         /\ page = [page EXCEPT ![p] = page[p]]
  BY DEF EditorInv, EditorRows

LEMMA ReloadKeeps ==
  ASSUME EditorInv, NEW p \in Pages, Reload(p) PROVE EditorInv'
  <1>1. /\ page' = [page EXCEPT ![p] = Loaded]
        /\ kept' = [kept EXCEPT ![p] = {}] /\ UNCHANGED <<row, edits>>
    BY DEF Reload
  <1>2. row \in RowRecords /\ edits \in Nat
    BY PageBefore
  <1>3. Loaded \in PageRecords
    BY <1>2 DEF Loaded, PageRecords, RowRecords, ReplyRecords, Results, NoReply
  <1>4. PageFits(row, Loaded, {})
    BY <1>2 DEF PageFits, Loaded, RowRecords, NoReply
  <1> HIDE DEF Loaded
  <1> QED
    BY <1>1, <1>2, <1>3, <1>4, PageStep

LEMMA EditKeeps ==
  ASSUME EditorInv, NEW p \in Pages, Edit(p) PROVE EditorInv'
  <1> DEFINE pg == [page[p] EXCEPT !.definition = @ \cup {edits + 1},
                      !.dirty = TRUE, !.saveState = "idle"]
             k == IF page[p].queue = <<>> THEN kept[p] \cup {edits + 1}
                  ELSE kept[p]
  <1>1. /\ row \in RowRecords /\ page[p] \in PageRecords /\ edits \in Nat
        /\ kept[p] \in SUBSET Nat /\ PageFits(row, page[p], kept[p])
    BY PageBefore
  <1>2. page' = [page EXCEPT ![p] = pg] /\ edits' = edits + 1
    BY DEF Edit
  <1>3. kept' = [kept EXCEPT ![p] = k]
    BY <1>2, PageBefore DEF Edit
  <1>4. pg \in PageRecords /\ k \in SUBSET Nat
    <2>1. edits + 1 \in Nat
      BY <1>1
    <2>2. page[p].definition \cup {edits + 1} \in SUBSET Nat
      BY <1>1, <2>1 DEF PageRecords
    <2>3. k \in SUBSET Nat
      BY <1>1, <2>1
    <2> QED
      BY <1>1, <2>2, <2>3 DEF PageRecords
  <1>5. /\ pg.revision = page[p].revision /\ pg.queue = page[p].queue
        /\ pg.reply = page[p].reply /\ pg.dirty
        /\ pg.definition = page[p].definition \cup {edits + 1}
    BY <1>1 DEF PageRecords
  <1> HIDE DEF pg
  <1>6. PageFits(row, pg, k)
    <2>1. CASE page[p].queue = <<>>
      <3>1. Len(page[p].queue) = 0 /\ page[p].reply = NoReply
        BY <1>1, <2>1 DEF PageFits
      <3>2. pg.reply.result # "success"
        BY <1>5, <3>1 DEF NoReply
      <3> QED
        BY <1>1, <1>5, <2>1, <3>1, <3>2 DEF PageFits
    <2>2. CASE page[p].queue # <<>>
      BY <1>1, <1>5, <2>2 DEF PageFits
    <2> QED
      BY <2>1, <2>2
  <1> HIDE DEF k
  <1>7. row' = row /\ edits' \in Nat
    BY <1>1, <1>2 DEF Edit
  <1> QED
    BY <1>1, <1>2, <1>3, <1>4, <1>6, <1>7, PageStep
(* An action that fits the row joins the queue.                            *)
LEMMA QueueAppended ==
  ASSUME NEW r, NEW pg \in PageRecords, NEW next \in PageRecords, NEW keeps,
         PageFits(r, pg, keeps), NEW a \in ActionRecords,
         ActionFits(r, a, keeps),
         next.definition = pg.definition, next.revision = pg.revision,
         next.dirty = pg.dirty, next.reply = pg.reply,
         next.queue = Append(pg.queue, a)
  PROVE  PageFits(r, next, keeps)
  <1>1. pg.queue \in Seq(ActionRecords) /\ Len(pg.queue) \in Nat
    BY DEF PageRecords
  <1>2. /\ Len(next.queue) = Len(pg.queue) + 1
        /\ \A i \in 1..Len(pg.queue) : next.queue[i] = pg.queue[i]
        /\ next.queue[Len(pg.queue) + 1] = a
        /\ next.queue # <<>>
    BY <1>1
  <1>3. pg.queue # <<>> => Head(next.queue) = Head(pg.queue)
    BY <1>1
  <1>4. \A i \in 1..Len(next.queue) : ActionFits(r, next.queue[i], keeps)
    BY <1>1, <1>2 DEF PageFits
  <1>5. pg.queue = <<>> => pg.reply.result # "success"
    BY DEF PageFits, NoReply
  <1> QED
    BY <1>2, <1>3, <1>4, <1>5 DEF PageFits

LEMMA ClickSaveKeeps ==
  ASSUME EditorInv, NEW p \in Pages, ClickSave(p) PROVE EditorInv'
  <1> DEFINE a == Action("save", p)
             pg == [page[p] EXCEPT !.saveState = "saving",
                                   !.queue = Append(page[p].queue, a)]
  <1>1. /\ row \in RowRecords /\ page[p] \in PageRecords /\ edits \in Nat
        /\ kept[p] \in SUBSET Nat /\ PageFits(row, page[p], kept[p])
        /\ kept = [kept EXCEPT ![p] = kept[p]]
    BY PageBefore
  <1>2. page' = [page EXCEPT ![p] = pg] /\ UNCHANGED <<row, edits, kept>>
    BY DEF ClickSave
  <1>3. a \in ActionRecords /\ ActionFits(row, a, kept[p])
    BY <1>1 DEF Action, ActionRecords, ActionFits, PageFits, PageRecords
  <1> HIDE DEF a
  <1>4. Append(page[p].queue, a) \in Seq(ActionRecords)
    BY <1>1, <1>3 DEF PageRecords
  <1>5. pg \in PageRecords
    BY <1>1, <1>4 DEF PageRecords
  <1>6. /\ pg.definition = page[p].definition /\ pg.dirty = page[p].dirty
        /\ pg.revision = page[p].revision /\ pg.reply = page[p].reply
        /\ pg.queue = Append(page[p].queue, a)
    BY <1>1 DEF PageRecords
  <1> HIDE DEF pg
  <1>7. PageFits(row, pg, kept[p])
    BY <1>1, <1>3, <1>5, <1>6, QueueAppended
  <1> QED
    BY <1>1, <1>2, <1>5, <1>7, PageStep

LEMMA ClickLifecycleKeeps ==
  ASSUME EditorInv, NEW p \in Pages, ClickLifecycle(p) PROVE EditorInv'
  <1>1. /\ row \in RowRecords /\ page[p] \in PageRecords /\ edits \in Nat
        /\ kept[p] \in SUBSET Nat /\ PageFits(row, page[p], kept[p])
        /\ kept = [kept EXCEPT ![p] = kept[p]]
    BY PageBefore
  <1>2. PICK kind \in {"submit", "return"} :
          /\ kind = "submit" => MaySubmit(p)
          /\ page' = [page EXCEPT ![p].queue = Append(@, Action(kind, p))]
    BY DEF ClickLifecycle
  <1> DEFINE a == Action(kind, p)
             pg == [page[p] EXCEPT !.queue = Append(page[p].queue, a)]
  <1>3. page' = [page EXCEPT ![p] = pg] /\ UNCHANGED <<row, edits, kept>>
    BY <1>2 DEF ClickLifecycle
  <1>4. a \in ActionRecords
    BY <1>1 DEF Action, ActionRecords, PageRecords
  <1>5. ActionFits(row, a, kept[p])
    BY <1>1, <1>2 DEF Action, ActionFits, PageFits, MaySubmit
  <1> HIDE DEF a
  <1>6. Append(page[p].queue, a) \in Seq(ActionRecords)
    BY <1>1, <1>4 DEF PageRecords
  <1>7. pg \in PageRecords
    BY <1>1, <1>6 DEF PageRecords
  <1>8. /\ pg.definition = page[p].definition /\ pg.dirty = page[p].dirty
        /\ pg.revision = page[p].revision /\ pg.reply = page[p].reply
        /\ pg.queue = Append(page[p].queue, a)
    BY <1>1 DEF PageRecords
  <1> HIDE DEF pg
  <1>9. PageFits(row, pg, kept[p])
    BY <1>1, <1>4, <1>5, <1>7, <1>8, QueueAppended
  <1> QED
    BY <1>1, <1>3, <1>7, <1>9, PageStep

(* A page whose reply changes, and nothing else of it.                     *)
LEMMA ReplyStep ==
  ASSUME EditorInv, NEW p \in Pages, NEW reply \in ReplyRecords,
         page' = [page EXCEPT ![p].reply = reply], UNCHANGED <<edits, kept>>,
         page[p].queue # <<>>, row' \in RowRecords,
         row.definition \subseteq row'.definition,
         \/ row'.revision = row.revision + 1
         \/ /\ row'.revision = row.revision
            /\ row'.definition = row.definition,
         reply.result = "success" /\ Head(page[p].queue).kind = "save"
           => ReplyFits(row', reply, kept[p])
  PROVE  EditorInv'
  <1> DEFINE pg == [page[p] EXCEPT !.reply = reply]
  <1>1. /\ row \in RowRecords /\ page[p] \in PageRecords /\ edits \in Nat
        /\ kept[p] \in SUBSET Nat /\ PageFits(row, page[p], kept[p])
        /\ kept = [kept EXCEPT ![p] = kept[p]]
    BY PageBefore
  <1>2. page' = [page EXCEPT ![p] = pg]
    OBVIOUS
  <1>3. pg \in PageRecords
    BY <1>1 DEF PageRecords
  <1>4. /\ pg.definition = page[p].definition /\ pg.dirty = page[p].dirty
        /\ pg.revision = page[p].revision /\ pg.reply = reply
        /\ pg.queue = page[p].queue
    BY <1>1 DEF PageRecords
  <1> HIDE DEF pg
  <1>5. PageFits(row', page[p], kept[p])
    BY <1>1, RowGrows
  <1>6. PageFits(row', pg, kept[p])
    BY <1>4, <1>5 DEF PageFits
  <1> QED
    BY <1>1, <1>2, <1>3, <1>6, PageStep

(* updateDraft: what is stored holds the row it was made of.               *)
LEMMA ExecuteSaveKeeps ==
  ASSUME EditorInv, NEW p \in Pages, Execute(p), ExecuteSave(p)
  PROVE  EditorInv'
  <1> DEFINE a == Head(page[p].queue)
             done == row.status = "draft" /\ CurrentRevision(a)
  <1>1. /\ row \in RowRecords /\ page[p] \in PageRecords
        /\ PageFits(row, page[p], kept[p]) /\ kept[p] \in SUBSET Nat
    BY PageBefore
  <1>2. /\ page[p].queue # <<>> /\ UNCHANGED <<edits, kept>>
        /\ a.kind = "save" /\ row' = IF done THEN Saved(a) ELSE row
    BY DEF Execute, ExecuteSave
  <1>3. a \in ActionRecords /\ ActionFits(row, a, kept[p])
    <2>1. page[p].queue \in Seq(ActionRecords)
      BY <1>1 DEF PageRecords
    <2>2. a = page[p].queue[1] /\ 1 \in 1..Len(page[p].queue)
      BY <1>2, <2>1
    <2> QED
      BY <1>1, <2>1, <2>2 DEF PageFits
  <1> HIDE DEF a
  <1>4. CASE done
    <2> DEFINE reply == [result |-> "success", revision |-> row'.revision,
                         definition |-> row'.definition]
    <2>1. page' = [page EXCEPT ![p].reply = reply]
      BY <1>4 DEF ExecuteSave, a
    <2>2. row' = [row EXCEPT !.definition = a.definition, !.revision = @ + 1]
      BY <1>2, <1>4 DEF Saved
    <2>3. /\ row' \in RowRecords /\ row'.revision = row.revision + 1
          /\ row'.definition = a.definition
      <3>1. a.definition \in SUBSET Nat
        BY <1>3 DEF ActionRecords
      <3>2. row.revision + 1 \in Nat
        BY <1>1 DEF RowRecords
      <3> QED
        BY <1>1, <2>2, <3>1, <3>2 DEF RowRecords
    <2>4. row.definition \subseteq a.definition
      BY <1>3, <1>4 DEF ActionFits, CurrentRevision
    <2>5. reply \in ReplyRecords
      BY <2>3 DEF ReplyRecords, RowRecords, Results
    <2>6. ReplyFits(row', reply, kept[p])
      BY <1>2, <1>3, <2>3, <2>4 DEF ReplyFits, ActionFits, RowRecords
    <2> HIDE DEF reply
    <2> QED
      BY <1>2, <2>1, <2>3, <2>4, <2>5, <2>6, ReplyStep
  <1>5. CASE ~done
    <2>1. PICK result \in {"error", "conflict"} :
            page' = [page EXCEPT ![p].reply = Reply(result)]
      BY <1>5 DEF ExecuteSave, a
    <2>2. /\ Reply(result) \in ReplyRecords
          /\ Reply(result).result # "success"
      BY DEF Reply, NoReply, ReplyRecords, Results
    <2>3. row' = row
      BY <1>2, <1>5
    <2> QED
      BY <1>1, <1>2, <2>1, <2>2, <2>3, ReplyStep
  <1> QED
    BY <1>4, <1>5

(* submitForTesting, returnToDraft, and an answer that is lost.            *)
LEMMA ExecuteLifecycleKeeps ==
  ASSUME EditorInv, NEW p \in Pages, Execute(p), ExecuteLifecycle(p)
  PROVE  EditorInv'
  <1>1. row \in RowRecords
    BY PageBefore
  <1>2. PICK result \in {"success", "conflict"} :
          page' = [page EXCEPT ![p].reply = Reply(result)]
    BY DEF ExecuteLifecycle
  <1>3. \/ row' = row
        \/ \E s \in {"testing", "draft"} : row' = [row EXCEPT !.status = s]
    BY DEF ExecuteLifecycle
  <1>4. /\ row' \in RowRecords /\ row'.revision = row.revision
        /\ row'.definition = row.definition
    BY <1>1, <1>3 DEF RowRecords
  <1>5. /\ page[p].queue # <<>> /\ UNCHANGED <<edits, kept>>
        /\ Head(page[p].queue).kind # "save"
    BY DEF Execute, ExecuteLifecycle
  <1>6. Reply(result) \in ReplyRecords
    BY DEF Reply, NoReply, ReplyRecords, Results
  <1> QED
    BY <1>2, <1>4, <1>5, <1>6, ReplyStep

LEMMA LoseKeeps ==
  ASSUME EditorInv, NEW p \in Pages, Lose(p) PROVE EditorInv'
  <1>1. row \in RowRecords
    BY PageBefore
  <1>2. /\ page[p].queue # <<>> /\ UNCHANGED <<row, edits, kept>>
        /\ page' = [page EXCEPT ![p].reply = Reply("error")]
    BY DEF Lose
  <1>3. Reply("error") \in ReplyRecords /\ Reply("error").result # "success"
    BY DEF Reply, NoReply, ReplyRecords, Results
  <1> QED
    BY <1>1, <1>2, <1>3, ReplyStep

(* The answer is applied: what the page then shows is the row of the save, *)
(* or what it showed before.                                               *)
LEMMA ReceiveKeeps ==
  ASSUME EditorInv, NEW p \in Pages, Receive(p) PROVE EditorInv'
  <1> DEFINE q == page[p].queue
             r == page[p].reply
             applied == IF Head(q).kind = "save" THEN AppliedSave(p, r)
                        ELSE AppliedLifecycle(p, r)
             pg == [applied EXCEPT !.queue = Tail(@), !.reply = NoReply]
  <1>1. /\ row \in RowRecords /\ page[p] \in PageRecords /\ edits \in Nat
        /\ kept[p] \in SUBSET Nat /\ PageFits(row, page[p], kept[p])
        /\ kept = [kept EXCEPT ![p] = kept[p]]
    BY PageBefore
  <1>2. /\ r # NoReply /\ page' = [page EXCEPT ![p] = pg]
        /\ UNCHANGED <<row, edits, kept>>
    BY DEF Receive
  <1>3. q # <<>> /\ q \in Seq(ActionRecords) /\ r \in ReplyRecords
    BY <1>1, <1>2 DEF PageFits, PageRecords
  <1>4. /\ Tail(q) \in Seq(ActionRecords) /\ Len(Tail(q)) = Len(q) - 1
        /\ \A i \in 1..Len(Tail(q)) : Tail(q)[i] = q[i + 1]
                                      /\ i + 1 \in 1..Len(q)
    BY <1>3
  <1>5. \A i \in 1..Len(Tail(q)) : ActionFits(row, Tail(q)[i], kept[p])
    BY <1>1, <1>4 DEF PageFits
  <1>6. NoReply \in ReplyRecords /\ NoReply.result # "success"
    BY DEF NoReply, ReplyRecords, Results
  <1>7. CASE Head(q).kind = "save" /\ r.result = "success"
    <2>1. ReplyFits(row, r, kept[p])
      BY <1>1, <1>7 DEF PageFits
    <2>2. pg = [page[p] EXCEPT !.definition = r.definition,
                  !.revision = r.revision, !.dirty = FALSE,
                  !.saveState = "saved", !.queue = Tail(q),
                  !.reply = NoReply]
      BY <1>1, <1>7 DEF AppliedSave, PageRecords
    <2>3. /\ r.definition \in SUBSET Nat /\ r.revision \in Nat
      BY <1>3 DEF ReplyRecords
    <2> HIDE DEF q, r, pg
    <2>4. pg \in PageRecords
      BY <1>1, <1>4, <1>6, <2>2, <2>3 DEF PageRecords
    <2>5. /\ pg.definition = r.definition /\ pg.revision = r.revision
          /\ pg.queue = Tail(q) /\ pg.reply = NoReply
      BY <1>1, <2>2 DEF PageRecords
    <2>6. PageFits(row, pg, kept[p])
      BY <1>5, <1>6, <2>1, <2>5 DEF PageFits, ReplyFits
    <2> QED
      BY <1>1, <1>2, <2>4, <2>6, PageStep
  <1>8. CASE ~(Head(q).kind = "save" /\ r.result = "success")
    <2>1. PICK state \in {"idle", "saving", "saved"} \cup Results,
               status \in {"draft", "testing"} :
            applied = [page[p] EXCEPT !.saveState = state, !.status = status]
      <3>1. /\ page[p].saveState \in {"idle", "saving", "saved"} \cup Results
            /\ page[p].status \in {"draft", "testing"}
            /\ row.status \in {"draft", "testing"} /\ r.result \in Results
        BY <1>1, <1>3 DEF PageRecords, RowRecords, ReplyRecords
      <3>2. CASE Head(q).kind = "save"
        <4>1. applied = [page[p] EXCEPT !.saveState = r.result,
                           !.status = page[p].status]
          BY <1>1, <1>8, <3>2 DEF AppliedSave, PageRecords
        <4> QED
          BY <3>1, <4>1
      <3>3. CASE Head(q).kind # "save"
        <4> DEFINE s == IF r.result = "success" THEN row.status
                        ELSE page[p].status
        <4>1. applied = [page[p] EXCEPT !.saveState = page[p].saveState,
                           !.status = s]
          BY <1>1, <3>3 DEF AppliedLifecycle, PageRecords
        <4>2. s \in {"draft", "testing"}
          BY <3>1
        <4> HIDE DEF s, applied
        <4> QED
          BY <3>1, <4>1, <4>2
      <3> QED
        BY <3>2, <3>3
    <2>2. pg = [page[p] EXCEPT !.saveState = state, !.status = status,
                  !.queue = Tail(q), !.reply = NoReply]
      BY <1>1, <2>1 DEF PageRecords
    <2> HIDE DEF q, r, pg, applied
    <2>3. pg \in PageRecords
      BY <1>1, <1>4, <1>6, <2>2 DEF PageRecords
    <2>4. /\ pg.definition = page[p].definition /\ pg.dirty = page[p].dirty
          /\ pg.revision = page[p].revision
          /\ pg.queue = Tail(q) /\ pg.reply = NoReply
      BY <1>1, <2>2 DEF PageRecords
    <2>5. PageFits(row, pg, kept[p])
      BY <1>1, <1>5, <1>6, <2>4 DEF PageFits
    <2> QED
      BY <1>1, <1>2, <2>3, <2>5, PageStep
  <1> QED
    BY <1>7, <1>8

LEMMA EditorStepKeeps == EditorInv /\ [EditorNext]_editorVars => EditorInv'
  <1> SUFFICES ASSUME EditorInv, [EditorNext]_editorVars PROVE EditorInv'
    OBVIOUS
  <1>1. CASE UNCHANGED editorVars
    BY <1>1 DEF editorVars, EditorInv, EditorRows
  <1>2. ASSUME NEW p \in Pages, Execute(p) PROVE EditorInv'
    BY <1>2, ExecuteSaveKeeps, ExecuteLifecycleKeeps DEF Execute
  <1> QED
    BY <1>1, <1>2, ReloadKeeps, EditKeeps, ClickSaveKeeps,
       ClickLifecycleKeeps, LoseKeeps, ReceiveKeeps DEF EditorNext

(* The action at the head of a page's queue fits the row.                  *)
LEMMA HeadFits ==
  ASSUME EditorInv, NEW p \in Pages, page[p].queue # <<>>
  PROVE  LET a == Head(page[p].queue) IN
         /\ a \in ActionRecords
         /\ a.revision = row.revision => row.definition \subseteq a.definition
         /\ a.kind = "submit" => a.definition \subseteq row.definition
  <1>1. /\ page[p].queue \in Seq(ActionRecords)
        /\ PageFits(row, page[p], kept[p])
    BY PageBefore DEF PageRecords
  <1>2. /\ Head(page[p].queue) = page[p].queue[1]
        /\ Head(page[p].queue) \in ActionRecords
        /\ 1 \in 1..Len(page[p].queue)
    BY <1>1
  <1> QED
    BY <1>1, <1>2 DEF PageFits, ActionFits

(* For any pages, edits and lost answers: a save never undoes one that was *)
(* stored, a page that says "Saved" shows what is stored, changes made     *)
(* while no action ran are kept, and what is tested is what was shown      *)
(* (updateDraft, submitForTesting, the editor's save state).               *)
THEOREM EditsKept == EditorSpec => EditsAreKept
  <1>1. EditorSpec => []EditorInv
    BY EditorStarts, EditorStepKeeps, PTL DEF EditorSpec
  <1>2. EditorInv => SavedMeansStored /\ LocalChangesKept
    BY DEF EditorInv, PageFits, SavedMeansStored, LocalChangesKept
  <1>3. EditorInv /\ [EditorNext]_editorVars
          => [SavesAccumulate /\ SubmitsWhatIsShown]_editorVars
    <2> SUFFICES ASSUME EditorInv, EditorNext
                 PROVE  SavesAccumulate /\ SubmitsWhatIsShown
      OBVIOUS
    <2>1. CASE row' = row
      BY <2>1 DEF SavesAccumulate, SubmitsWhatIsShown
    <2>2. ASSUME NEW p \in Pages, Execute(p)
          PROVE  SavesAccumulate /\ SubmitsWhatIsShown
      <3> DEFINE a == Head(page[p].queue)
      <3>1. /\ page[p].queue # <<>> /\ row \in RowRecords
            /\ a \in ActionRecords
            /\ a.revision = row.revision =>
                 row.definition \subseteq a.definition
            /\ a.kind = "submit" => a.definition \subseteq row.definition
        BY <2>2, HeadFits, PageBefore DEF Execute
      <3>2. CASE ExecuteSave(p)
        <4>1. \/ row' = row
              \/ /\ row.revision = a.revision
                 /\ row' = [row EXCEPT !.definition = a.definition,
                                       !.revision = @ + 1]
          BY <3>2 DEF ExecuteSave, CurrentRevision, Saved
        <4> HIDE DEF a
        <4>2. row.definition \subseteq row'.definition
          BY <3>1, <4>1 DEF RowRecords
        <4>3. row'.status = row.status
          BY <3>1, <4>1 DEF RowRecords
        <4> QED
          BY <4>2, <4>3 DEF SavesAccumulate, SubmitsWhatIsShown
      <3>3. CASE ExecuteLifecycle(p)
        <4>1. \/ row' = row
              \/ /\ row.revision = a.revision /\ a.kind = "submit"
                 /\ row' = [row EXCEPT !.status = "testing"]
              \/ row' = [row EXCEPT !.status = "draft"]
          BY <3>3 DEF ExecuteLifecycle
        <4>2. row'.definition = row.definition
          BY <3>1, <4>1 DEF RowRecords
        <4>3. row.status = "draft" /\ row'.status = "testing" =>
                a.kind = "submit" /\ a.definition = row'.definition
          BY <3>1, <4>1, <4>2 DEF RowRecords
        <4> QED
          BY <3>1, <4>2, <4>3 DEF SavesAccumulate, SubmitsWhatIsShown
      <3> QED
        BY <2>2, <3>2, <3>3 DEF Execute
    <2> QED
      BY <2>1, <2>2 DEF EditorNext, Reload, Edit, ClickSave, ClickLifecycle,
                        Lose, Receive
  <1> QED
    BY <1>1, <1>2, <1>3, PTL DEF EditorSpec, EditsAreKept

-----------------------------------------------------------------------------
(* Recordings and the drafts made of them                                  *)

RecordingRecords ==
  [status : {"receiving", "completed"}, declared : Declarations,
   receivedEventCount : Nat, receivedMinSequence : Nat,
   receivedMaxSequence : Nat]

BatchIsStored(b) ==
  \A i \in DOMAIN EventsOf(b) : i \in DOMAIN rows /\ rows[i] = EventsOf(b)[i]

\* The rows are distinct, and the counter counts them.
RowsFit ==
  /\ recording = NoRecording \/ recording \in RecordingRecords
  /\ IsFiniteSet(DOMAIN rows)
  /\ \A i, j \in DOMAIN rows : rows[i] = rows[j] => i = j
  /\ recording = NoRecording => rows = <<>>
  /\ recording # NoRecording =>
       recording.receivedEventCount = Cardinality(DOMAIN rows)
  /\ recording.status = "completed" => ValidatedArtifact

\* A known batch is stored, so a repeat of it may be accepted.
BatchesFit ==
  /\ \A id \in DOMAIN batches : BatchIsStored(batches[id])
  /\ \A b \in accepted : BatchIsStored(b)

\* What a conversion has read is the recording, for good.
ConversionFits(r) ==
  r.stage = "converted" =>
    r.source = rows /\ recording.status = "completed" /\ r.name \in Names

DraftsFit ==
  /\ workflow \in Seq(Names)
  /\ OneDraftPerRequest /\ DraftTellsTheRecording
  /\ DOMAIN request = Converters
  /\ \A u \in Converters : ConversionFits(request[u])

RecordingInv == RowsFit /\ BatchesFit /\ DraftsFit

\* A function that is one to one has as many values as arguments.
LEMMA CountedRange ==
  ASSUME NEW f, IsFiniteSet(DOMAIN f),
         \A i, j \in DOMAIN f : f[i] = f[j] => i = j
  PROVE  Cardinality(Range(f)) = Cardinality(DOMAIN f)
  <1> DEFINE g == [i \in DOMAIN f |-> f[i]]
  <1>1. /\ g \in Surjection(DOMAIN f, Range(f))
        /\ g \in Injection(DOMAIN f, Range(f))
    BY DEF Surjection, Injection, IsInjective, Range
  <1>2. g \in Bijection(DOMAIN f, Range(f))
    BY <1>1 DEF Bijection
  <1>3. ExistsBijection(DOMAIN f, Range(f))
    BY <1>2 DEF ExistsBijection
  <1> QED
    BY <1>3, FS_Bijection

LEMMA RecordingStarts == RecordingInit => RecordingInv
  <1> SUFFICES ASSUME RecordingInit PROVE RecordingInv
    OBVIOUS
  <1>1. RowsFit
    BY FS_EmptySet DEF RecordingInit, RowsFit, NoRecording
  <1>2. BatchesFit
    BY DEF RecordingInit, BatchesFit
  <1>3. DraftsFit
    BY DEF RecordingInit, DraftsFit, OneDraftPerRequest,
           DraftTellsTheRecording, ConversionFits, NoRequest
  <1> QED
    BY <1>1, <1>2, <1>3 DEF RecordingInv

\* A step that leaves the recording and its rows alone.
LEMMA RowsStay ==
  ASSUME RowsFit, UNCHANGED <<recording, rows>> PROVE RowsFit'
  BY DEF RowsFit, ValidatedArtifact, createRecordingPrivacySummary

LEMMA BatchesStay ==
  ASSUME BatchesFit, UNCHANGED <<rows, batches, accepted>> PROVE BatchesFit'
  BY DEF BatchesFit, BatchIsStored

LEMMA DraftsStay ==
  ASSUME DraftsFit, UNCHANGED <<rows, request, conversions, workflow>>,
         recording.status = "completed" => recording'.status = "completed"
  PROVE  DraftsFit'
  BY DEF DraftsFit, ConversionFits, OneDraftPerRequest, DraftTellsTheRecording

\* Nothing was converted yet of a recording that is not completed.
LEMMA NothingConverted ==
  ASSUME DraftsFit, recording.status # "completed"
  PROVE  /\ conversions = {}
         /\ \A u \in Converters : request[u].stage # "converted"
  BY DEF DraftsFit, DraftTellsTheRecording, ConversionFits

LEMMA CreateSessionKeeps ==
  ASSUME RecordingInv, createSession PROVE RecordingInv'
  <1>1. /\ recording = NoRecording /\ rows = <<>> /\ DOMAIN rows = {}
        /\ UNCHANGED <<rows, batches, accepted, request, conversions, workflow>>
    BY DEF createSession, RecordingInv, RowsFit
  <1>2. /\ recording' \in RecordingRecords /\ recording'.status = "receiving"
        /\ recording'.receivedEventCount = 0
    BY DEF createSession, RecordingRecords
  <1>3. RowsFit'
    BY <1>1, <1>2, FS_EmptySet DEF RowsFit, RecordingRecords, NoRecording
  <1>4. BatchesFit' /\ DraftsFit'
    BY <1>1, BatchesStay, DraftsStay DEF RecordingInv, NoRecording
  <1> QED
    BY <1>3, <1>4 DEF RecordingInv

LEMMA RepeatBatchKeeps ==
  ASSUME RecordingInv, NEW b \in RecordingEventBatches, repeatBatch(b)
  PROVE  RecordingInv'
  <1>1. BatchIsStored(b)
    BY DEF repeatBatch, KnownBatch, RecordingInv, BatchesFit
  <1>2. BatchesFit'
    BY <1>1 DEF repeatBatch, RecordingInv, BatchesFit, BatchIsStored
  <1>3. RowsFit' /\ DraftsFit'
    BY RowsStay, DraftsStay DEF repeatBatch, RecordingInv
  <1> QED
    BY <1>2, <1>3 DEF RecordingInv

\* The events of a batch, by their sequence.
LEMMA BatchShape ==
  ASSUME NEW b \in RecordingEventBatches
  PROVE  /\ b.firstSequence \in 1..MaxEvents /\ Len(b.events) \in Nat
         /\ b.events \in Seq(EventIds)
         /\ DOMAIN EventsOf(b) = b.firstSequence..LastSequence(b)
         /\ LastSequence(b) \in Int /\ b.firstSequence \in Int
         /\ \A i, j \in DOMAIN EventsOf(b) :
              EventsOf(b)[i] = EventsOf(b)[j] => i = j
         /\ \A i \in DOMAIN EventsOf(b) : EventsOf(b)[i] \in Range(b.events)
         /\ IsFiniteSet(DOMAIN EventsOf(b))
         /\ Cardinality(DOMAIN EventsOf(b)) = Len(b.events)
  <1>1. /\ b.firstSequence \in 1..MaxEvents /\ IsInjective(b.events)
        /\ b.events \in SeqOf(EventIds, MaxEvents)
    BY DEF RecordingEventBatches
  <1>2. b.events \in Seq(EventIds)
    <2>1. PICK m \in 0..MaxEvents : b.events \in [1..m -> EventIds]
      BY <1>1, RecordingAssumption DEF SeqOf
    <2> QED
      BY <2>1, RecordingAssumption
  <1>3. /\ Len(b.events) \in Nat /\ DOMAIN b.events = 1..Len(b.events)
        /\ b.firstSequence \in Int
    BY <1>1, <1>2, RecordingAssumption
  <1>4. /\ LastSequence(b) = b.firstSequence + Len(b.events) - 1
        /\ LastSequence(b) \in Int
        /\ DOMAIN EventsOf(b) = b.firstSequence..LastSequence(b)
        /\ \A i \in DOMAIN EventsOf(b) :
             /\ i - b.firstSequence + 1 \in DOMAIN b.events
             /\ EventsOf(b)[i] = b.events[i - b.firstSequence + 1]
    BY <1>3 DEF LastSequence, EventsOf
  <1>5. \A i, j \in DOMAIN EventsOf(b) :
          EventsOf(b)[i] = EventsOf(b)[j] => i = j
    <2> SUFFICES ASSUME NEW i \in DOMAIN EventsOf(b),
                        NEW j \in DOMAIN EventsOf(b),
                        EventsOf(b)[i] = EventsOf(b)[j]
                 PROVE  i = j
      OBVIOUS
    <2>1. i - b.firstSequence + 1 = j - b.firstSequence + 1
      BY <1>1, <1>4 DEF IsInjective
    <2>2. i \in Int /\ j \in Int
      BY <1>3, <1>4
    <2> QED
      BY <1>3, <2>1, <2>2
  <1>6. \A i \in DOMAIN EventsOf(b) : EventsOf(b)[i] \in Range(b.events)
    BY <1>4 DEF Range
  <1>7. /\ IsFiniteSet(DOMAIN EventsOf(b))
        /\ Cardinality(DOMAIN EventsOf(b)) = Len(b.events)
    <2> DEFINE a == b.firstSequence
               z == LastSequence(b)
    <2>1. a \in Int /\ z \in Int /\ DOMAIN EventsOf(b) = a..z
          /\ z = a + Len(b.events) - 1
      BY <1>3, <1>4
    <2>2. /\ IsFiniteSet(a..z)
          /\ Cardinality(a..z) = IF a > z THEN 0 ELSE z - a + 1
      BY <2>1, FS_Interval
    <2> HIDE DEF a, z
    <2> QED
      BY <1>3, <2>1, <2>2
  <1> QED
    BY <1>1, <1>2, <1>3, <1>4, <1>5, <1>6, <1>7

(* A new batch is stored beside what is there already.                     *)
LEMMA IngestBatchKeeps ==
  ASSUME RecordingInv, NEW b \in RecordingEventBatches, ingestBatch(b)
  PROVE  RecordingInv'
  <1>1. /\ recording \in RecordingRecords /\ recording.status # "completed"
        /\ b.clientBatchId \notin DOMAIN batches /\ ~Collides(b)
        /\ accepted' = accepted \union {b}
        /\ UNCHANGED <<request, conversions, workflow>>
    BY DEF ingestBatch, Acceptable, RecordingInv, RowsFit
  <1>2. /\ DOMAIN rows' = DOMAIN EventsOf(b) \union DOMAIN rows
        /\ \A i \in DOMAIN rows : rows'[i] = rows[i]
        /\ \A i \in DOMAIN EventsOf(b) : rows'[i] = EventsOf(b)[i]
    BY <1>1 DEF ingestBatch, Collides
  <1>3. /\ IsFiniteSet(DOMAIN rows')
        /\ Cardinality(DOMAIN rows')
             = Cardinality(DOMAIN rows) + Len(b.events)
    <2>1. /\ IsFiniteSet(DOMAIN rows) /\ IsFiniteSet(DOMAIN EventsOf(b))
          /\ Cardinality(DOMAIN EventsOf(b)) = Len(b.events)
          /\ Cardinality(DOMAIN rows) \in Nat /\ Len(b.events) \in Nat
      BY BatchShape, FS_CardinalityType DEF RecordingInv, RowsFit
    <2>2. DOMAIN EventsOf(b) \cap DOMAIN rows = {}
      BY <1>1 DEF Collides
    <2> QED
      <3> DEFINE D == DOMAIN EventsOf(b)
                 R == DOMAIN rows
      <3>1. /\ IsFiniteSet(D \union R)
            /\ Cardinality(D \union R)
                 = Cardinality(D) + Cardinality(R) - Cardinality(D \cap R)
        BY <2>1, FS_Union
      <3>2. Cardinality(D \cap R) = 0
        BY <2>2, FS_EmptySet
      <3> QED
        BY <1>2, <2>1, <3>1, <3>2
  <1>4. \A i, j \in DOMAIN rows' : rows'[i] = rows'[j] => i = j
    <2>1. \A i \in DOMAIN EventsOf(b), j \in DOMAIN rows :
            EventsOf(b)[i] # rows[j]
      <3>1. \A i \in DOMAIN EventsOf(b) : EventsOf(b)[i] \in Range(b.events)
        BY BatchShape
      <3>2. \A j \in DOMAIN rows : rows[j] \in Range(rows)
        BY DEF Range
      <3>3. Range(b.events) \cap Range(rows) = {}
        BY <1>1 DEF Collides
      <3> QED
        BY <3>1, <3>2, <3>3
    <2> QED
      BY <1>2, <2>1, BatchShape DEF RecordingInv, RowsFit
  <1>5. /\ recording' \in RecordingRecords
        /\ recording'.status = recording.status
        /\ recording'.receivedEventCount
             = recording.receivedEventCount + Len(b.events)
    <2> DEFINE n == recording.receivedEventCount + Len(b.events)
               low == IF \/ recording.receivedMinSequence = 0
                         \/ b.firstSequence < recording.receivedMinSequence
                      THEN b.firstSequence ELSE recording.receivedMinSequence
               high == IF LastSequence(b) > recording.receivedMaxSequence
                       THEN LastSequence(b) ELSE recording.receivedMaxSequence
    <2>1. recording' = [recording EXCEPT !.receivedEventCount = n,
                          !.receivedMinSequence = low,
                          !.receivedMaxSequence = high]
      BY DEF ingestBatch
    <2>2. /\ recording.receivedEventCount \in Nat /\ Len(b.events) \in Nat
          /\ recording.receivedMinSequence \in Nat
          /\ recording.receivedMaxSequence \in Nat
          /\ b.firstSequence \in Nat /\ LastSequence(b) \in Int
      BY <1>1, BatchShape, RecordingAssumption DEF RecordingRecords
    <2>3. n \in Nat /\ low \in Nat /\ high \in Nat
      BY <2>2
    <2> HIDE DEF n, low, high
    <2>4. /\ recording' \in RecordingRecords
          /\ recording'.status = recording.status
          /\ recording'.receivedEventCount = n
      BY <1>1, <2>1, <2>3 DEF RecordingRecords
    <2> QED
      BY <2>4 DEF n
  <1>6. RowsFit'
    <2>1. recording # NoRecording /\ recording' # NoRecording
      BY <1>1, <1>5 DEF RecordingRecords, NoRecording
    <2> QED
      BY <1>1, <1>3, <1>4, <1>5, <2>1 DEF RecordingInv, RowsFit
  <1>7. BatchesFit'
    <2>1. \A c : BatchIsStored(c) => BatchIsStored(c)'
      BY <1>2 DEF BatchIsStored
    <2>2. BatchIsStored(b)'
      BY <1>2 DEF BatchIsStored
    <2>3. /\ DOMAIN batches' = DOMAIN batches \union {b.clientBatchId}
          /\ batches'[b.clientBatchId] = b
          /\ \A id \in DOMAIN batches : batches'[id] = batches[id]
      BY <1>1 DEF ingestBatch
    <2> QED
      BY <1>1, <2>1, <2>2, <2>3 DEF RecordingInv, BatchesFit
  <1>8. DraftsFit'
    BY <1>1, <1>5, NothingConverted
    DEF RecordingInv, DraftsFit, OneDraftPerRequest, DraftTellsTheRecording,
        ConversionFits
  <1> QED
    BY <1>6, <1>7, <1>8 DEF RecordingInv

LEMMA CompleteSessionKeeps ==
  ASSUME RecordingInv, completeSession PROVE RecordingInv'
  <1> DEFINE n == Cardinality(DOMAIN rows)
             low == IF rows = <<>> THEN 0 ELSE 1
  <1>1. /\ recording.status = "receiving" /\ ValidatedArtifact
        /\ recording' = [recording EXCEPT !.status = "completed",
                           !.receivedEventCount = n,
                           !.receivedMinSequence = low,
                           !.receivedMaxSequence = n]
        /\ UNCHANGED <<rows, batches, accepted, request, conversions, workflow>>
    BY DEF completeSession, WholeArtifact
  <1>2. n \in Nat /\ low \in Nat /\ recording \in RecordingRecords
    BY <1>1, FS_CardinalityType DEF RecordingInv, RowsFit, NoRecording
  <1> HIDE DEF low
  <1>3. /\ recording' \in RecordingRecords
        /\ recording'.status = "completed"
        /\ recording'.receivedEventCount = Cardinality(DOMAIN rows)
        /\ recording'.declared = recording.declared
    BY <1>1, <1>2 DEF RecordingRecords
  <1>4. RowsFit'
    BY <1>1, <1>3
    DEF RecordingInv, RowsFit, ValidatedArtifact, RecordingRecords,
        NoRecording, createRecordingPrivacySummary
  <1>5. BatchesFit' /\ DraftsFit'
    BY <1>1, <1>3, BatchesStay, DraftsStay DEF RecordingInv
  <1> QED
    BY <1>4, <1>5 DEF RecordingInv

LEMMA BeginConversionKeeps ==
  ASSUME RecordingInv, NEW u \in Converters, NEW k \in ConversionIds,
         NEW n \in Names, beginConversion(u, k, n)
  PROVE  RecordingInv'
  <1> DEFINE r == [stage |-> "converted", key |-> k, name |-> n,
                   source |-> rows, count |-> recording.declared.eventCount]
  <1>1. /\ request' = [request EXCEPT ![u] = r]
        /\ recording.status = "completed"
        /\ UNCHANGED <<recording, rows, batches, accepted, conversions, workflow>>
    BY DEF beginConversion, CompletedArtifact
  <1>2. r.stage = "converted" /\ r.source = rows /\ r.name \in Names
    OBVIOUS
  <1> HIDE DEF r
  <1>3. \A v \in Converters : ConversionFits(request[v])'
    BY <1>1, <1>2 DEF RecordingInv, DraftsFit, ConversionFits
  <1>4. DraftsFit'
    BY <1>1, <1>3
    DEF RecordingInv, DraftsFit, OneDraftPerRequest, DraftTellsTheRecording
  <1>5. RowsFit' /\ BatchesFit'
    BY <1>1, RowsStay, BatchesStay DEF RecordingInv
  <1> QED
    BY <1>4, <1>5 DEF RecordingInv

LEMMA CreateDraftKeeps ==
  ASSUME RecordingInv, NEW u \in Converters, createDraft(u)
  PROVE  RecordingInv'
  <1>1. /\ request' = [request EXCEPT ![u] = NoRequest]
        /\ request[u].stage = "converted" /\ ConversionFits(request[u])
        /\ UNCHANGED <<recording, rows, batches, accepted>>
    BY DEF createDraft, RecordingInv, DraftsFit
  <1>2. RowsFit' /\ BatchesFit'
    BY <1>1, RowsStay, BatchesStay DEF RecordingInv
  <1>3. \A v \in Converters : ConversionFits(request[v])'
    BY <1>1 DEF RecordingInv, DraftsFit, ConversionFits, NoRequest
  <1>4. CASE UNCHANGED <<conversions, workflow>>
    <2>1. DraftsFit'
      BY <1>1, <1>3, <1>4
      DEF RecordingInv, DraftsFit, OneDraftPerRequest, DraftTellsTheRecording
    <2> QED
      BY <1>2, <2>1 DEF RecordingInv
  <1>5. CASE ~UNCHANGED <<conversions, workflow>>
    <2> DEFINE c == [key |-> request[u].key, workflow |-> Len(workflow) + 1,
                     source |-> request[u].source]
    <2>1. /\ ExistingConversion(request[u].key) = {}
          /\ workflow' = Append(workflow, request[u].name)
          /\ conversions' = conversions \union {c}
      BY <1>5 DEF createDraft
    <2>2. /\ c.key = request[u].key /\ c.workflow = Len(workflow) + 1
          /\ c.source = rows /\ request[u].name \in Names
          /\ recording.status = "completed"
      BY <1>1 DEF ConversionFits
    <2> HIDE DEF c
    <2>3. /\ workflow' \in Seq(Names)
          /\ DOMAIN workflow' = DOMAIN workflow \union {Len(workflow) + 1}
      BY <2>1, <2>2 DEF RecordingInv, DraftsFit
    <2>4. \A d, e \in conversions' : d.key = e.key => d = e
      BY <2>1, <2>2
      DEF ExistingConversion, RecordingInv, DraftsFit, OneDraftPerRequest
    <2>5. {d.workflow : d \in conversions'} = DOMAIN workflow'
      BY <2>1, <2>2, <2>3 DEF RecordingInv, DraftsFit, OneDraftPerRequest
    <2>6. DraftTellsTheRecording'
      BY <1>1, <2>1, <2>2 DEF RecordingInv, DraftsFit, DraftTellsTheRecording
    <2>7. DraftsFit'
      BY <1>1, <1>3, <2>3, <2>4, <2>5, <2>6
      DEF RecordingInv, DraftsFit, OneDraftPerRequest
    <2> QED
      BY <1>2, <2>7 DEF RecordingInv
  <1> QED
    BY <1>4, <1>5

LEMMA EditDraftKeeps ==
  ASSUME RecordingInv, NEW w \in DOMAIN workflow, NEW n \in Names,
         editDraft(w, n)
  PROVE  RecordingInv'
  <1>1. /\ workflow' \in Seq(Names) /\ DOMAIN workflow' = DOMAIN workflow
        /\ UNCHANGED <<recording, rows, batches, accepted, request, conversions>>
    BY DEF editDraft, RecordingInv, DraftsFit
  <1>2. DraftsFit'
    BY <1>1
    DEF RecordingInv, DraftsFit, OneDraftPerRequest, DraftTellsTheRecording,
        ConversionFits
  <1>3. RowsFit' /\ BatchesFit'
    BY <1>1, RowsStay, BatchesStay DEF RecordingInv
  <1> QED
    BY <1>2, <1>3 DEF RecordingInv

LEMMA RecordingStepKeeps ==
  ASSUME RecordingInv, [RecordingNext]_recordingVars PROVE RecordingInv'
  <1>1. CASE RecordingNext
    BY <1>1, CreateSessionKeeps, RepeatBatchKeeps, IngestBatchKeeps,
       CompleteSessionKeeps, BeginConversionKeeps, CreateDraftKeeps,
       EditDraftKeeps
    DEF RecordingNext
  <1>2. CASE UNCHANGED recordingVars
    BY <1>2, RowsStay, BatchesStay, DraftsStay
    DEF RecordingInv, recordingVars
  <1> QED
    BY <1>1, <1>2

LEMMA RecordingInvKeeps == RecordingInv => RecordingIsKept
  <1> SUFFICES ASSUME RecordingInv PROVE RecordingIsKept
    OBVIOUS
  <1>1. CompletedIsWhole
    <2> SUFFICES ASSUME recording # NoRecording,
                        recording.status = "completed"
                 PROVE  /\ DOMAIN rows = 1..recording.declared.lastSequence
                        /\ Cardinality(Range(rows))
                             = recording.declared.eventCount
                        /\ createRecordingPrivacySummary(rows)
                             = recording.declared.privacySummary
      BY DEF CompletedIsWhole, RecordingInv, RowsFit
    <2>1. /\ DOMAIN rows = 1..recording.declared.eventCount
          /\ \A i, j \in DOMAIN rows : rows[i] = rows[j] => i = j
          /\ createRecordingPrivacySummary(rows)
               = recording.declared.privacySummary
      BY DEF RecordingInv, RowsFit, ValidatedArtifact
    <2>2. /\ recording.declared.eventCount \in Nat
          /\ recording.declared.lastSequence = recording.declared.eventCount
      BY RecordingAssumption
      DEF RecordingInv, RowsFit, RecordingRecords, Declarations,
          validateDeclaredRecordingMetadata
    <2>3. /\ IsFiniteSet(DOMAIN rows)
          /\ Cardinality(DOMAIN rows) = recording.declared.eventCount
      <3> DEFINE n == recording.declared.eventCount
      <3>1. /\ IsFiniteSet(1..n)
            /\ Cardinality(1..n) = IF 1 > n THEN 0 ELSE n - 1 + 1
        <4>1. 1 \in Int /\ n \in Int
          BY <2>2
        <4> HIDE DEF n
        <4> QED
          BY <4>1, FS_Interval
      <3>2. n \in Nat /\ (IF 1 > n THEN 0 ELSE n - 1 + 1) = n
        BY <2>2
      <3> HIDE DEF n
      <3>3. IsFiniteSet(1..n) /\ Cardinality(1..n) = n
        BY <3>1, <3>2
      <3> QED
        BY <2>1, <3>3 DEF n
    <2>4. Cardinality(Range(rows)) = Cardinality(DOMAIN rows)
      BY <2>1, <2>3, CountedRange
    <2> QED
      BY <2>1, <2>2, <2>3, <2>4
  <1>2. AcceptedIsStored
    BY DEF RecordingInv, BatchesFit, BatchIsStored, AcceptedIsStored
  <1>3. OneDraftPerRequest /\ DraftTellsTheRecording
    BY DEF RecordingInv, DraftsFit
  <1> QED
    BY <1>1, <1>2, <1>3 DEF RecordingIsKept

(* A completed recording is whole, what was accepted stays stored, and a    *)
(* conversion makes one draft of exactly that recording, however requests  *)
(* are repeated (createSession, ingestBatch, completeSession, createDraft).*)
THEOREM RecordingsKept == RecordingSpec => []RecordingIsKept
  <1>1. RecordingSpec => []RecordingInv
    BY RecordingStarts, RecordingStepKeeps, PTL DEF RecordingSpec
  <1> QED
    BY <1>1, RecordingInvKeeps, PTL

-----------------------------------------------------------------------------
(* The audit trail                                                         *)

Digests == {createAuditPayloadDigest(p) : p \in Payloads}
Hashes == Seq(Nat \X Sources \X Digests)
StoredEvents ==
  [sequence : Nat, sourceId : Sources, payload : Payloads \union {"changed"},
   payloadDigest : Digests, previousHash : Hashes, eventHash : Hashes]
ChainHeads == [lastSequence : 0..MaxChain, lastEventHash : Hashes]

\* The rows are in the order of their sequences and never run ahead of them,
\* damaged or not.
ChainInOrder ==
  /\ chain \in Seq(StoredEvents) /\ head \in ChainHeads
  /\ Len(chain) <= head.lastSequence
  /\ \A i \in DOMAIN chain :
       i <= chain[i].sequence /\ chain[i].sequence <= head.lastSequence
  /\ \A i, j \in DOMAIN chain :
       i < j => chain[i].sequence < chain[j].sequence

\* The event at place i of the chain passes the verification of the chain.
Verifies(i) == FailureOf(chain, i, 1, GENESIS_PREVIOUS_HASH) = "ok"

\* The hash of the event at a place, and of nothing at place 0.
HashAt(i) == IF i = 0 THEN GENESIS_PREVIOUS_HASH ELSE chain[i].eventHash

ChainWhole ==
  ~damaged =>
    /\ Len(chain) = head.lastSequence
    /\ \A i \in DOMAIN chain : Verifies(i)
    /\ \A i, j \in DOMAIN chain :
         chain[i].sourceId = chain[j].sourceId => i = j
    /\ head.lastEventHash = HashAt(head.lastSequence)

\* Damage to the rows can be seen in them: one is missing or does not fit
\* its digest.
DamageShows ==
  damaged =>
    \/ Len(chain) < head.lastSequence
    \/ \E i \in DOMAIN chain : chain[i].payload = "changed"

WriterFits(w) ==
  writer[w].stage = "locked" =>
    /\ locked = w /\ writer[w].head = head /\ head.lastSequence < MaxChain
    /\ writer[w].source \in Sources /\ writer[w].payload \in Payloads
WritersFit ==
  /\ DOMAIN writer = Writers
  /\ locked \in Writers \union {"none"}
  /\ \A w \in Writers : WriterFits(w)

\* A head that was read is on the chain still, unless the chain is damaged.
SeenHead(h) ==
  /\ h \in ChainHeads /\ h.lastSequence <= head.lastSequence
  /\ ~damaged => h.lastEventHash = HashAt(h.lastSequence)

\* Rows that verified up to the head are undamaged if it is the head still.
UpToHead(last, clean) ==
  /\ last \in Nat /\ last <= head.lastSequence
  /\ clean \/ last < head.lastSequence

VerifierFits(q) ==
  /\ q.stage = "head" =>
       /\ SeenHead(q.head)
       /\ q.from \in Nat /\ q.to \in Nat /\ q.limit \in Nat \ {0}
  /\ q.stage = "checked" =>
       /\ authoritativeFailure(q) /\ FirstSequence(q.from) = 1 => ~q.clean
       /\ completeVerification(q) => UpToHead(q.result.last, q.clean)
VerifiersFit ==
  /\ DOMAIN verifier = Verifiers
  /\ \A v \in Verifiers : VerifierFits(verifier[v])

VerdictFits == verdict.valid => UpToHead(verdict.last, verdict.clean)

TrailInv ==
  /\ ChainInOrder /\ ChainWhole /\ DamageShows /\ WritersFit /\ VerifiersFit
  /\ VerdictFits /\ AlarmMeansDamage
-----------------------------------------------------------------------------
\* Facts about numbers: every nonempty set of naturals has a least element,
\* what holds at zero and of every successor holds everywhere, and a bounded
\* set has a greatest element.
LEMMA LeastElement ==
  ASSUME NEW T, T \subseteq Nat, T # {}
  PROVE  \E x \in T : \A y \in T : x <= y
  <1> DEFINE R == OpToRel(<, Nat)
  <1>1. \A y, x \in Nat : y < x => <<y, x>> \in R
    BY DEF OpToRel
  <1>2. IsWellFoundedOn(R, Nat)
    BY NatLessThanWellFounded
  <1> HIDE DEF R
  <1>3. PICK x \in T : \A y \in T : ~ (<<y, x>> \in R)
    BY <1>2, WFMin
  <1>4. \A y \in T : ~ (y < x)
    BY <1>1, <1>3
  <1> QED
    BY <1>3, <1>4

LEMMA EveryNatural ==
  ASSUME NEW S, 0 \in S, \A n \in Nat : n \in S => n + 1 \in S
  PROVE  Nat \subseteq S
  <1> SUFFICES ASSUME Nat \ S # {} PROVE FALSE
    OBVIOUS
  <1>1. PICK x \in Nat \ S : \A y \in Nat \ S : x <= y
    BY LeastElement
  <1>2. x # 0 /\ x - 1 \in Nat /\ (x - 1) + 1 = x
    BY <1>1
  <1>3. x - 1 \in S
    BY <1>1, <1>2
  <1> QED
    BY <1>1, <1>2, <1>3

LEMMA GreatestElement ==
  ASSUME NEW S, S \subseteq Nat, S # {}, NEW n \in Nat, \A y \in S : y <= n
  PROVE  Max(S) \in S /\ \A y \in S : y <= Max(S)
  <1> DEFINE B == {m \in Nat : \A y \in S : y <= m}
  <1>1. PICK m \in B : \A y \in B : m <= y
    BY LeastElement
  <1>2. m \in S
    <2> SUFFICES ASSUME m \notin S PROVE FALSE
      OBVIOUS
    <2>1. m \in Nat /\ \A y \in S : y \in Nat /\ y < m
      BY <1>1
    <2>2. PICK z \in S : z \in Nat /\ z < m
      BY <2>1
    <2>3. m - 1 \in Nat /\ \A y \in S : y <= m - 1
      BY <2>1, <2>2
    <2>4. m - 1 \in B
      BY <2>3
    <2> QED
      BY <1>1, <2>1, <2>4
  <1>3. \E x \in S : \A y \in S : x >= y
    BY <1>1, <1>2
  <1>4. Max(S) = CHOOSE x \in S : \A y \in S : x >= y
    BY DEF Max
  <1>5. Max(S) \in S /\ \A y \in S : Max(S) >= y
    BY <1>3, <1>4
  <1> QED
    BY <1>1, <1>5

-----------------------------------------------------------------------------
\* What it takes for an event to verify.
LEMMA VerifiesMeans ==
  ASSUME NEW events, NEW i, NEW first, NEW previous
  PROVE  FailureOf(events, i, first, previous) = "ok" <=>
           /\ events[i].sequence = first + i - 1
           /\ events[i].previousHash = PreviousIn(events, i, previous)
           /\ createAuditPayloadDigest(events[i].payload)
                = events[i].payloadDigest
           /\ createAuditEventHash(events[i]) = events[i].eventHash
  BY DEF FailureOf

\* The verdict on a sequence of events: they all verify and, if it is asked
\* for, end at the head.
AllVerify(events, first, previous) ==
  \A i \in 1..Len(events) : FailureOf(events, i, first, previous) = "ok"

LEMMA EventsVerdict ==
  ASSUME NEW S, NEW events \in Seq(S), NEW first, NEW previous
  PROVE  /\ verifyEvents(events, first, previous).code = "ok"
              <=> AllVerify(events, first, previous)
         /\ AllVerify(events, first, previous) =>
              verifyEvents(events, first, previous) =
                [code |-> "ok", checked |-> Len(events),
                 last |-> IF events = <<>> THEN 0
                          ELSE events[Len(events)].sequence]
         /\ ~AllVerify(events, first, previous) =>
              \E c, k, l : verifyEvents(events, first, previous) =
                             [code |-> c, checked |-> k, last |-> l]
  <1> DEFINE bad == {i \in DOMAIN events :
                       FailureOf(events, i, first, previous) # "ok"}
  <1>0. Len(events) \in Nat /\ DOMAIN events = 1..Len(events)
    OBVIOUS
  <1>1. AllVerify(events, first, previous) <=> bad = {}
    BY <1>0 DEF AllVerify
  <1>2. CASE bad # {}
    <2>1. bad \subseteq Nat
      BY <1>0
    <2> HIDE DEF bad
    <2>2. PICK x \in bad : \A y \in bad : x <= y
      BY <1>2, <2>1, LeastElement
    <2>3. Min(bad) \in bad
      BY <2>2 DEF Min
    <2> USE DEF bad
    <2>4. FailureOf(events, Min(bad), first, previous) # "ok"
      BY <2>3
    <2>5. verifyEvents(events, first, previous) =
            [code |-> FailureOf(events, Min(bad), first, previous),
             checked |-> Min(bad) - 1,
             last |-> IF Min(bad) = 1 THEN 0 ELSE first + Min(bad) - 2]
      BY <1>2 DEF verifyEvents
    <2> HIDE DEF bad
    <2>6. verifyEvents(events, first, previous).code # "ok"
      BY <2>4, <2>5
    <2> QED
      BY <1>1, <1>2, <2>5, <2>6
  <1>3. CASE bad = {}
    <2>1. verifyEvents(events, first, previous) =
            [code |-> "ok", checked |-> Len(events),
             last |-> IF events = <<>> THEN 0
                      ELSE events[Len(events)].sequence]
      BY <1>3 DEF verifyEvents
    <2> QED
      BY <1>1, <1>3, <2>1
  <1> QED
    BY <1>2, <1>3

LEMMA ChainVerdict ==
  ASSUME NEW S, NEW events \in Seq(S), NEW first, NEW previous, NEW headHash
  PROVE  /\ verifyAuditEventChain(events, first, previous, headHash).code
              = "ok"
              <=> /\ AllVerify(events, first, previous)
                  /\ LastHash(events, previous) = headHash
         /\ AllVerify(events, first, previous) =>
              verifyAuditEventChain(events, first, previous, headHash) =
                [code |-> IF LastHash(events, previous) = headHash
                          THEN "ok" ELSE "HEAD_HASH_MISMATCH",
                 checked |-> Len(events),
                 last |-> IF events = <<>> THEN 0
                          ELSE events[Len(events)].sequence]
  <1>1. CASE AllVerify(events, first, previous)
    <2>1. verifyEvents(events, first, previous) =
            [code |-> "ok", checked |-> Len(events),
             last |-> IF events = <<>> THEN 0
                      ELSE events[Len(events)].sequence]
      BY <1>1, EventsVerdict
    <2>2. verifyAuditEventChain(events, first, previous, headHash) =
            [code |-> IF LastHash(events, previous) = headHash
                      THEN "ok" ELSE "HEAD_HASH_MISMATCH",
             checked |-> Len(events),
             last |-> IF events = <<>> THEN 0
                      ELSE events[Len(events)].sequence]
      BY <2>1 DEF verifyAuditEventChain
    <2> QED
      BY <1>1, <2>2
  <1>2. CASE ~AllVerify(events, first, previous)
    <2>1. PICK c, k, l : verifyEvents(events, first, previous) =
                           [code |-> c, checked |-> k, last |-> l]
      BY <1>2, EventsVerdict
    <2>2. c # "ok"
      BY <1>2, <2>1, EventsVerdict
    <2>3. verifyAuditEventChain(events, first, previous, headHash).code = c
      BY <2>1, <2>2 DEF verifyAuditEventChain
    <2> QED
      BY <1>2, <2>2, <2>3
  <1> QED
    BY <1>1, <1>2

\* The rows read from the first sequence on are the first of the chain.
LEMMA ReadFromStart ==
  ASSUME ChainInOrder, NEW from \in Nat, FirstSequence(from) = 1,
         NEW to \in Nat, NEW limit \in Nat
  PROVE  LET events == readRange(from, to, limit)
         IN /\ events \in Seq(StoredEvents) /\ Len(events) <= Len(chain)
            /\ \A i \in 1..Len(events) : events[i] = chain[i]
  <1> DEFINE events == readRange(from, to, limit)
             found == Cardinality(InRange(from, to))
             n == IF found < limit THEN found ELSE limit
             N == Len(chain)
  <1>1. /\ N \in Nat /\ DOMAIN chain = 1..N
        /\ \A i \in 1..N : chain[i] \in StoredEvents
        /\ \A i \in 1..N : chain[i].sequence \in Nat /\ chain[i].sequence >= 1
    <2>1. chain \in Seq(StoredEvents)
      BY DEF ChainInOrder
    <2>2. N \in Nat /\ DOMAIN chain = 1..N
      BY <2>1
    <2>3. \A i \in 1..N : chain[i] \in StoredEvents
      BY <2>1
    <2>4. \A i \in 1..N : chain[i].sequence \in Nat
      BY <2>3 DEF StoredEvents
    <2>5. \A i \in 1..N : i <= chain[i].sequence
      BY <2>2 DEF ChainInOrder
    <2> QED
      BY <2>2, <2>3, <2>4, <2>5
  <1> HIDE DEF N
  <1>2. Skipped(from) = {}
    BY <1>1 DEF Skipped
  <1>3. Cardinality(Skipped(from)) = 0
    BY <1>2, FS_EmptySet
  <1>4. IsFiniteSet(1..N) /\ Cardinality(1..N) = N
    <2>1. /\ IsFiniteSet(1..N)
          /\ Cardinality(1..N) = IF 1 > N THEN 0 ELSE N - 1 + 1
      BY <1>1, FS_Interval
    <2> QED
      BY <1>1, <2>1
  <1>5. InRange(from, to) \subseteq 1..N
    BY <1>1 DEF InRange
  <1>6. found \in Nat /\ found <= N
    BY <1>4, <1>5, FS_Subset, FS_CardinalityType
  <1>7. n \in 0..N
    BY <1>1, <1>6
  <1>8. events = [k \in 1..n |-> chain[k]]
    <2>1. events = [k \in 1..n |-> chain[0 + k]]
      BY <1>3 DEF readRange
    <2> QED
      BY <2>1, <1>7
  <1> HIDE DEF n, events
  <1>9. [k \in 1..n |-> chain[k]] \in [1..n -> StoredEvents]
    BY <1>1, <1>7
  <1>10. events \in Seq(StoredEvents) /\ Len(events) = n
    BY <1>7, <1>8, <1>9
  <1> QED
    BY <1>1, <1>7, <1>8, <1>10 DEF N, events

-----------------------------------------------------------------------------
\* The chain as the steps see it.
LEMMA ChainShape ==
  ASSUME ChainInOrder
  PROVE  /\ Len(chain) \in Nat /\ DOMAIN chain = 1..Len(chain)
         /\ chain \in Seq(StoredEvents)
         /\ head.lastSequence \in 0..MaxChain /\ head \in ChainHeads
         /\ \A i \in 1..Len(chain) : /\ chain[i] \in StoredEvents
                                      /\ chain[i].sequence \in Nat
  <1>1. /\ chain \in Seq(StoredEvents) /\ head \in ChainHeads
    BY DEF ChainInOrder
  <1>2. /\ Len(chain) \in Nat /\ DOMAIN chain = 1..Len(chain)
        /\ \A i \in 1..Len(chain) : chain[i] \in StoredEvents
    BY <1>1
  <1>3. \A i \in 1..Len(chain) : chain[i].sequence \in Nat
    BY <1>2 DEF StoredEvents
  <1>4. head.lastSequence \in 0..MaxChain
    BY <1>1 DEF ChainHeads
  <1> QED
    BY <1>1, <1>2, <1>3, <1>4

LEMMA TrailStarts == TrailInit => TrailInv
  <1> SUFFICES ASSUME TrailInit PROVE TrailInv
    OBVIOUS
  <1>1. ChainInOrder
    BY TrailAssumption
    DEF TrailInit, ChainInOrder, ChainHeads, Hashes, GENESIS_PREVIOUS_HASH
  <1>2. ChainWhole
    BY DEF TrailInit, ChainWhole, HashAt
  <1>3. DamageShows /\ VerdictFits /\ AlarmMeansDamage
    BY DEF TrailInit, DamageShows, VerdictFits, AlarmMeansDamage, NoVerdict
  <1>4. WritersFit /\ VerifiersFit
    BY DEF TrailInit, WritersFit, WriterFits, VerifiersFit, VerifierFits,
           NoTransaction
  <1> QED
    BY <1>1, <1>2, <1>3, <1>4 DEF TrailInv

\* Steps that leave parts of the state alone.
LEMMA ChainStays ==
  ASSUME UNCHANGED <<chain, head, damaged>>
  PROVE  /\ ChainInOrder => ChainInOrder'
         /\ ChainWhole => ChainWhole'
         /\ DamageShows => DamageShows'
         /\ \A h : SeenHead(h) => SeenHead(h)'
         /\ \A last, clean : UpToHead(last, clean) => UpToHead(last, clean)'
  BY DEF ChainInOrder, ChainWhole, DamageShows, SeenHead, UpToHead, HashAt,
         Verifies, FailureOf, PreviousIn

LEMMA WritersStay ==
  ASSUME WritersFit, UNCHANGED <<writer, locked, head>> PROVE WritersFit'
  BY DEF WritersFit, WriterFits

\* What verifiers hold stays good as long as heads stay on the chain.
LEMMA VerifiersStay ==
  ASSUME VerifiersFit, UNCHANGED verifier,
         \A h : SeenHead(h) => SeenHead(h)',
         \A last, clean : UpToHead(last, clean) => UpToHead(last, clean)'
  PROVE  VerifiersFit'
  BY DEF VerifiersFit, VerifierFits, authoritativeFailure,
         completeVerification, FirstSequence

LEMMA VerdictStays ==
  ASSUME VerdictFits, UNCHANGED verdict,
         \A last, clean : UpToHead(last, clean) => UpToHead(last, clean)'
  PROVE  VerdictFits'
  BY DEF VerdictFits

LEMMA AlarmsStay ==
  ASSUME AlarmMeansDamage, UNCHANGED alarms PROVE AlarmMeansDamage'
  BY DEF AlarmMeansDamage, FirstSequence

LEMMA LockKeeps ==
  ASSUME TrailInv, NEW w \in Writers, NEW e \in Sources, NEW p \in Payloads,
         lockChainHead(w, e, p)
  PROVE  TrailInv'
  <1>1. UNCHANGED <<chain, head, damaged, verifier, verdict, alarms>>
    BY DEF lockChainHead
  <1>2. /\ ChainInOrder' /\ ChainWhole' /\ DamageShows' /\ VerifiersFit'
        /\ VerdictFits' /\ AlarmMeansDamage'
    BY <1>1, ChainStays, VerifiersStay, VerdictStays, AlarmsStay DEF TrailInv
  <1>3. WritersFit'
    <2> DEFINE t == [stage |-> "locked", source |-> e, payload |-> p,
                     head |-> head]
    <2>1. /\ writer' = [writer EXCEPT ![w] = t] /\ locked' = w
          /\ head.lastSequence < MaxChain /\ locked = "none"
      BY DEF lockChainHead, LockFree
    <2>2. /\ t.stage = "locked" /\ t.source \in Sources
          /\ t.payload \in Payloads /\ t.head = head
      OBVIOUS
    <2> HIDE DEF t
    <2>3. \A v \in Writers : writer[v].stage # "locked"
      BY <2>1, TrailAssumption DEF TrailInv, WritersFit, WriterFits
    <2> QED
      BY <1>1, <2>1, <2>2, <2>3 DEF TrailInv, WritersFit, WriterFits
  <1> QED
    BY <1>2, <1>3 DEF TrailInv

\* The event that an append stores continues the chain.
LEMMA NextEventShape ==
  ASSUME TrailInv, NEW w \in Writers, writer[w].stage = "locked"
  PROVE  LET e == nextEvent(writer[w])
         IN /\ e \in StoredEvents
            /\ e.sequence = head.lastSequence + 1
            /\ e.sourceId = writer[w].source
            /\ e.payloadDigest = createAuditPayloadDigest(e.payload)
            /\ e.previousHash = IF head.lastSequence = 0
                                THEN GENESIS_PREVIOUS_HASH
                                ELSE head.lastEventHash
            /\ e.eventHash = createAuditEventHash(e)
            /\ e.sequence \in 0..MaxChain
  <1> DEFINE t == writer[w]
             e == nextEvent(t)
             previous == IF head.lastSequence = 0 THEN GENESIS_PREVIOUS_HASH
                         ELSE head.lastEventHash
             digest == createAuditPayloadDigest(t.payload)
             hash == Append(previous,
                            <<head.lastSequence + 1, t.source, digest>>)
  <1>1. /\ t.head = head /\ t.source \in Sources /\ t.payload \in Payloads
        /\ head.lastSequence < MaxChain
    BY DEF TrailInv, WritersFit, WriterFits
  <1>2. head.lastSequence \in 0..MaxChain /\ head.lastEventHash \in Hashes
    BY DEF TrailInv, ChainInOrder, ChainHeads
  <1>3. /\ previous \in Hashes /\ digest \in Digests
        /\ head.lastSequence + 1 \in Nat
        /\ head.lastSequence + 1 \in 0..MaxChain
    BY <1>1, <1>2, TrailAssumption
    DEF Hashes, Digests, GENESIS_PREVIOUS_HASH
  <1>4. hash \in Hashes
    BY <1>1, <1>3 DEF Hashes
  <1>5. e = [sequence |-> head.lastSequence + 1, sourceId |-> t.source,
             payload |-> t.payload, payloadDigest |-> digest,
             previousHash |-> previous, eventHash |-> hash]
    BY <1>1 DEF nextEvent, createAuditEventHash
  <1> HIDE DEF previous, digest, hash, e
  <1>6. e \in StoredEvents
    BY <1>1, <1>3, <1>4, <1>5 DEF StoredEvents
  <1>7. e.eventHash = createAuditEventHash(e)
    BY <1>5 DEF hash, createAuditEventHash
  <1> QED
    BY <1>1, <1>3, <1>5, <1>6, <1>7 DEF previous, digest, e

LEMMA AppendKeeps ==
  ASSUME TrailInv, NEW w \in Writers, appendAuditEvent(w)
  PROVE  TrailInv'
  <1>1. /\ writer[w].stage = "locked" /\ locked' = "none"
        /\ writer' = [writer EXCEPT ![w] = NoTransaction]
        /\ UNCHANGED <<verifier, verdict, alarms, damaged>>
    BY DEF appendAuditEvent
  <1>2. WritersFit'
    <2>1. \A v \in Writers : v # w => writer[v].stage # "locked"
      BY <1>1 DEF TrailInv, WritersFit, WriterFits
    <2>2. \A v \in Writers : writer'[v].stage # "locked"
      BY <1>1, <2>1 DEF TrailInv, WritersFit, NoTransaction
    <2> QED
      BY <1>1, <2>2 DEF TrailInv, WritersFit, WriterFits
  <1>3. AlarmMeansDamage'
    BY <1>1, AlarmsStay DEF TrailInv
  <1>4. CASE UNCHANGED <<chain, head>>
    BY <1>1, <1>2, <1>3, <1>4, ChainStays, VerifiersStay, VerdictStays
    DEF TrailInv
  <1>5. CASE ~UNCHANGED <<chain, head>>
    <2> DEFINE e == nextEvent(writer[w])
               N == Len(chain)
               H == head.lastSequence
    <2>1. /\ findEventBySourceId(writer[w].source) = {}
          /\ chain' = Append(chain, e)
          /\ head' = [lastSequence |-> e.sequence,
                      lastEventHash |-> e.eventHash]
      BY <1>5 DEF appendAuditEvent
    <2>2. /\ e \in StoredEvents /\ e.sequence = H + 1
          /\ e.sourceId = writer[w].source
          /\ e.payloadDigest = createAuditPayloadDigest(e.payload)
          /\ e.previousHash = IF H = 0 THEN GENESIS_PREVIOUS_HASH
                              ELSE head.lastEventHash
          /\ e.eventHash = createAuditEventHash(e)
          /\ e.sequence \in 0..MaxChain
      BY <1>1, NextEventShape
    <2>3. /\ N \in Nat /\ DOMAIN chain = 1..N /\ H \in Nat /\ N <= H
          /\ chain \in Seq(StoredEvents)
          /\ \A i \in 1..N : chain[i].sequence \in Nat
      BY ChainShape DEF TrailInv, ChainInOrder
    <2> HIDE DEF e
    <2>4. /\ chain' \in Seq(StoredEvents) /\ Len(chain') = N + 1
          /\ DOMAIN chain' = 1..(N + 1)
          /\ \A i \in 1..N : chain'[i] = chain[i]
          /\ chain'[N + 1] = e
      BY <2>1, <2>2, <2>3
    <2>5. /\ head'.lastSequence = H + 1 /\ head'.lastEventHash = e.eventHash
          /\ head' \in ChainHeads
      BY <2>1, <2>2 DEF ChainHeads, StoredEvents
    <2> HIDE DEF N, H
    <2>6. ChainInOrder'
      <3>1. \A i \in 1..N : i <= chain[i].sequence /\ chain[i].sequence <= H
        BY <2>3 DEF TrailInv, ChainInOrder, H
      <3>2. \A i, j \in 1..N : i < j => chain[i].sequence < chain[j].sequence
        BY <2>3 DEF TrailInv, ChainInOrder
      <3>3. \A i \in 1..(N + 1) :
              i <= chain'[i].sequence /\ chain'[i].sequence <= H + 1
        BY <2>2, <2>3, <2>4, <3>1
      <3>4. \A i, j \in 1..(N + 1) :
              i < j => chain'[i].sequence < chain'[j].sequence
        <4> SUFFICES ASSUME NEW i \in 1..(N + 1), NEW j \in 1..(N + 1), i < j
                     PROVE  chain'[i].sequence < chain'[j].sequence
          OBVIOUS
        <4>1. i \in 1..N /\ chain'[i] = chain[i]
          BY <2>3, <2>4
        <4>2. CASE j = N + 1
          BY <2>2, <2>3, <2>4, <3>1, <4>1, <4>2
        <4>3. CASE j # N + 1
          <5>1. j \in 1..N /\ chain'[j] = chain[j]
            BY <2>3, <2>4, <4>3
          <5> QED
            BY <3>2, <4>1, <5>1
        <4> QED
          BY <4>2, <4>3
      <3> QED
        BY <2>3, <2>4, <2>5, <3>3, <3>4 DEF ChainInOrder
    <2>7. \A h : SeenHead(h) => SeenHead(h)'
      <3> SUFFICES ASSUME NEW h, SeenHead(h) PROVE SeenHead(h)'
        OBVIOUS
      <3>1. h.lastSequence \in Nat /\ h.lastSequence <= H /\ h \in ChainHeads
        BY DEF SeenHead, ChainHeads, H
      <3>2. ~damaged => N = H
        BY DEF TrailInv, ChainWhole, N, H
      <3>3. ~damaged => HashAt(h.lastSequence)' = HashAt(h.lastSequence)
        BY <2>3, <2>4, <3>1, <3>2 DEF HashAt
      <3> QED
        BY <1>1, <2>3, <2>5, <3>1, <3>3 DEF SeenHead
    <2>8. \A last, clean : UpToHead(last, clean) => UpToHead(last, clean)'
      BY <2>3, <2>5 DEF UpToHead, H
    <2>9. ChainWhole'
      <3> SUFFICES ASSUME ~damaged PROVE ChainWhole'
        BY <1>1 DEF ChainWhole
      <3>1. /\ N = H /\ \A i \in 1..N : Verifies(i)
            /\ \A i, j \in 1..N :
                 chain[i].sourceId = chain[j].sourceId => i = j
            /\ head.lastEventHash = HashAt(H)
        BY <2>3 DEF TrailInv, ChainWhole, N, H
      <3>2. \A i \in 1..N :
              FailureOf(chain', i, 1, GENESIS_PREVIOUS_HASH) = "ok"
        <4> SUFFICES ASSUME NEW i \in 1..N
                     PROVE  FailureOf(chain', i, 1, GENESIS_PREVIOUS_HASH)
                              = "ok"
          OBVIOUS
        <4>1. chain'[i] = chain[i]
          BY <2>4
        <4>2. PreviousIn(chain', i, GENESIS_PREVIOUS_HASH)
                = PreviousIn(chain, i, GENESIS_PREVIOUS_HASH)
          BY <2>3, <2>4 DEF PreviousIn
        <4>3. FailureOf(chain, i, 1, GENESIS_PREVIOUS_HASH) = "ok"
          BY <3>1 DEF Verifies
        <4> QED
          BY <4>1, <4>2, <4>3 DEF FailureOf
      <3>3. FailureOf(chain', N + 1, 1, GENESIS_PREVIOUS_HASH) = "ok"
        <4>1. e.previousHash
                = PreviousIn(chain', N + 1, GENESIS_PREVIOUS_HASH)
          BY <2>2, <2>3, <2>4, <3>1 DEF PreviousIn, HashAt
        <4> QED
          BY <2>2, <2>3, <2>4, <3>1, <4>1, VerifiesMeans
      <3>4. \A i, j \in 1..(N + 1) :
              chain'[i].sourceId = chain'[j].sourceId => i = j
        <4>1. \A i \in 1..N : chain[i].sourceId # e.sourceId
          BY <2>1, <2>2, <2>3 DEF findEventBySourceId
        <4> QED
          BY <2>3, <2>4, <3>1, <4>1
      <3>5. head'.lastEventHash = HashAt(head.lastSequence)'
        BY <2>3, <2>4, <2>5, <3>1 DEF HashAt
      <3>6. \A i \in 1..(N + 1) :
              FailureOf(chain', i, 1, GENESIS_PREVIOUS_HASH) = "ok"
        BY <2>3, <3>2, <3>3
      <3> QED
        BY <2>3, <2>4, <2>5, <3>1, <3>4, <3>5, <3>6
        DEF ChainWhole, Verifies
    <2>10. DamageShows'
      BY <1>1, <2>3, <2>4, <2>5 DEF TrailInv, DamageShows, N, H
    <2> QED
      BY <1>1, <1>2, <1>3, <2>6, <2>7, <2>8, <2>9, <2>10, VerifiersStay,
         VerdictStays
      DEF TrailInv
  <1> QED
    BY <1>4, <1>5

LEMMA ChangePayloadKeeps ==
  ASSUME TrailInv, NEW i \in DOMAIN chain, changePayload(i)
  PROVE  TrailInv'
  <1> DEFINE N == Len(chain)
  <1>1. /\ chain' = [chain EXCEPT ![i].payload = "changed"] /\ damaged'
        /\ UNCHANGED <<head, locked, writer, verifier, verdict, alarms>>
    BY DEF changePayload
  <1>2. /\ N \in Nat /\ DOMAIN chain = 1..N /\ chain \in Seq(StoredEvents)
        /\ \A j \in 1..N : chain[j] \in StoredEvents
    BY ChainShape DEF TrailInv
  <1>3. /\ [chain[i] EXCEPT !.payload = "changed"] \in StoredEvents
        /\ [chain[i] EXCEPT !.payload = "changed"].payload = "changed"
        /\ [chain[i] EXCEPT !.payload = "changed"].sequence = chain[i].sequence
    BY <1>2 DEF StoredEvents
  <1>4. /\ chain' \in Seq(StoredEvents) /\ Len(chain') = N
        /\ DOMAIN chain' = 1..N
        /\ \A j \in 1..N : chain'[j].sequence = chain[j].sequence
        /\ chain'[i].payload = "changed"
    BY <1>1, <1>2, <1>3
  <1>5. ChainInOrder'
    BY <1>1, <1>2, <1>4 DEF TrailInv, ChainInOrder
  <1>6. ChainWhole' /\ DamageShows'
    BY <1>1, <1>2, <1>4 DEF ChainWhole, DamageShows
  <1>7. /\ \A h : SeenHead(h) => SeenHead(h)'
        /\ \A last, clean : UpToHead(last, clean) => UpToHead(last, clean)'
    BY <1>1 DEF SeenHead, UpToHead
  <1> QED
    BY <1>1, <1>5, <1>6, <1>7, WritersStay, VerifiersStay, VerdictStays,
       AlarmsStay
    DEF TrailInv

LEMMA LoseRowKeeps ==
  ASSUME TrailInv, NEW i \in DOMAIN chain, loseRow(i)
  PROVE  TrailInv'
  <1> DEFINE N == Len(chain)
             before == SubSeq(chain, 1, i - 1)
             behind == SubSeq(chain, i + 1, N)
  <1>1. /\ chain' = before \o behind /\ damaged'
        /\ UNCHANGED <<head, locked, writer, verifier, verdict, alarms>>
    BY DEF loseRow
  <1>2. /\ N \in Nat /\ DOMAIN chain = 1..N /\ chain \in Seq(StoredEvents)
        /\ i \in 1..N /\ \A j \in 1..N : chain[j].sequence \in Nat
    BY ChainShape DEF TrailInv
  <1>3. /\ before \in Seq(StoredEvents) /\ Len(before) = i - 1
        /\ \A j \in 1..(i - 1) : before[j] = chain[j]
    BY <1>2
  <1>4. /\ behind \in Seq(StoredEvents) /\ Len(behind) = N - i
        /\ \A j \in 1..(N - i) : behind[j] = chain[i + j]
    BY <1>2
  <1> HIDE DEF before, behind, N
  <1>5. /\ chain' \in Seq(StoredEvents) /\ Len(chain') = N - 1
        /\ DOMAIN chain' = 1..(N - 1)
    BY <1>1, <1>2, <1>3, <1>4
  <1>6. \A j \in 1..(N - 1) :
          chain'[j] = IF j < i THEN chain[j] ELSE chain[j + 1]
    <2> SUFFICES ASSUME NEW j \in 1..(N - 1)
                 PROVE  chain'[j] = IF j < i THEN chain[j] ELSE chain[j + 1]
      OBVIOUS
    <2>1. CASE j < i
      BY <1>1, <1>2, <1>3, <1>4, <2>1
    <2>2. CASE ~ (j < i)
      <3>1. j - (i - 1) \in 1..(N - i) /\ i + (j - (i - 1)) = j + 1
        BY <1>2, <2>2
      <3>2. chain'[j] = behind[j - (i - 1)]
        <4>1. j \in 1..(Len(before) + Len(behind)) /\ ~ (j <= Len(before))
          BY <1>2, <1>3, <1>4, <2>2
        <4>2. (before \o behind)[j] = behind[j - Len(before)]
          BY <1>3, <1>4, <4>1, ConcatProperties
        <4> QED
          BY <1>1, <1>3, <4>2
      <3> QED
        BY <1>4, <2>2, <3>1, <3>2
    <2> QED
      BY <2>1, <2>2
  <1>7. ChainInOrder'
    <2>1. /\ \A j \in 1..N : /\ j <= chain[j].sequence
                             /\ chain[j].sequence <= head.lastSequence
          /\ \A j, k \in 1..N : j < k => chain[j].sequence < chain[k].sequence
          /\ head \in ChainHeads /\ N <= head.lastSequence
          /\ head.lastSequence \in Int
      BY <1>2, ChainShape DEF TrailInv, ChainInOrder, N
    <2>2. \A j \in 1..(N - 1) : /\ j <= chain'[j].sequence
                                 /\ chain'[j].sequence <= head.lastSequence
      <3> SUFFICES ASSUME NEW j \in 1..(N - 1)
                   PROVE  /\ j <= chain'[j].sequence
                          /\ chain'[j].sequence <= head.lastSequence
        OBVIOUS
      <3> DEFINE a == IF j < i THEN j ELSE j + 1
      <3>1. chain'[j] = chain[a]
        BY <1>6
      <3>2. a \in 1..N /\ j <= a
        BY <1>2
      <3> HIDE DEF a
      <3> QED
        BY <1>2, <2>1, <3>1, <3>2
    <2>3. \A j, k \in 1..(N - 1) :
            j < k => chain'[j].sequence < chain'[k].sequence
      <3> SUFFICES ASSUME NEW j \in 1..(N - 1), NEW k \in 1..(N - 1), j < k
                   PROVE  chain'[j].sequence < chain'[k].sequence
        OBVIOUS
      <3> DEFINE a == IF j < i THEN j ELSE j + 1
                 b == IF k < i THEN k ELSE k + 1
      <3>1. chain'[j] = chain[a] /\ chain'[k] = chain[b]
        BY <1>6
      <3>2. a \in 1..N /\ b \in 1..N /\ a < b
        <4>1. N \in Int /\ i \in 1..N
          BY <1>2
        <4> QED
          BY <4>1
      <3> HIDE DEF a, b
      <3> QED
        BY <2>1, <3>1, <3>2
    <2>4. /\ chain' \in Seq(StoredEvents) /\ head' \in ChainHeads
          /\ Len(chain') <= head'.lastSequence
      BY <1>1, <1>2, <1>5, <2>1
    <2>5. \A j \in DOMAIN chain' :
            j <= chain'[j].sequence /\ chain'[j].sequence <= head'.lastSequence
      BY <1>1, <1>5, <2>2
    <2>6. \A j, k \in DOMAIN chain' :
            j < k => chain'[j].sequence < chain'[k].sequence
      BY <1>5, <2>3
    <2> QED
      BY <2>4, <2>5, <2>6 DEF ChainInOrder
  <1>8. ChainWhole' /\ DamageShows'
    <2>1. N <= head.lastSequence /\ head.lastSequence \in Int
      BY ChainShape DEF TrailInv, ChainInOrder, N
    <2>2. Len(chain') < head'.lastSequence
      BY <1>1, <1>2, <1>5, <2>1
    <2> QED
      BY <1>1, <2>2 DEF ChainWhole, DamageShows
  <1>9. /\ \A h : SeenHead(h) => SeenHead(h)'
        /\ \A last, clean : UpToHead(last, clean) => UpToHead(last, clean)'
    BY <1>1 DEF SeenHead, UpToHead
  <1> QED
    BY <1>1, <1>7, <1>8, <1>9, WritersStay, VerifiersStay, VerdictStays,
       AlarmsStay
    DEF TrailInv

LEMMA ReadHeadKeeps ==
  ASSUME TrailInv, NEW v \in Verifiers, NEW f \in FromSequences,
         NEW t \in ToSequences, NEW n \in SampleLimits, readHead(v, f, t, n)
  PROVE  TrailInv'
  <1> DEFINE q == [stage |-> "head", from |-> f, to |-> t, limit |-> n,
                   head |-> head]
  <1>1. /\ verifier' = [verifier EXCEPT ![v] = q]
        /\ UNCHANGED <<chain, head, locked, writer, verdict, alarms, damaged>>
    BY DEF readHead
  <1>2. SeenHead(head)
    BY ChainShape DEF TrailInv, ChainWhole, SeenHead
  <1>3. VerifierFits(q)
    BY <1>2, TrailAssumption DEF VerifierFits
  <1> HIDE DEF q
  <1>4. \A r : VerifierFits(r) => VerifierFits(r)'
    BY <1>1, ChainStays
    DEF VerifierFits, authoritativeFailure, completeVerification, FirstSequence
  <1>5. VerifiersFit'
    BY <1>1, <1>3, <1>4 DEF TrailInv, VerifiersFit
  <1> QED
    BY <1>1, <1>5, ChainStays, WritersStay, VerdictStays, AlarmsStay
    DEF TrailInv

LEMMA RecordVerdictKeeps ==
  ASSUME TrailInv, NEW v \in Verifiers, recordVerdict(v)
  PROVE  TrailInv'
  <1> DEFINE q == verifier[v]
  <1>1. /\ verifier' = [verifier EXCEPT ![v] = NoTransaction]
        /\ q.stage = "checked" /\ VerifierFits(q)
        /\ UNCHANGED <<chain, head, locked, writer, damaged>>
    BY DEF recordVerdict, TrailInv, VerifiersFit
  <1>2. \A r : VerifierFits(r) => VerifierFits(r)'
    BY <1>1, ChainStays
    DEF VerifierFits, authoritativeFailure, completeVerification, FirstSequence
  <1>3. VerifiersFit'
    BY <1>1, <1>2 DEF TrailInv, VerifiersFit, VerifierFits, NoTransaction
  <1>4. VerdictFits'
    <2>1. CASE authoritativeFailure(q)
      BY <2>1 DEF recordVerdict, VerdictFits
    <2>2. CASE ~authoritativeFailure(q) /\ completeVerification(q)
      <3>1. verdict' = [valid |-> TRUE, known |-> TRUE,
                        last |-> q.result.last, count |-> q.result.checked,
                        clean |-> q.clean]
        BY <2>2 DEF recordVerdict
      <3>2. UpToHead(q.result.last, q.clean)
        BY <1>1, <2>2 DEF VerifierFits
      <3> QED
        BY <1>1, <3>1, <3>2 DEF VerdictFits, UpToHead
    <2>3. CASE ~authoritativeFailure(q) /\ ~completeVerification(q)
      BY <1>1, <2>3, ChainStays, VerdictStays DEF recordVerdict, TrailInv
    <2> QED
      BY <2>1, <2>2, <2>3
  <1>5. AlarmMeansDamage'
    <2>1. CASE authoritativeFailure(q)
      <3>1. alarms' = alarms \union {[code |-> q.result.code, from |-> q.from,
                                     clean |-> q.clean]}
        BY <2>1 DEF recordVerdict
      <3>2. FirstSequence(q.from) = 1 => ~q.clean
        BY <1>1, <2>1 DEF VerifierFits
      <3> QED
        BY <3>1, <3>2 DEF TrailInv, AlarmMeansDamage, FirstSequence
    <2>2. CASE ~authoritativeFailure(q)
      BY <2>2, AlarmsStay DEF recordVerdict, TrailInv
    <2> QED
      BY <2>1, <2>2
  <1> QED
    BY <1>1, <1>3, <1>4, <1>5, ChainStays, WritersStay DEF TrailInv

(* What a verification finds: in undamaged rows nothing that counts, and in *)
(* rows that verify up to the present head no damage.                      *)
LEMMA VerificationFinds ==
  ASSUME TrailInv, NEW from \in Nat, FirstSequence(from) = 1,
         NEW to \in Nat, NEW limit \in Nat, NEW h, SeenHead(h)
  PROVE  LET events == readRange(from, to, limit)
             result == verifyAuditEventChain(events, 1, GENESIS_PREVIOUS_HASH,
                                             h.lastEventHash)
         IN /\ ~damaged /\ result.code # "ok" =>
                 /\ result.code = "HEAD_HASH_MISMATCH"
                 /\ result.last # h.lastSequence
            /\ result.code = "ok" /\ result.checked = h.lastSequence =>
                 UpToHead(result.last, ~damaged)
  <1> DEFINE events == readRange(from, to, limit)
             result == verifyAuditEventChain(events, 1, GENESIS_PREVIOUS_HASH,
                                             h.lastEventHash)
             N == Len(chain)
             H == head.lastSequence
  <1>1. /\ N \in Nat /\ DOMAIN chain = 1..N /\ H \in Nat /\ N <= H
        /\ \A i \in 1..N : chain[i].sequence \in Nat
        /\ \A i \in 1..N : chain[i].payloadDigest \in Digests
    <2>1. \A i \in 1..N : chain[i].payloadDigest \in Digests
      BY ChainShape DEF TrailInv, StoredEvents
    <2> QED
      BY <2>1, ChainShape DEF TrailInv, ChainInOrder
  <1>2. /\ h.lastSequence \in Nat /\ h.lastSequence <= H
        /\ ~damaged => h.lastEventHash = HashAt(h.lastSequence)
    BY DEF SeenHead, ChainHeads
  <1>3. /\ damaged => N < H \/ \E i \in 1..N : chain[i].payload = "changed"
        /\ ~damaged => N = H /\ \A i \in 1..N :
                          FailureOf(chain, i, 1, GENESIS_PREVIOUS_HASH) = "ok"
    BY <1>1 DEF TrailInv, DamageShows, ChainWhole, Verifies
  <1> HIDE DEF H
  <1> DEFINE n == Len(events)
  <1>4. /\ events \in Seq(StoredEvents) /\ n <= N
        /\ \A i \in 1..n : events[i] = chain[i]
    BY ReadFromStart DEF TrailInv
  <1> HIDE DEF events
  <1>5. n \in Nat /\ n <= N
    BY <1>4
  <1> HIDE DEF N
  <1> DEFINE all == AllVerify(events, 1, GENESIS_PREVIOUS_HASH)
             computed == LastHash(events, GENESIS_PREVIOUS_HASH)
  <1>6. /\ result.code = "ok" <=> all /\ computed = h.lastEventHash
        /\ all => result = [code |-> IF computed = h.lastEventHash
                                     THEN "ok" ELSE "HEAD_HASH_MISMATCH",
                            checked |-> n,
                            last |-> IF events = <<>> THEN 0
                                     ELSE events[n].sequence]
    BY <1>4, ChainVerdict
  <1> HIDE DEF result
  <1>61. /\ events = <<>> <=> n = 0
         /\ computed = IF n = 0 THEN GENESIS_PREVIOUS_HASH
                       ELSE events[n].eventHash
    BY <1>4 DEF LastHash
  <1> HIDE DEF n
  <1>7. \A i \in 1..n : FailureOf(events, i, 1, GENESIS_PREVIOUS_HASH)
                          = FailureOf(chain, i, 1, GENESIS_PREVIOUS_HASH)
    <2> SUFFICES ASSUME NEW i \in 1..n
                 PROVE  FailureOf(events, i, 1, GENESIS_PREVIOUS_HASH)
                          = FailureOf(chain, i, 1, GENESIS_PREVIOUS_HASH)
      OBVIOUS
    <2>1. events[i] = chain[i]
      BY <1>4
    <2>2. PreviousIn(events, i, GENESIS_PREVIOUS_HASH)
            = PreviousIn(chain, i, GENESIS_PREVIOUS_HASH)
      <3>1. i # 1 => i - 1 \in 1..n
        BY <1>5
      <3> QED
        BY <1>4, <3>1 DEF PreviousIn
    <2> QED
      BY <2>1, <2>2 DEF FailureOf
  <1>8. all => \A i \in 1..n :
                 /\ events[i].sequence = i
                 /\ createAuditPayloadDigest(chain[i].payload)
                      = chain[i].payloadDigest
    <2> SUFFICES ASSUME all, NEW i \in 1..n
                 PROVE  /\ events[i].sequence = i
                        /\ createAuditPayloadDigest(chain[i].payload)
                             = chain[i].payloadDigest
      OBVIOUS
    <2>1. /\ events[i].sequence = 1 + i - 1
          /\ createAuditPayloadDigest(events[i].payload)
               = events[i].payloadDigest
      BY VerifiesMeans DEF AllVerify, n
    <2> QED
      BY <1>4, <1>5, <2>1
  <1>9. all => result.last = n
    <2>1. ASSUME all, n # 0 PROVE events[n].sequence = n
      BY <1>5, <1>8, <2>1
    <2> HIDE DEF all
    <2> QED
      BY <1>6, <1>61, <2>1
  <1>10. ASSUME ~damaged, result.code # "ok"
         PROVE  /\ result.code = "HEAD_HASH_MISMATCH"
                /\ result.last # h.lastSequence
    <2>1. all
      <3>1. \A i \in 1..N :
              FailureOf(chain, i, 1, GENESIS_PREVIOUS_HASH) = "ok"
        BY <1>3, <1>10
      <3>2. \A i \in 1..n : i \in 1..N
        BY <1>1, <1>5
      <3> QED
        BY <1>7, <3>1, <3>2 DEF AllVerify, n
    <2>2. n = h.lastSequence => computed = h.lastEventHash
      BY <1>2, <1>4, <1>5, <1>10, <1>61 DEF HashAt
    <2> HIDE DEF all, computed
    <2> QED
      BY <1>6, <1>9, <1>10, <2>1, <2>2
  <1>11. ASSUME result.code = "ok", result.checked = h.lastSequence
         PROVE  UpToHead(result.last, ~damaged)
    <2>1. all /\ n = h.lastSequence /\ result.last = n
      BY <1>6, <1>9, <1>11
    <2>2. ASSUME n = H PROVE ~damaged
      <3>1. N = H /\ n = N
        BY <1>1, <1>5, <2>2
      <3>2. \A i \in 1..N : chain[i].payload # "changed"
        BY <1>1, <1>8, <2>1, <3>1, TrailAssumption
        DEF Digests, createAuditPayloadDigest
      <3> QED
        BY <1>1, <1>3, <3>1, <3>2
    <2>3. n \in Nat /\ n <= H /\ (n < H \/ n = H)
      BY <1>1, <1>5
    <2>4. CASE n < H
      BY <2>1, <2>3, <2>4 DEF UpToHead, H
    <2>5. CASE n = H
      BY <2>1, <2>2, <2>3, <2>5 DEF UpToHead, H
    <2> QED
      BY <2>3, <2>4, <2>5
  <1> QED
    BY <1>10, <1>11 DEF events, result

LEMMA CheckRowsKeeps ==
  ASSUME TrailInv, NEW v \in Verifiers, checkRows(v)
  PROVE  TrailInv'
  <1> DEFINE q == verifier[v]
             events == readRange(q.from, q.to, q.limit)
             result == verifyAuditEventChain(events, FirstSequence(q.from),
                         GENESIS_PREVIOUS_HASH, q.head.lastEventHash)
             new == [stage |-> "checked", from |-> q.from, to |-> q.to,
                     head |-> q.head, clean |-> ~damaged, result |-> result]
  <1>1. /\ q.stage = "head" /\ verifier' = [verifier EXCEPT ![v] = new]
        /\ UNCHANGED <<chain, head, locked, writer, verdict, alarms, damaged>>
    BY DEF checkRows
  <1>2. /\ SeenHead(q.head) /\ q.from \in Nat /\ q.to \in Nat
        /\ q.limit \in Nat
    BY <1>1 DEF TrailInv, VerifiersFit, VerifierFits
  <1>3. ASSUME FirstSequence(q.from) = 1
        PROVE  /\ ~damaged /\ result.code # "ok" =>
                    /\ result.code = "HEAD_HASH_MISMATCH"
                    /\ result.last # q.head.lastSequence
               /\ result.code = "ok" /\ result.checked = q.head.lastSequence =>
                    UpToHead(result.last, ~damaged)
    BY <1>2, <1>3, VerificationFinds
  <1>4. VerifierFits(new)
    <2>1. q.from = 0 => FirstSequence(q.from) = 1
      BY DEF FirstSequence
    <2> HIDE DEF q, events, result
    <2> QED
      BY <1>3, <2>1
      DEF VerifierFits, authoritativeFailure, completeVerification
  <1> HIDE DEF new
  <1>5. \A r : VerifierFits(r) => VerifierFits(r)'
    BY <1>1, ChainStays
    DEF VerifierFits, authoritativeFailure, completeVerification, FirstSequence
  <1>6. VerifiersFit'
    BY <1>1, <1>4, <1>5 DEF TrailInv, VerifiersFit
  <1> QED
    BY <1>1, <1>6, ChainStays, WritersStay, VerdictStays, AlarmsStay
    DEF TrailInv

LEMMA TrailStepKeeps ==
  ASSUME TrailInv, [TrailNext]_trailVars PROVE TrailInv'
  <1>1. CASE TrailNext
    BY <1>1, LockKeeps, AppendKeeps, ChangePayloadKeeps, LoseRowKeeps,
       ReadHeadKeeps, CheckRowsKeeps, RecordVerdictKeeps
    DEF TrailNext
  <1>2. CASE UNCHANGED trailVars
    BY <1>2, ChainStays, WritersStay, VerifiersStay, VerdictStays, AlarmsStay
    DEF TrailInv, trailVars
  <1> QED
    BY <1>1, <1>2

-----------------------------------------------------------------------------
(* The verification of a restored chain, batch by batch                    *)

\* The first k batches of rows are there and verify.
VerifiedFront(k) ==
  /\ k * BATCH <= Len(chain)
  /\ \A i \in 1..(k * BATCH) : Verifies(i)

\* Where the batches start.
LEMMA BatchStarts ==
  ASSUME NEW k \in Nat
  PROVE  /\ k * BATCH \in Nat /\ k <= k * BATCH
         /\ (k + 1) * BATCH = k * BATCH + BATCH
         /\ BATCH \in Nat /\ BATCH >= 1 /\ 0 * BATCH = 0
         /\ k * BATCH = 0 => k = 0
  <1>1. BATCH \in Nat /\ BATCH >= 1
    BY TrailAssumption
  <1>2. k * BATCH \in Nat
    BY <1>1
  <1>3. (k + 1) * BATCH = k * BATCH + BATCH
    BY <1>1
  <1>4. k <= k * BATCH
    <2> DEFINE Fits == {m \in Nat : m <= m * BATCH}
    <2>1. 0 \in Fits
      BY <1>1
    <2>2. \A m \in Nat : m \in Fits => m + 1 \in Fits
      <3> SUFFICES ASSUME NEW m \in Nat, m <= m * BATCH
                   PROVE  m + 1 <= (m + 1) * BATCH
        OBVIOUS
      <3>1. m * BATCH \in Nat /\ (m + 1) * BATCH = m * BATCH + BATCH
        BY <1>1
      <3> QED
        BY <1>1, <3>1
    <2> HIDE DEF Fits
    <2>3. k \in Fits
      BY <2>1, <2>2, EveryNatural
    <2> QED
      BY <2>3 DEF Fits
  <1>5. 0 * BATCH = 0
    BY <1>1
  <1> QED
    BY <1>1, <1>2, <1>3, <1>4, <1>5

\* What a verified row says of its sequence.
LEMMA VerifiedSequence ==
  ASSUME NEW i \in Nat, Verifies(i), chain[i].sequence \in Nat
  PROVE  chain[i].sequence = i
  <1>1. chain[i].sequence = 1 + i - 1
    BY VerifiesMeans DEF Verifies
  <1> QED
    BY <1>1

\* The rows of a batch after batches that verified.
LEMMA BatchRows ==
  ASSUME ChainInOrder, NEW k \in Nat, VerifiedFront(k)
  PROVE  LET rest == Len(chain) - k * BATCH
         IN /\ Batch(k) \in Seq(StoredEvents)
            /\ Len(Batch(k)) = IF rest < BATCH THEN rest ELSE BATCH
            /\ \A j \in 1..Len(Batch(k)) : Batch(k)[j] = chain[k * BATCH + j]
  <1> DEFINE N == Len(chain)
             K == k * BATCH
             from == K + 1
             found == Cardinality(InRange(from, 0))
             n == IF found < BATCH THEN found ELSE BATCH
  <1>1. /\ N \in Nat /\ DOMAIN chain = 1..N
        /\ \A i \in 1..N : chain[i] \in StoredEvents
        /\ \A i \in 1..N : chain[i].sequence \in Nat /\ i <= chain[i].sequence
    <2>1. \A i \in 1..N : chain[i] \in StoredEvents
      BY ChainShape
    <2>2. \A i \in 1..N : chain[i].sequence \in Nat
      BY <2>1 DEF StoredEvents
    <2> QED
      BY <2>1, <2>2, ChainShape DEF ChainInOrder
  <1>2. K \in Nat /\ K <= N /\ BATCH \in Nat
    BY BatchStarts DEF VerifiedFront
  <1>3. \A i \in 1..K : chain[i].sequence = i
    BY <1>1, <1>2, VerifiedSequence DEF VerifiedFront
  <1> HIDE DEF N, K
  <1>4. FirstSequence(from) = from /\ from \in Nat
    BY <1>2 DEF FirstSequence
  <1>5. Skipped(from) = 1..K
    BY <1>1, <1>2, <1>3, <1>4 DEF Skipped
  <1>6. InRange(from, 0) = from..N
    BY <1>1, <1>2, <1>3, <1>4 DEF InRange
  <1>7. Cardinality(Skipped(from)) = K
    BY <1>2, <1>5, FS_Interval
  <1>8. found = N - K
    <2>1. from..N = (K + 1)..N
      OBVIOUS
    <2>2. Cardinality((K + 1)..N) = IF K + 1 > N THEN 0 ELSE N - (K + 1) + 1
      BY <1>1, <1>2, FS_Interval
    <2>3. (IF K + 1 > N THEN 0 ELSE N - (K + 1) + 1) = N - K
      BY <1>1, <1>2
    <2> QED
      BY <1>6, <2>1, <2>2, <2>3
  <1>9. n \in Nat /\ n <= N - K /\ n = IF N - K < BATCH THEN N - K ELSE BATCH
    BY <1>1, <1>2, <1>8
  <1>10. Batch(k) = [j \in 1..n |-> chain[K + j]]
    <2>1. Batch(k) = readRange(from, 0, BATCH)
      BY DEF Batch, K
    <2> QED
      BY <2>1, <1>7 DEF readRange
  <1> HIDE DEF n
  <1>11. [j \in 1..n |-> chain[K + j]] \in [1..n -> StoredEvents]
    BY <1>1, <1>2, <1>9
  <1>12. Batch(k) \in Seq(StoredEvents) /\ Len(Batch(k)) = n
    BY <1>9, <1>10, <1>11
  <1> QED
    BY <1>9, <1>10, <1>12 DEF N, K

\* The hash a batch is expected to start from.
LEMMA BatchStartsFrom ==
  ASSUME ChainInOrder, NEW k \in Nat, VerifiedFront(k)
  PROVE  ExpectedHash(k) = HashAt(k * BATCH)
  <1>1. CASE k = 0
    BY <1>1, BatchStarts DEF ExpectedHash, HashAt
  <1>2. CASE k # 0
    <2> DEFINE m == k - 1
    <2>1. m \in Nat /\ k = m + 1
      BY <1>2
    <2> HIDE DEF m
    <2>2. /\ k * BATCH = m * BATCH + BATCH /\ m * BATCH \in Nat
          /\ BATCH \in Nat /\ BATCH >= 1 /\ Len(chain) \in Nat
      BY <2>1, BatchStarts, ChainShape
    <2>3. VerifiedFront(m)
      BY <2>2 DEF VerifiedFront
    <2>4. Len(Batch(m)) = BATCH
      <3>1. Len(Batch(m)) = IF Len(chain) - m * BATCH < BATCH
                            THEN Len(chain) - m * BATCH ELSE BATCH
        BY <2>1, <2>3, BatchRows
      <3>2. ~ (Len(chain) - m * BATCH < BATCH)
        BY <2>2 DEF VerifiedFront
      <3> QED
        BY <3>1, <3>2
    <2>5. Batch(m)[BATCH] = chain[k * BATCH]
      BY <2>1, <2>2, <2>3, <2>4, BatchRows
    <2>6. k * BATCH # 0
      BY <2>2
    <2>7. ExpectedHash(k) = BatchHash(m)
      BY <1>2 DEF ExpectedHash, m
    <2> QED
      BY <2>4, <2>5, <2>6, <2>7 DEF BatchHash, HashAt
  <1> QED
    BY <1>1, <1>2

\* What the verification of one batch says of its rows.
LEMMA BatchMeans ==
  ASSUME ChainInOrder, NEW k \in Nat, VerifiedFront(k)
  PROVE  BatchValid(k) <=>
           \A j \in 1..Len(Batch(k)) : Verifies(k * BATCH + j)
  <1> DEFINE K == k * BATCH
             n == Len(Batch(k))
  <1>1. /\ Batch(k) \in Seq(StoredEvents) /\ n \in Nat /\ K \in Nat
        /\ \A j \in 1..n : Batch(k)[j] = chain[K + j]
        /\ Batch(k) = <<>> <=> n = 0
    <2>1. /\ Batch(k) \in Seq(StoredEvents)
          /\ \A j \in 1..n : Batch(k)[j] = chain[K + j]
      BY BatchRows
    <2>2. K \in Nat
      BY BatchStarts
    <2> QED
      BY <2>1, <2>2
  <1>2. ExpectedHash(k) = HashAt(K)
    BY BatchStartsFrom
  <1> HIDE DEF K, n
  <1>3. ASSUME NEW j \in 1..n
        PROVE  FailureOf(Batch(k), j, K + 1, ExpectedHash(k)) = "ok"
                 <=> Verifies(K + j)
    <2>1. Batch(k)[j] = chain[K + j] /\ j \in Nat /\ j >= 1
      BY <1>1
    <2>2. PreviousIn(Batch(k), j, ExpectedHash(k))
            = PreviousIn(chain, K + j, GENESIS_PREVIOUS_HASH)
      <3>1. CASE j = 1
        BY <1>1, <1>2, <3>1 DEF PreviousIn, HashAt
      <3>2. CASE j # 1
        <4>1. j - 1 \in 1..n /\ K + j # 1 /\ K + j - 1 = K + (j - 1)
          BY <1>1, <2>1, <3>2
        <4> QED
          BY <1>1, <3>2, <4>1 DEF PreviousIn
      <3> QED
        BY <3>1, <3>2
    <2>3. K + 1 + j - 1 = 1 + (K + j) - 1
      BY <1>1, <2>1
    <2> QED
      BY <2>1, <2>2, <2>3 DEF FailureOf, Verifies
  <1>4. AllVerify(Batch(k), K + 1, ExpectedHash(k)) <=>
          \A j \in 1..n : Verifies(K + j)
    BY <1>3 DEF AllVerify, n
  <1>5. BatchValid(k) <=>
          (Batch(k) # <<>> => AllVerify(Batch(k), K + 1, ExpectedHash(k)))
    BY <1>1, EventsVerdict DEF BatchValid, K
  <1>6. n = 0 => \A j \in 1..n : Verifies(K + j)
    OBVIOUS
  <1> QED
    BY <1>1, <1>4, <1>5, <1>6 DEF K, n

\* Which batches are read.
LEMMA BatchIsRead ==
  ASSUME NEW k
  PROVE  k \in BatchesRead <=>
           k \in 0..MaxChain /\ \A j \in 0..(k - 1) : FullBatch(j)
  BY Zenon DEF BatchesRead

\* Batches that are read follow rows that verified.
LEMMA ReadBatchesFollow ==
  ASSUME ChainInOrder,
         \A k \in BatchesRead : VerifiedFront(k) => BatchValid(k)
  PROVE  \A k \in BatchesRead : VerifiedFront(k)
  <1> DEFINE Fronts == {k \in Nat : k \in BatchesRead => VerifiedFront(k)}
  <1>1. 0 \in Fronts
    <2>1. 0 * BATCH = 0 /\ Len(chain) \in Nat
      BY BatchStarts, ChainShape
    <2> QED
      BY <2>1 DEF VerifiedFront
  <1>2. ASSUME NEW k \in Nat, k \in Fronts PROVE k + 1 \in Fronts
    <2> SUFFICES ASSUME k + 1 \in BatchesRead PROVE VerifiedFront(k + 1)
      OBVIOUS
    <2>1. k \in BatchesRead /\ FullBatch(k)
      <3>1. /\ k + 1 \in 0..MaxChain
            /\ \A j \in 0..((k + 1) - 1) : FullBatch(j)
        BY BatchIsRead, Zenon
      <3>2. k \in 0..MaxChain /\ k \in 0..((k + 1) - 1)
        BY <3>1, TrailAssumption
      <3>3. \A j \in 0..(k - 1) : j \in 0..((k + 1) - 1)
        OBVIOUS
      <3>4. k \in BatchesRead
        BY <3>1, <3>2, <3>3, BatchIsRead, Zenon
      <3> QED
        BY <3>1, <3>2, <3>4, Zenon
    <2>2. VerifiedFront(k) /\ BatchValid(k)
      BY <1>2, <2>1
    <2>3. /\ k * BATCH \in Nat /\ BATCH \in Nat /\ Len(chain) \in Nat
          /\ (k + 1) * BATCH = k * BATCH + BATCH
      BY BatchStarts, ChainShape
    <2>4. /\ Len(Batch(k)) = BATCH
          /\ BATCH = IF Len(chain) - k * BATCH < BATCH
                     THEN Len(chain) - k * BATCH ELSE BATCH
      BY <2>1, <2>2, BatchRows DEF FullBatch
    <2>5. (k + 1) * BATCH <= Len(chain)
      BY <2>3, <2>4
    <2>6. \A j \in 1..BATCH : Verifies(k * BATCH + j)
      BY <2>2, <2>4, BatchMeans
    <2>7. \A i \in 1..((k + 1) * BATCH) : Verifies(i)
      <3> SUFFICES ASSUME NEW i \in 1..((k + 1) * BATCH) PROVE Verifies(i)
        OBVIOUS
      <3>1. CASE i <= k * BATCH
        BY <2>2, <2>3, <3>1 DEF VerifiedFront
      <3>2. CASE i > k * BATCH
        <4>1. i - k * BATCH \in 1..BATCH /\ k * BATCH + (i - k * BATCH) = i
          BY <2>3, <3>2
        <4> QED
          BY <2>6, <4>1
      <3> QED
        BY <2>3, <3>1, <3>2
    <2> QED
      BY <2>5, <2>7 DEF VerifiedFront
  <1> HIDE DEF Fronts
  <1>3. Nat \subseteq Fronts
    BY <1>1, <1>2, EveryNatural
  <1>4. BatchesRead \subseteq Nat
    BY TrailAssumption DEF BatchesRead
  <1> QED
    BY <1>3, <1>4 DEF Fronts

\* The batches that are read cover the chain: the last one ends with it.
LEMMA LastBatchEnds ==
  ASSUME ChainInOrder, \A k \in BatchesRead : VerifiedFront(k)
  PROVE  LET last == Max(BatchesRead)
         IN /\ last \in BatchesRead /\ last \in Nat
            /\ last * BATCH + Len(Batch(last)) = Len(chain)
  <1> DEFINE last == Max(BatchesRead)
  <1>1. BatchesRead \subseteq Nat /\ \A k \in BatchesRead : k <= MaxChain
    BY TrailAssumption DEF BatchesRead
  <1>2. 0 \in BatchesRead
    BY TrailAssumption DEF BatchesRead
  <1>3. last \in BatchesRead /\ \A k \in BatchesRead : k <= last
    <2> HIDE DEF last
    <2>1. MaxChain \in Nat /\ BatchesRead # {}
      BY <1>2, TrailAssumption
    <2> QED
      BY <1>1, <2>1, GreatestElement DEF last
  <1> HIDE DEF last
  <1>4. last \in Nat /\ VerifiedFront(last)
    BY <1>1, <1>3
  <1>5. /\ last * BATCH \in Nat /\ BATCH \in Nat /\ Len(chain) \in Nat
        /\ (last + 1) * BATCH = last * BATCH + BATCH
        /\ last <= last * BATCH /\ BATCH >= 1
        /\ Len(chain) <= MaxChain /\ MaxChain \in Nat
    <2>1. Len(chain) \in Nat /\ Len(chain) <= MaxChain
      BY ChainShape, TrailAssumption DEF ChainInOrder
    <2> QED
      BY <1>4, <2>1, BatchStarts, TrailAssumption
  <1>6. Len(Batch(last)) = IF Len(chain) - last * BATCH < BATCH
                           THEN Len(chain) - last * BATCH ELSE BATCH
    BY <1>4, BatchRows
  <1>7. ASSUME FullBatch(last) PROVE last * BATCH + BATCH > Len(chain)
    <2> SUFFICES ASSUME last * BATCH + BATCH <= Len(chain) PROVE FALSE
      BY <1>5
    <2>1. last + 1 \in 0..MaxChain
      BY <1>4, <1>5
    <2>2. \A j \in 0..((last + 1) - 1) : FullBatch(j)
      <3>1. \A j \in 0..(last - 1) : FullBatch(j)
        BY <1>3, BatchIsRead, Zenon
      <3>2. \A j \in 0..((last + 1) - 1) : j \in 0..(last - 1) \/ j = last
        BY <1>4
      <3> QED
        BY <1>7, <3>1, <3>2, Zenon
    <2>3. last + 1 \in BatchesRead
      BY <2>1, <2>2, BatchIsRead, Zenon
    <2> QED
      BY <1>3, <1>4, <2>3
  <1>8. Len(chain) - last * BATCH < BATCH
    BY <1>4, <1>5, <1>6, <1>7 DEF FullBatch
  <1>9. last * BATCH + Len(Batch(last)) = Len(chain)
    BY <1>5, <1>6, <1>8
  <1> QED
    BY <1>3, <1>4, <1>9 DEF last

\* A restored chain verifies batch by batch when it does in one pass.
LEMMA BatchesAgree ==
  ASSUME ChainInOrder PROVE BatchesAgreeWithOnePass
  <1> DEFINE valid == \A k \in BatchesRead : BatchValid(k)
             all == AllVerify(chain, 1, GENESIS_PREVIOUS_HASH)
             last == Max(BatchesRead)
             N == Len(chain)
  <1>1. verifyAuditEventChain(chain, 1, GENESIS_PREVIOUS_HASH,
                              head.lastEventHash).code = "ok"
          <=> all /\ LastHash(chain, GENESIS_PREVIOUS_HASH)
                       = head.lastEventHash
    BY ChainShape, ChainVerdict
  <1>2. N \in Nat /\ BatchesRead \subseteq Nat
    BY ChainShape, TrailAssumption DEF BatchesRead
  <1>3. all => \A k \in BatchesRead : VerifiedFront(k) => BatchValid(k)
    <2> SUFFICES ASSUME all, NEW k \in BatchesRead, VerifiedFront(k)
                 PROVE  BatchValid(k)
      OBVIOUS
    <2>1. k \in Nat /\ k * BATCH \in Nat /\ BATCH \in Nat
      BY <1>2, BatchStarts
    <2>2. k * BATCH <= N
      BY DEF VerifiedFront
    <2>3. Len(Batch(k)) <= N - k * BATCH /\ Len(Batch(k)) \in Nat
      BY <1>2, <2>1, <2>2, BatchRows
    <2>4. \A j \in 1..Len(Batch(k)) : k * BATCH + j \in 1..N
      BY <1>2, <2>1, <2>3
    <2>5. \A i \in 1..N : Verifies(i)
      BY DEF AllVerify, Verifies
    <2> QED
      BY <2>1, <2>4, <2>5, BatchMeans
  <1>4. valid \/ all => \A k \in BatchesRead : VerifiedFront(k)
    BY <1>3, ReadBatchesFollow
  <1>5. ASSUME \A k \in BatchesRead : VerifiedFront(k)
        PROVE  /\ last \in BatchesRead /\ last \in Nat /\ VerifiedFront(last)
               /\ last * BATCH + Len(Batch(last)) = N
    BY <1>5, LastBatchEnds
  <1>6. ASSUME \A k \in BatchesRead : VerifiedFront(k) PROVE valid <=> all
    <2>1. all => valid
      BY <1>3, <1>6
    <2>2. ASSUME valid PROVE all
      <3> HIDE DEF last
      <3>1. /\ last * BATCH \in Nat /\ BATCH \in Nat
            /\ Len(Batch(last)) \in Nat
        <4>1. Batch(last) \in Seq(StoredEvents)
          BY <1>5, <1>6, BatchRows
        <4>2. last * BATCH \in Nat /\ BATCH \in Nat
          BY <1>5, <1>6, BatchStarts
        <4> QED
          BY <4>1, <4>2
      <3>2. \A j \in 1..Len(Batch(last)) : Verifies(last * BATCH + j)
        BY <1>5, <1>6, <2>2, BatchMeans
      <3>3. \A i \in 1..N : Verifies(i)
        <4> SUFFICES ASSUME NEW i \in 1..N PROVE Verifies(i)
          OBVIOUS
        <4>1. CASE i <= last * BATCH
          BY <1>5, <1>6, <3>1, <4>1 DEF VerifiedFront
        <4>2. CASE i > last * BATCH
          <5> DEFINE start == last * BATCH
                     n == Len(Batch(last))
          <5>2. /\ start \in Nat /\ n \in Nat /\ start + n = N /\ N \in Nat
                /\ i \in 1..N /\ i > start
            BY <1>2, <1>5, <1>6, <3>1, <4>2
          <5> HIDE DEF start, n
          <5>3. i - start \in 1..n /\ start + (i - start) = i
            BY <5>2
          <5>1. /\ i - last * BATCH \in 1..Len(Batch(last))
                /\ last * BATCH + (i - last * BATCH) = i
            BY <5>3 DEF start, n
          <5> QED
            BY <3>2, <5>1
        <4> QED
          BY <3>1, <4>1, <4>2
      <3> QED
        BY <3>3 DEF AllVerify, Verifies
    <2> QED
      BY <2>1, <2>2
  <1>7. ASSUME \A k \in BatchesRead : VerifiedFront(k)
        PROVE  (IF Batch(last) # <<>> THEN BatchHash(last)
                ELSE ExpectedHash(last))
                 = LastHash(chain, GENESIS_PREVIOUS_HASH)
    <2> HIDE DEF last
    <2>1. /\ last \in Nat /\ VerifiedFront(last)
          /\ last * BATCH + Len(Batch(last)) = N
      BY <1>5, <1>7
    <2>2. /\ last * BATCH \in Nat /\ Len(Batch(last)) \in Nat
          /\ Batch(last) = <<>> <=> Len(Batch(last)) = 0
          /\ \A j \in 1..Len(Batch(last)) :
               Batch(last)[j] = chain[last * BATCH + j]
      <3>1. /\ Batch(last) \in Seq(StoredEvents)
            /\ \A j \in 1..Len(Batch(last)) :
                 Batch(last)[j] = chain[last * BATCH + j]
        BY <2>1, BatchRows
      <3>2. last * BATCH \in Nat
        BY <2>1, BatchStarts
      <3> QED
        BY <3>1, <3>2
    <2>3. chain = <<>> <=> N = 0
      BY ChainShape
    <2>4. CASE Batch(last) # <<>>
      <3>1. BatchHash(last) = chain[N].eventHash
        BY <2>1, <2>2, <2>4 DEF BatchHash
      <3>2. chain # <<>>
        BY <2>1, <2>2, <2>3, <2>4
      <3> QED
        BY <2>4, <3>1, <3>2 DEF LastHash
    <2>5. CASE Batch(last) = <<>>
      <3>1. N = last * BATCH
        BY <2>1, <2>2, <2>5
      <3>2. ExpectedHash(last) = HashAt(N)
        BY <2>1, <3>1, BatchStartsFrom
      <3> QED
        BY <2>3, <2>5, <3>2 DEF HashAt, LastHash
    <2> QED
      BY <2>4, <2>5
  <1>8. RestoredChainValid <=>
          /\ valid
          /\ head.lastSequence = last * BATCH + Len(Batch(last))
          /\ head.lastEventHash = IF Batch(last) # <<>> THEN BatchHash(last)
                                  ELSE ExpectedHash(last)
    BY DEF RestoredChainValid
  <1> HIDE DEF valid, all, last
  <1>9. BatchesAgreeWithOnePass <=>
          (RestoredChainValid <=>
             /\ verifyAuditEventChain(chain, 1, GENESIS_PREVIOUS_HASH,
                                      head.lastEventHash).code = "ok"
             /\ N = head.lastSequence)
    BY DEF BatchesAgreeWithOnePass
  <1>10. CASE \A k \in BatchesRead : VerifiedFront(k)
    BY <1>1, <1>5, <1>6, <1>7, <1>8, <1>9, <1>10
  <1>11. CASE ~ \A k \in BatchesRead : VerifiedFront(k)
    BY <1>1, <1>4, <1>8, <1>9, <1>11
  <1> QED
    BY <1>10, <1>11

\* A chain of events, its alarms, its verdict and its verification after a
\* restore stay sound while writers append, rows are damaged and
\* administrators verify (appendAuditEvent, verifyChain, auditSummary,
\* verifyWorkspaceAuditChains).
THEOREM TrailHolds == TrailSpec => []TrailIsSound
  <1>1. TrailInit => TrailInv
    BY TrailStarts
  <1>2. TrailInv /\ [TrailNext]_trailVars => TrailInv'
    BY TrailStepKeeps
  <1>3. TrailInv => TrailIsSound
    <2> SUFFICES ASSUME TrailInv PROVE TrailIsSound
      OBVIOUS
    <2>1. ChainInOrder /\ ChainWhole /\ VerdictFits /\ AlarmMeansDamage
      BY DEF TrailInv
    <2>2. ChainEndsAtHead
      <3> SUFFICES ASSUME ~damaged
                   PROVE  /\ Len(chain) = head.lastSequence
                          /\ \A i \in DOMAIN chain : Verifies(i)
                          /\ chain # <<>> =>
                               chain[Len(chain)].eventHash = head.lastEventHash
                          /\ \A i, j \in DOMAIN chain :
                               chain[i].sourceId = chain[j].sourceId => i = j
        BY DEF ChainEndsAtHead, Verifies
      <3>1. chain # <<>> => Len(chain) # 0
        BY <2>1, ChainShape
      <3> QED
        BY <2>1, <3>1 DEF ChainWhole, HashAt
    <2>3. ValidMeansVerified
      <3>1. auditSummary = "valid" =>
              /\ verdict.valid
              /\ \/ head.lastSequence = 0
                 \/ verdict.last = head.lastSequence
        BY DEF auditSummary
      <3> QED
        BY <2>1, <3>1, ChainShape
        DEF ValidMeansVerified, VerdictFits, UpToHead
    <2>4. BatchesAgreeWithOnePass
      BY <2>1, BatchesAgree
    <2> QED
      BY <2>1, <2>2, <2>3, <2>4 DEF TrailIsSound
  <1> QED
    BY <1>1, <1>2, <1>3, PTL DEF TrailSpec
===============================================================================
