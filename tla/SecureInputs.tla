---------------------------- MODULE SecureInputs ----------------------------
(***************************************************************************)
(* Runs whose inputs only the Runner can read.  The Runner generates a key *)
(* pair, keeps it in a file and registers the public half.  A browser      *)
(* prepares a run, seals the inputs for the key named in the preparation   *)
(* and commits the envelope, which creates the run; the Runner that claims *)
(* it opens the envelope.  Preparation, commit and registration are        *)
(* serializable transactions; answers are lost, processes die between two  *)
(* steps, and Runners, versions and policies change in between.            *)
(***************************************************************************)
EXTENDS Naturals

CONSTANTS
  KeyHolders,    \* paired devices with the capabilities the workflow needs
  MaxIds,     \* bound on the client preparation ids and client run ids
  MaxKeys,    \* bound on the key pairs a Runner generates
  MaxSeals,   \* bound on the envelopes sealed
  TTL,        \* of a preparation
  MaxTime

\* A run is prepared where a Runner is paired that can open its inputs.
ASSUME SecureAssumption ==
  /\ KeyHolders # {}
  /\ MaxKeys \in Nat /\ TTL \in Nat /\ MaxTime \in Nat

VARIABLES
  moment,
  local,       \* Runner -> the key in its file, 0 if none
  pc, mem,     \* Runner -> where ensureRegistered stands, with which key
  registered,  \* Runner -> its ACTIVE key row, 0 if none
  gone,        \* Runner -> "no", "unpaired" or "revoked"
  published,   \* the workflow version is published and the policy allows it
  prep,        \* client preparation id -> preparation row
  run,         \* preparation -> the envelope of the run created from it
  sealed,      \* the envelopes browsers made
  opened,      \* preparation -> what the Runner made of the envelope
  panel        \* the browser's run panel

svars == <<moment, local, pc, mem, registered, gone, published, prep, run,
           sealed, opened, panel>>

Ids == 1..MaxIds
Absent == [runner |-> "none", key |-> 0, runId |-> 0, expiresAt |-> 0]
NoEnvelope == [prep |-> 0, key |-> 0, nonce |-> 0]
Fresh == [runId |-> 0, prepId |-> 0, has |-> FALSE,
          runner |-> CHOOSE n \in KeyHolders : TRUE]

SecureInit ==
  /\ moment = 0
  /\ local = [n \in KeyHolders |-> 0] /\ mem = [n \in KeyHolders |-> 0]
  /\ pc = [n \in KeyHolders |-> "idle"]
  /\ registered = [n \in KeyHolders |-> 0]
  /\ gone = [n \in KeyHolders |-> "no"]
  /\ published = TRUE
  /\ prep = [p \in Ids |-> Absent]
  /\ run = [p \in Ids |-> NoEnvelope]
  /\ sealed = {}
  /\ opened = [p \in Ids |-> "no"]
  /\ panel = Fresh

keyVars == <<local, pc, mem, registered>>
serverVars == <<prep, run>>
-----------------------------------------------------------------------------
\* ensureRegistered, in the steps a crash may fall between: load, generate
\* and save, register.
load(n) ==
  /\ pc[n] = "idle" /\ gone[n] # "unpaired"
  /\ IF local[n] = 0
     THEN /\ mem[n] < MaxKeys
          /\ mem' = [mem EXCEPT ![n] = @ + 1]
          /\ pc' = [pc EXCEPT ![n] = "save"]
     ELSE /\ mem' = [mem EXCEPT ![n] = local[n]]
          /\ pc' = [pc EXCEPT ![n] = "register"]
  /\ UNCHANGED <<moment, local, registered, gone, published, serverVars,
                 sealed,
                 opened, panel>>

\* The store writes a temporary file and renames it.
save(n) ==
  /\ pc[n] = "save"
  /\ local' = [local EXCEPT ![n] = mem[n]]
  /\ pc' = [pc EXCEPT ![n] = "register"]
  /\ UNCHANGED <<moment, mem, registered, gone, published, serverVars, sealed,
                 opened, panel>>

\* One active key per device: the same key again is idempotent, another one
\* is a conflict.
registerRunnerKey(n) ==
  /\ pc[n] = "register"
  /\ registered' = IF gone[n] # "revoked" /\ registered[n] = 0
                   THEN [registered EXCEPT ![n] = mem[n]] ELSE registered
  /\ pc' = [pc EXCEPT ![n] = "idle"]
  /\ UNCHANGED <<moment, local, mem, gone, published, serverVars, sealed,
                 opened,
                 panel>>

crash(n) ==
  /\ pc[n] # "idle"
  /\ pc' = [pc EXCEPT ![n] = "idle"]
  /\ UNCHANGED <<moment, local, mem, registered, gone, published, serverVars,
                 sealed, opened, panel>>

unpair(n) ==
  /\ pc[n] = "idle" /\ gone[n] = "no"
  /\ gone' = [gone EXCEPT ![n] = "unpaired"]
  /\ local' = [local EXCEPT ![n] = 0]
  /\ UNCHANGED <<moment, pc, mem, registered, published, serverVars, sealed,
                 opened, panel>>

revokeKeyHolder(n) ==
  /\ gone[n] = "no"
  /\ gone' = [gone EXCEPT ![n] = "revoked"]
  /\ UNCHANGED <<moment, keyVars, published, serverVars, sealed, opened,
                 panel>>
-----------------------------------------------------------------------------
\* prepare, as a function of the request: the row under the client's id.
Existing(p) == prep[p] # Absent

\* Mutant: the client's run id is not looked up.
RunIdNeverTaken(id) == FALSE

RunIdTaken(id) == \E q \in Ids : Existing(q) /\ prep[q].runId = id
MayPrepare(n) == published /\ gone[n] # "revoked" /\ registered[n] # 0
Prepared(p, id, n, t) ==
  IF ~Existing(p) /\ ~RunIdTaken(id) /\ MayPrepare(n)
  THEN [prep EXCEPT ![p] = [runner |-> n, key |-> registered[n],
                            runId |-> id, expiresAt |-> t + TTL]]
  ELSE prep
\* The request of an existing preparation must be the same.
PrepareSucceeds(p, id, n) ==
  \/ Existing(p) /\ prep[p].runId = id /\ prep[p].runner = n
  \/ ~Existing(p) /\ ~RunIdTaken(id) /\ MayPrepare(n)

\* The panel's ids are made once and kept until the run exists.
NewId(used) == CHOOSE i \in 1..(MaxIds + 1) :
                 /\ i \notin used
                 /\ \A j \in 1..(i - 1) : j \in used
RunIds == {prep[p].runId : p \in Ids}
\* run() of the panel without a preparation; the answer may be lost.
prepare(answered) ==
  LET id == IF panel.runId = 0 THEN NewId(RunIds) ELSE panel.runId
      p == IF panel.prepId = 0 THEN NewId({q \in Ids : Existing(q)})
                               ELSE panel.prepId
      n == panel.runner
  IN
  /\ ~panel.has /\ id <= MaxIds /\ p <= MaxIds
  /\ prep' = Prepared(p, id, n, moment)
  /\ panel' = [panel EXCEPT !.runId = id, !.prepId = p,
                            !.has = answered /\ PrepareSucceeds(p, id, n)]
  /\ UNCHANGED <<moment, keyVars, gone, published, run, sealed, opened>>

chooseRunner(n) ==
  /\ panel' = [panel EXCEPT !.runner = n, !.has = FALSE, !.prepId = 0]
  /\ panel' # panel
  /\ UNCHANGED <<moment, keyVars, gone, published, serverVars, sealed, opened>>

reload ==
  /\ panel # Fresh
  /\ panel' = Fresh
  /\ UNCHANGED <<moment, keyVars, gone, published, serverVars, sealed, opened>>

\* encryptRunInputs: sealed for the key and bound to the preparation; every
\* sealing has its own initialisation vector, hence its own digest.
encryptRunInputs ==
  /\ panel.has
  /\ moment < prep[panel.prepId].expiresAt
  /\ \E nonce \in 1..MaxSeals :
       /\ \A e \in sealed : e.nonce # nonce
       /\ sealed' = sealed \cup {[prep |-> panel.prepId,
                                  key |-> prep[panel.prepId].key,
                                  nonce |-> nonce]}
  /\ UNCHANGED <<moment, keyVars, gone, published, serverVars, opened, panel>>

\* assertEnvelopeBinding and the comparison of the authenticated data, as
\* commit and decryptRunInputs make them.
Bound(p, e) == e.prep = p /\ e.key = prep[p].key

\* commit, for any envelope a client of the API holds.  The answer reaches
\* the panel or not.
Consumed(p) == run[p] # NoEnvelope
MayCommit(p, e) ==
  /\ moment < prep[p].expiresAt
  /\ Bound(p, e)
  /\ gone[prep[p].runner] # "revoked"
  /\ registered[prep[p].runner] = prep[p].key
  /\ published
commit(p, e, answered) ==
  /\ Existing(p) /\ e \in sealed
  /\ Consumed(p) \/ MayCommit(p, e)
  /\ run' = IF Consumed(p) THEN run ELSE [run EXCEPT ![p] = e]
  /\ panel' = IF answered /\ run'[p] = e /\ panel.has /\ panel.prepId = p
              THEN [Fresh EXCEPT !.runner = panel.runner] ELSE panel
  /\ UNCHANGED <<moment, keyVars, gone, published, prep, sealed, opened>>

\* archive of the version, or a policy that denies the workflow.
withdraw ==
  /\ published
  /\ published' = FALSE
  /\ UNCHANGED <<moment, keyVars, gone, serverVars, sealed, opened, panel>>
-----------------------------------------------------------------------------
\* decryptRunInputs.  The content key is wrapped for the key of the envelope
\* and the cipher authenticates the data of the preparation it was made for.
decryptRunInputs(p, e) ==
  /\ moment < prep[p].expiresAt
  /\ Bound(p, e)
  /\ e.key = local[prep[p].runner]
  /\ e.prep = p

\* The Runner that claimed the run; a run whose inputs do not open is
\* executed with an aborted signal.
acquireSecureRuntime(p) ==
  /\ Consumed(p) /\ opened[p] = "no"
  /\ gone[prep[p].runner] = "no"
  /\ opened' = [opened EXCEPT ![p] =
       IF decryptRunInputs(p, run[p]) THEN "opened"
       ELSE IF moment >= prep[p].expiresAt THEN "late" ELSE "invalid"]
  /\ UNCHANGED <<moment, keyVars, gone, published, serverVars, sealed, panel>>

SecureTick ==
  /\ moment < MaxTime
  /\ moment' = moment + 1
  /\ UNCHANGED <<keyVars, gone, published, serverVars, sealed, opened, panel>>

SecureNext ==
  \/ \E n \in KeyHolders :
       \/ load(n) \/ save(n) \/ registerRunnerKey(n) \/ crash(n)
       \/ unpair(n) \/ revokeKeyHolder(n) \/ chooseRunner(n)
  \/ \E answered \in BOOLEAN :
       \/ prepare(answered)
       \/ \E p \in Ids : \E e \in sealed : commit(p, e, answered)
  \/ reload \/ encryptRunInputs \/ withdraw \/ SecureTick
  \/ \E p \in Ids : acquireSecureRuntime(p)

SecureSpec == SecureInit /\ [][SecureNext]_svars
-----------------------------------------------------------------------------
SecureTypeOK ==
  /\ moment \in 0..MaxTime
  /\ local \in [KeyHolders -> 0..MaxKeys] /\ mem \in [KeyHolders -> 0..MaxKeys]
  /\ pc \in [KeyHolders -> {"idle", "save", "register"}]
  /\ registered \in [KeyHolders -> 0..MaxKeys]
  /\ \A p \in Ids : prep[p].expiresAt \in 0..(MaxTime + TTL)
  /\ opened \in [Ids -> {"no", "opened", "late", "invalid"}]

\* ensureRegistered: however often the Runner dies between generating,
\* saving and registering its key, the key the Control Plane hands out for
\* it is the one in its file, until it is unpaired.  Otherwise every later
\* registration would conflict and every envelope would be unreadable.
RegisteredKeyIsHeld ==
  \A n \in KeyHolders :
    registered[n] # 0 /\ gone[n] # "unpaired" => local[n] = registered[n]

\* commit against decryptRunInputs: an envelope the Control Plane accepted
\* opens at the Runner that claims the run, unless it comes too late,
\* whatever was prepared, sealed and committed for other runs.
AcceptedEnvelopeOpens == \A p \in Ids : opened[p] # "invalid"

\* prepare and commit: a request that is retried after its answer was lost
\* creates no second run under a client run id.
OneRunPerClientRun ==
  \A p, q \in Ids :
    Consumed(p) /\ Consumed(q) /\ prep[p].runId = prep[q].runId => p = q

\* commit: the inputs of a run that exists are never replaced, also when the
\* panel seals them again after a lost answer.
InputsAreFinal ==
  \A p \in Ids : run[p] # NoEnvelope => run'[p] = run[p]
\* From the Runner's key to the inputs it opens (ensureRegistered, prepare,
\* commit, decryptRunInputs).
InputsReachTheirRun ==
  /\ [](RegisteredKeyIsHeld /\ AcceptedEnvelopeOpens /\ OneRunPerClientRun)
  /\ [][InputsAreFinal]_svars
=============================================================================
