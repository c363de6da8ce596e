---------------------------- MODULE RunnerPairing ----------------------------
(***************************************************************************)
(* Pairing a Runner and the life of its device row (runner.repository.ts,  *)
(* runner-pairing.service.ts, runner-credential.guard.ts and pair() of the *)
(* Runner).  A Runner opens a session and polls it; managers of several    *)
(* workspaces may approve or deny it; the poll that finds it approved      *)
(* creates the device.  Repository operations are serializable             *)
(* transactions, but the moment a poll works with is read before its       *)
(* transaction starts, and a heartbeat's credential is checked by a guard  *)
(* in an earlier transaction than the one that applies it.                 *)
(***************************************************************************)
EXTENDS Naturals, Sequences

CONSTANTS
  Workspaces,  \* workspaces whose managers know the user code
  ExpiresAt,   \* when the session expires
  Window,      \* how long the credential may be delivered again
  MaxInterval, \* the poll interval's limit; it starts at 1
  MaxClock, MaxBeats  \* bounds on time and on the changes heartbeats report

ASSUME PairingAssumption ==
  /\ "none" \notin Workspaces
  /\ {ExpiresAt, Window, MaxClock, MaxBeats} \subseteq Nat
  /\ MaxInterval \in Nat \ {0}

VARIABLES
  clock, session, device, asked, told, runner, passed, audit, beats

rpVars == <<clock, session, device, asked, told, runner, passed, audit,
            beats>>

NoSession == [status |-> "none", workspace |-> "none", approvedAt |-> 0,
              polledAt |-> 0, interval |-> 1, deliverUntil |-> 0]
NoDevice == [workspace |-> "none", revoked |-> FALSE, version |-> 1,
             software |-> 0, protocol |-> 0, mode |-> "cli",
             unlock |-> "none", runtime |-> 0]
Paired == device # NoDevice

PairingInit ==
  /\ clock = 1 /\ session = NoSession /\ device = NoDevice
  /\ asked = {}        \* the moments of polls on their way to the server
  /\ told = {}         \* the devices named in the answers to polls
  /\ runner = "unpaired" /\ passed = FALSE /\ audit = <<>> /\ beats = 0

PairingTick ==
  /\ clock < MaxClock /\ clock' = clock + 1
  /\ UNCHANGED <<session, device, asked, told, runner, passed, audit, beats>>

\* createPairingSession, as pair() asks for it.
createPairingSession ==
  /\ runner = "unpaired" /\ session.status = "none"
  /\ session' = [NoSession EXCEPT !.status = "PENDING"]
  /\ runner' = "polling"
  /\ UNCHANGED <<clock, device, asked, told, passed, audit, beats>>

\* expireIfRequired, on the session as a transaction of moment t reads it.
expireIfRequired(t) ==
  IF session.status \in {"PENDING", "APPROVED"} /\ ExpiresAt <= t
  THEN [session EXCEPT !.status = "EXPIRED"] ELSE session

\* inspectPairing persists the expiry it finds.
inspectPairing ==
  /\ expireIfRequired(clock) # session
  /\ session' = expireIfRequired(clock)
  /\ UNCHANGED <<clock, device, asked, told, runner, passed, audit, beats>>

\* Mutant: an approved session may be decided on again.
DecidableUnlessDenied ==
  expireIfRequired(clock).status \in {"PENDING", "APPROVED"}

\* approvePairing and denyPairing: a conflict throws, and the transaction
\* that may just have stored the expiry is rolled back.
Decidable == expireIfRequired(clock).status = "PENDING"
approvePairing(w) ==
  /\ Decidable
  /\ session' = [session EXCEPT !.status = "APPROVED", !.workspace = w,
                                !.approvedAt = clock]
  /\ UNCHANGED <<clock, device, asked, told, runner, passed, audit, beats>>
denyPairing(w) ==
  /\ Decidable
  /\ session' = [session EXCEPT !.status = "DENIED", !.workspace = w]
  /\ UNCHANGED <<clock, device, asked, told, runner, passed, audit, beats>>

-----------------------------------------------------------------------------
\* poll: the service takes the moment, then calls the repository.  A poll
\* after a lost answer is another holder of the device code: pair() itself
\* has ended by then.
poll == /\ runner \in {"polling", "failed"} /\ asked = {}
        /\ asked' = {clock}
        /\ UNCHANGED <<clock, session, device, told, runner, passed, audit,
                       beats>>

\* What pair() does with an answer.  A lost one throws, and pair() ends
\* without ever asking for the same session again.
Hears(answer) ==
  \/ /\ runner' = CASE answer = "paired" -> "saved"
                    [] answer = "wait" -> runner
                    [] OTHER -> "failed"
  \/ runner' = "failed"

\* pollPairing, its answer for a session already consumed.
InWindow(t) == t <= session.deliverUntil

\* pollPairing, the poll that finds the session approved.
consume(t) ==
  /\ device' = [NoDevice EXCEPT !.workspace = session.workspace]
  /\ session' = [session EXCEPT !.status = "CONSUMED", !.polledAt = t,
                                !.deliverUntil = t + Window]
  /\ told' = told \cup {session.workspace}

\* pollPairing, in the order of its early returns.
TooSoon(t) == session.polledAt # 0 /\ t - session.polledAt < session.interval

\* Mutant: the interval grows without its upper bound.
slowDownUncapped(t) ==
  [expireIfRequired(t) EXCEPT !.polledAt = t, !.interval = @ + 1]

slowDown(t) ==
  [expireIfRequired(t) EXCEPT
     !.polledAt = t,
     !.interval = IF @ + 1 < MaxInterval THEN @ + 1 ELSE MaxInterval]
pollPairing(t) ==
  LET now == expireIfRequired(t) IN
  /\ t \in asked /\ asked' = {}
  /\ \/ /\ now.status \in {"DENIED", "EXPIRED"}
        /\ session' = now /\ Hears("end") /\ UNCHANGED <<device, told>>
     \/ /\ now.status = "CONSUMED"
        /\ IF InWindow(t)
           THEN told' = told \cup {device.workspace} /\ Hears("paired")
           ELSE told' = told /\ Hears("end")
        /\ UNCHANGED <<session, device>>
     \/ /\ now.status \in {"PENDING", "APPROVED"} /\ TooSoon(t)
        /\ session' = slowDown(t) /\ Hears("wait")
        /\ UNCHANGED <<device, told>>
     \/ /\ now.status = "PENDING" /\ ~TooSoon(t)
        /\ session' = [now EXCEPT !.polledAt = t] /\ Hears("wait")
        /\ UNCHANGED <<device, told>>
     \/ /\ now.status = "APPROVED" /\ ~TooSoon(t)
        /\ consume(t) /\ Hears("paired")
  /\ UNCHANGED <<clock, passed, audit, beats>>

-----------------------------------------------------------------------------
\* The guard of every Runner request; the request itself runs later.
findRunnerAuthentication == Paired /\ ~device.revoked
canActivate ==
  /\ runner = "saved" /\ ~passed /\ findRunnerAuthentication
  /\ passed' = TRUE
  /\ UNCHANGED <<clock, session, device, asked, told, runner, audit, beats>>

\* heartbeat: the device is read again; a changed version, runtime or
\* secret protector is recorded, each under the revision it made.
StillTrusted == ~device.revoked
softwareChanged(v, p) == device.version # v \/ device.protocol # p
runtimeChanged(m, u) == device.mode # m \/ device.unlock # u
Event(kind, rev, from, to) ==
  [kind |-> kind, rev |-> rev, from |-> from, to |-> to]
heartbeat(v, p, m, u) ==
  LET sw == device.software + IF softwareChanged(v, p) THEN 1 ELSE 0
      rt == device.runtime + IF runtimeChanged(m, u) THEN 1 ELSE 0
      When(c, e) == IF c THEN <<e>> ELSE <<>>
  IN
  /\ passed /\ passed' = FALSE
  /\ StillTrusted
  /\ device' = [device EXCEPT !.version = v, !.protocol = p, !.mode = m,
                              !.unlock = u, !.software = sw, !.runtime = rt]
  /\ device' # device => beats < MaxBeats
  /\ beats' = beats + IF device' # device THEN 1 ELSE 0
  /\ audit' = audit
       \o When(device.version # v, Event("version", sw, device.version, v))
       \o When(device.mode # m, Event("mode", rt, device.mode, m))
       \o When(device.unlock # u, Event("unlock", rt, device.unlock, u))
  /\ UNCHANGED <<clock, session, asked, told, runner>>

\* The same request once the device is revoked: RUNNER_REVOKED.
heartbeatRefused ==
  /\ passed /\ ~StillTrusted
  /\ passed' = FALSE /\ runner' = "stopped"
  /\ UNCHANGED <<clock, session, device, asked, told, audit, beats>>

\* revokeRunnerDevice, the device and its credential; what it does to the
\* runs of the device is RunDispatch's revokeRunnerDevice.
revokeRunnerDevice ==
  /\ Paired /\ ~device.revoked
  /\ device' = [device EXCEPT !.revoked = TRUE]
  /\ UNCHANGED <<clock, session, asked, told, runner, passed, audit, beats>>

PairingNext ==
  \/ PairingTick \/ createPairingSession \/ inspectPairing \/ poll
  \/ \E w \in Workspaces : approvePairing(w) \/ denyPairing(w)
  \/ \E t \in asked : pollPairing(t)
  \/ canActivate \/ heartbeatRefused \/ revokeRunnerDevice
  \/ \E v \in 1..2, p \in 0..1, m \in {"cli", "service"}, 
          u \in {"none", "key"} : heartbeat(v, p, m, u)

PairingSpec == PairingInit /\ [][PairingNext]_rpVars

-----------------------------------------------------------------------------
PairingTypeOK ==
  /\ clock \in 1..MaxClock /\ asked \subseteq 1..MaxClock
  /\ session.status \in {"none", "PENDING", "APPROVED", "DENIED", "EXPIRED",
                         "CONSUMED"}
  /\ session.interval \in 1..MaxInterval
  /\ Paired <=> session.status = "CONSUMED"
  /\ told \subseteq Workspaces
  /\ runner \in {"unpaired", "polling", "saved", "failed", "stopped"}
  /\ beats \in 0..MaxBeats

\* pollPairing and approvePairing: a device exists only for an approval given
\* before the session expired, whatever moments the polls worked with, and
\* every answer that said paired named the workspace that approved.
DeviceComesFromATimelyApproval ==
  Paired => /\ session.approvedAt < ExpiresAt
            /\ device.workspace = session.workspace
            /\ told \subseteq {session.workspace}

\* approvePairing against denyPairing of managers of two workspaces: the
\* first decision stands, and no later poll, expiry or decision moves the
\* session to another workspace.
DecisionIsFinal ==
  session.workspace # "none" =>
    /\ session'.workspace = session.workspace
    /\ session.status = "DENIED" => session'.status = "DENIED"

\* heartbeat against revokeRunnerDevice: a heartbeat whose credential the
\* guard accepted before the revocation changes nothing after it.
RevokedDeviceIsFrozen ==
  device.revoked => device' = device /\ audit' = audit

\* v is the version the events before the i-th lead to; a Runner pairs with
\* version 1.
VersionEvents(trail) ==
  {i \in 1..Len(trail) : trail[i].kind = "version"}
LeadsTo(trail, i, v) ==
  LET earlier == {j \in VersionEvents(trail) : j < i} IN
  /\ earlier = {} => v = 1
  /\ \A j \in earlier : (\A k \in earlier : k <= j) => v = trail[j].to
VersionHistory(trail, v) ==
  /\ \A i, j \in 1..Len(trail) :
       trail[i].kind = trail[j].kind /\ trail[i].rev = trail[j].rev => i = j
  /\ \A i \in VersionEvents(trail) : LeadsTo(trail, i, trail[i].from)
  /\ LeadsTo(trail, Len(trail) + 1, v)

\* heartbeat: the version events of the audit trail, in order, lead from the
\* version the Runner paired with to the one the device has, and no two
\* events of a kind carry the same revision, their source id.
VersionHistoryUnbroken == VersionHistory(audit, device.version)
\* The pairing of a Runner and the life of its device row together
\* (approvePairing, pollPairing, heartbeat, revokeRunnerDevice).
PairingIsSound ==
  /\ [](DeviceComesFromATimelyApproval /\ VersionHistoryUnbroken)
  /\ [][DecisionIsFinal]_rpVars
  /\ [][RevokedDeviceIsFrozen]_rpVars
=============================================================================
