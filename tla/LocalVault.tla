------------------------------ MODULE LocalVault ------------------------------
(***************************************************************************)
(* The Local Secret Store of one paired Runner: the vault file, the        *)
(* commands of `tasktwin-runner secrets` that change it (each a process of *)
(* its own, with its own LocalSecretVaultService), the Runner process that *)
(* unlocks it at start, the inventory the control plane keeps of it, and   *)
(* the secrets one scheduled run is given.                                 *)
(*                                                                         *)
(* A digest is modelled by what it covers, so equal digests mean equal     *)
(* inventories; a wrapped master key carries the context it was            *)
(* authenticated with (AES-GCM associated data, or the context digest of   *)
(* the native payload), so it opens only under that context.  A version of *)
(* a secret stands for its value.  A file damaged from outside the program *)
(* is not modelled.                                                        *)
(***************************************************************************)
EXTENDS Naturals, FiniteSets

CONSTANTS
    Commands,     \* processes of the secrets CLI
    Aliases,      \* secret names
    AliasOf,      \* bound: the one name a process sets or removes
    MaxFresh,     \* bound: vaults and secret versions ever created
    MaxRevision,  \* bound: revisions of the vault file
    MaxStarts,    \* bound: starts and reconnects of the Runner
    MaxBegun      \* bound: commands begun

ASSUME VaultAssumption ==
    "nobody" \notin Commands /\ AliasOf \in [Commands -> Aliases]

VARIABLES
    disk,     \* the vault file, or NoVault
    holder,   \* the process that holds the directory lock, or Nobody
    cli,      \* the state of each command
    runner,   \* the Runner process: its service, runtime and sync in flight
    server,   \* the RunnerSecretInventory row, or NoInventory
    job,      \* the scheduled run and the secrets it was given
    fresh,    \* random identifiers used so far
    starts,   \* Runner starts and reconnects so far
    begun,    \* commands begun so far
    ledger    \* history: what the acknowledged commands leave in the vault

vaultVars == <<disk, holder, cli, runner, server, job, fresh, starts, begun,
          ledger>>

Nobody == "nobody"
NoRecords == [a \in Aliases |-> [version |-> 0, key |-> 0]]

\* What a digest, and so a pin, says of a vault.
DigestOf(id, revision, records) ==
    [id |-> id, revision |-> revision,
     entries |-> [a \in Aliases |-> records[a].version]]

NoPin == DigestOf(0, 0, NoRecords)
NoVault == [id |-> 0, revision |-> 0, records |-> NoRecords,
            digest |-> NoPin,
            protection |-> [profile |-> "none", aad |-> NoPin, key |-> 0]]
NoInventory == [pin |-> NoPin, status |-> "none"]

Exists == disk # NoVault
Pin(vault) == vault.digest

(* One service's view: its lease (the master key, 0 when it has none), the *)
(* vault it belongs to and the pin the control plane last acknowledged.    *)
Locked == [key |-> 0, id |-> 0, pin |-> NoPin]
Adopted(key, id) == [key |-> key, id |-> id, pin |-> NoPin]

NoCommand == [at |-> "idle", cmd |-> "none",
         service |-> Locked, expected |-> 0, candidate |-> NoVault,
         snapshot |-> NoPin, built |-> 0]
Down == [at |-> "down", service |-> Locked, native |-> FALSE, ready |-> FALSE,
         pin |-> NoPin, snapshot |-> NoPin, starting |-> FALSE]
NoJob == [at |-> "none", pin |-> NoPin, got |-> NoPin.entries]

-------------------------------------------------------------------------------
\* assertInventoryDigest
DigestHolds(vault) ==
    vault.digest = DigestOf(vault.id, vault.revision, vault.records)

\* requireUnlockedVault: the lease belongs to the vault now on disk.
Unlocked(service) ==
    /\ Exists
    /\ service.key # 0
    /\ service.id = disk.id
    /\ DigestHolds(disk)

\* A protector opens what it wrapped only under the context it wrapped it in.
ProtectorOpens(vault) ==
    vault.protection.aad = DigestOf(vault.id, vault.revision, vault.records)

\* A record is bound to the key that encrypted it.
Encrypted(version, key) == [version |-> version, key |-> key]

\* assertRecordsDecryptable
Decryptable(vault, key) ==
    \A a \in Aliases : vault.records[a].version # 0 =>
                           vault.records[a].key = key

\* The key is wrapped for the revision and digest the candidate will have.
Wrap(current, records, profile, key) ==
    [profile |-> profile, key |-> key,
     aad |-> DigestOf(current.id, current.revision + 1, records)]

\* commitMutation and the build step of the migration: the next revision.
NewVault(current, records, profile, key) ==
    [id |-> current.id, revision |-> current.revision + 1,
     records |-> records,
     digest |-> DigestOf(current.id, current.revision + 1, records),
     protection |-> Wrap(current, records, profile, key)]

-------------------------------------------------------------------------------
(* The secrets commands.                                                   *)

\* The command starts: init asks for a new passphrase and builds a vault of
\* its own; the others first find out how the vault on disk is protected.
BeginCommand(c, cmd) ==
    /\ cli[c].at = "idle"
    /\ begun < MaxBegun
    /\ begun' = begun + 1
    /\ cli' = [cli EXCEPT ![c] =
                 [NoCommand EXCEPT
                    !.at = IF cmd = "init" THEN "new" ELSE "prompt",
                    !.cmd = cmd]]
    /\ UNCHANGED <<disk, holder, runner, server, job, fresh, starts, ledger>>

\* initialize: a fresh master key and vault identity, not yet on disk.
InitializeVault(c) ==
    /\ cli[c].at = "new"
    /\ fresh < MaxFresh
    /\ fresh' = fresh + 1
    /\ LET blank == [NoVault EXCEPT !.id = fresh']
       IN  cli' = [cli EXCEPT ![c].at = "built", ![c].built = fresh',
                     ![c].candidate =
                         NewVault(blank, NoRecords, "passphrase", fresh')]
    /\ UNCHANGED <<disk, holder, runner, server, job, starts, begun, ledger>>

\* unlockForLocalMutation: unlock with the protector the vault then has.  A
\* wrong passphrase and a failing native bridge are GivesUp.
Unlock(c) ==
    /\ cli[c].at = "prompt"
    /\ cli[c].cmd \in {"set", "remove"}
    /\ Exists /\ DigestHolds(disk) /\ ProtectorOpens(disk)
    /\ cli' = [cli EXCEPT ![c].service = Adopted(disk.protection.key, disk.id),
                 ![c].at = "open"]
    /\ UNCHANGED <<disk, holder, runner, server, job, fresh, starts, begun,
                   ledger>>

\* setSecret up to the write: it reads the vault again, encrypts the new
\* version under the lease's key and builds the next revision.
SetSecret(c) ==
    /\ cli[c].at = "open" /\ cli[c].cmd = "set"
    /\ Unlocked(cli[c].service)
    /\ fresh < MaxFresh
    /\ fresh' = fresh + 1
    /\ LET key == cli[c].service.key
           records == [disk.records EXCEPT ![AliasOf[c]] =
                         Encrypted(fresh', key)]
       IN  cli' = [cli EXCEPT ![c].at = "built", ![c].built = fresh',
                     ![c].expected = disk.revision,
                     ![c].candidate = NewVault(disk, records,
                                          disk.protection.profile, key)]
    /\ UNCHANGED <<disk, holder, runner, server, job, starts, begun, ledger>>

\* removeSecret up to the write; an unknown alias is SECRET_NOT_FOUND.
RemoveSecret(c) ==
    /\ cli[c].at = "open" /\ cli[c].cmd = "remove"
    /\ Unlocked(cli[c].service)
    /\ disk.records[AliasOf[c]].version # 0
    /\ LET records == [disk.records EXCEPT ![AliasOf[c]] =
                         NoRecords[AliasOf[c]]]
       IN  cli' = [cli EXCEPT ![c].at = "built", ![c].built = 0,
                     ![c].expected = disk.revision,
                     ![c].candidate = NewVault(disk, records,
                                          disk.protection.profile,
                                          cli[c].service.key)]
    /\ UNCHANGED <<disk, holder, runner, server, job, fresh, starts, begun,
                   ledger>>

\* migrateProtectorToNative up to the lock: only the revision is kept.
BeginMigration(c) ==
    /\ cli[c].at = "prompt" /\ cli[c].cmd = "migrate"
    /\ disk.protection.profile = "passphrase"
    /\ cli' = [cli EXCEPT ![c].at = "built", ![c].expected = disk.revision]
    /\ UNCHANGED <<disk, holder, runner, server, job, fresh, starts, begun,
                   ledger>>

\* Mutant: the revision the command started from is not compared.
AnyRevision(c) == TRUE

\* replaceVerified's revision check on the vault loaded under the lock.
RevisionExpected(c) ==
    /\ disk.revision = cli[c].expected
    /\ disk.id = cli[c].candidate.id

\* create refuses when a vault is there; replace refuses another revision.
MayReplace(c) ==
    CASE cli[c].cmd = "init" -> ~Exists
      [] cli[c].cmd = "migrate" ->
           /\ disk.revision = cli[c].expected
           /\ disk.protection.profile = "passphrase"
           /\ DigestHolds(disk) /\ ProtectorOpens(disk)
           /\ Decryptable(disk, disk.protection.key)
      [] OTHER -> RevisionExpected(c)

\* The migration keeps the key and the records and changes the protector.
MigrationCandidate ==
    NewVault(disk, disk.records, "native", disk.protection.key)

\* withLock: the lock is taken, the vault loaded and the candidate settled;
\* the migration builds its candidate here, from the vault under the lock.
TakeLock(c) ==
    /\ cli[c].at = "built"
    /\ holder = Nobody
    /\ MayReplace(c)
    /\ holder' = c
    /\ cli' = [cli EXCEPT ![c].at = "locked",
                 ![c].candidate = IF cli[c].cmd = "migrate"
                                  THEN MigrationCandidate ELSE @]
    /\ UNCHANGED <<disk, runner, server, job, fresh, starts, begun, ledger>>

\* verifyCandidate, run on the temporary file: only the migration has one.
CandidateVerified(c) ==
    cli[c].cmd = "migrate" =>
        /\ ProtectorOpens(cli[c].candidate)
        /\ DigestHolds(cli[c].candidate)
        /\ Decryptable(cli[c].candidate, cli[c].candidate.protection.key)

\* writeAtomic: the rename is the commit point; a crash before it leaves the
\* old file.  init and migrate adopt the key of what they wrote.
Replace(c) ==
    /\ cli[c].at = "locked"
    /\ CandidateVerified(c)
    /\ disk' = cli[c].candidate
    /\ holder' = Nobody
    /\ ledger' = IF cli[c].cmd \in {"set", "remove"}
                 THEN [ledger EXCEPT ![AliasOf[c]] = cli[c].built]
                 ELSE ledger
    /\ cli' = [cli EXCEPT ![c].at = "inventory",
                 ![c].candidate = NoVault,
                 ![c].service = IF cli[c].cmd \in {"init", "migrate"}
                     THEN Adopted(disk'.protection.key, disk'.id)
                     ELSE [@ EXCEPT !.pin = NoPin]]
    /\ UNCHANGED <<runner, server, job, fresh, starts, begun>>

\* inventory() of the command's own service.  `list` only prints it and
\* `status` only reads, so neither is an action.
ReadInventory(c) ==
    /\ cli[c].at = "inventory"
    /\ Unlocked(cli[c].service)
    /\ cli' = [cli EXCEPT ![c].at = "send", ![c].snapshot = Pin(disk)]
    /\ UNCHANGED <<disk, holder, runner, server, job, fresh, starts, begun,
                   ledger>>

\* synchronize of the repository: another vault, a lower revision, and an
\* equal revision with another digest are conflicts.
NotOlder(snapshot) == snapshot.revision >= server.pin.revision
Accepts(snapshot) ==
    server = NoInventory
    \/ /\ server.pin.id = snapshot.id
       /\ NotOlder(snapshot)
       /\ server.pin.revision = snapshot.revision => server.pin = snapshot
Accepted(snapshot) == [pin |-> snapshot, status |-> "ready"]

\* A status report other than ready changes only the status, if there is a
\* row; the Runner ignores its failure.
StatusReported(status) ==
    IF server = NoInventory THEN server
    ELSE [server EXCEPT !.status = status]

\* The control plane takes the command's snapshot; the answer may be lost.
CliSynchronizes(c) ==
    /\ cli[c].at = "send"
    /\ Accepts(cli[c].snapshot)
    /\ server' = Accepted(cli[c].snapshot)
    /\ cli' = [cli EXCEPT ![c] = NoCommand]
    /\ UNCHANGED <<disk, holder, runner, job, fresh, starts, begun, ledger>>

\* The command ends in an error, is interrupted or crashes, at any point: a
\* conflict, a lock timeout, a refused snapshot, a wrong passphrase.
\* proper-lockfile frees the lock on release, on exit, or as stale.
GivesUp(c) ==
    /\ cli[c].at # "idle"
    /\ cli' = [cli EXCEPT ![c] = NoCommand]
    /\ holder' = IF holder = c THEN Nobody ELSE holder
    /\ UNCHANGED <<disk, runner, server, job, fresh, starts, begun, ledger>>

-------------------------------------------------------------------------------
(* The Runner.                                                             *)

\* status: what the service says of a vault it has not unlocked.
StoreStatus == IF Exists THEN "locked" ELSE "unavailable"

\* isReady of the service: unlocked, and the vault on disk is the one the
\* control plane acknowledged.
IsReady(service) ==
    /\ Unlocked(service)
    /\ service.pin # NoPin
    /\ Pin(disk) = service.pin

\* prepare: without a vault, in service mode, without a prompt or when the
\* unlock fails, the Runner reports its status and goes on without secrets.
PrepareWithoutSecrets ==
    /\ runner.at = "down"
    /\ starts < MaxStarts
    /\ starts' = starts + 1
    /\ runner' = [Down EXCEPT !.at = "session"]
    /\ server' = StatusReported(StoreStatus)
    /\ UNCHANGED <<disk, holder, cli, job, fresh, begun, ledger>>

\* prepare: the native protector opens the vault by itself, the passphrase
\* one after a prompt; a refresh follows.
PrepareUnlocked ==
    /\ runner.at = "down"
    /\ starts < MaxStarts
    /\ Exists /\ DigestHolds(disk) /\ ProtectorOpens(disk)
    /\ starts' = starts + 1
    /\ runner' = [Down EXCEPT !.at = "refresh", !.starting = TRUE,
                    !.native = disk.protection.profile = "native",
                    !.service = Adopted(disk.protection.key, disk.id)]
    /\ UNCHANGED <<disk, holder, cli, server, job, fresh, begun, ledger>>

\* start's loop: a session ends, and a natively unlocked vault is
\* synchronized again before the next; a passphrase one is not.
ReconnectSession ==
    /\ runner.at = "session"
    /\ job.at \notin {"claimed", "checked"}
    /\ runner.native
    /\ starts < MaxStarts
    /\ starts' = starts + 1
    /\ runner' = [runner EXCEPT !.at = "refresh"]
    /\ UNCHANGED <<disk, holder, cli, server, job, fresh, begun, ledger>>

\* refresh reads the inventory it is about to send.
RefreshReads ==
    /\ runner.at = "refresh"
    /\ Unlocked(runner.service)
    /\ runner' = [runner EXCEPT !.at = "sending", !.ready = FALSE,
                    !.pin = NoPin, !.snapshot = Pin(disk)]
    /\ UNCHANGED <<disk, holder, cli, server, job, fresh, starts, begun,
                   ledger>>

\* refresh ends: the acknowledged pin is kept, and ready says whether the
\* vault on disk still has it.
RefreshEnds ==
    /\ runner.at = "sending"
    /\ Accepts(runner.snapshot)
    /\ server' = Accepted(runner.snapshot)
    /\ LET service == [runner.service EXCEPT !.pin = runner.snapshot]
       IN  runner' = [runner EXCEPT !.at = "session", !.starting = FALSE,
                        !.service = service, !.pin = runner.snapshot,
                        !.ready = IsReady(service)]
    /\ UNCHANGED <<disk, holder, cli, job, fresh, starts, begun, ledger>>

\* refresh fails: prepare goes on unsynchronized; in the loop a conflict
\* (a permanent answer) ends the Runner and a lost answer repeats it.
RefreshFails ==
    /\ runner.at = "sending"
    /\ \/ /\ ~Accepts(runner.snapshot)
          /\ UNCHANGED server
          /\ runner' = IF runner.starting
                       THEN [runner EXCEPT !.at = "session",
                                           !.starting = FALSE]
                       ELSE Down
       \/ /\ \/ UNCHANGED server
             \/ Accepts(runner.snapshot)
                /\ server' = Accepted(runner.snapshot)
          /\ runner' = [runner EXCEPT !.starting = FALSE,
                          !.at = IF @ = "sending" /\ runner.starting
                                 THEN "session" ELSE "refresh"]
    /\ UNCHANGED <<disk, holder, cli, job, fresh, starts, begun, ledger>>

\* The Runner stops or crashes: dispose forgets the key, the pin and ready.
RunnerStops ==
    /\ runner.at # "down"
    /\ runner' = Down
    /\ job' = IF job.at \in {"claimed", "checked"} THEN NoJob ELSE job
    /\ UNCHANGED <<disk, holder, cli, server, fresh, starts, begun, ledger>>

-------------------------------------------------------------------------------
(* A scheduled run that needs every alias the inventory lists.             *)

\* The scheduler pins the inventory of a Runner whose store is ready.
Dispatch ==
    /\ job.at = "none"
    /\ server.status = "ready"
    /\ job' = [NoJob EXCEPT !.at = "queued", !.pin = server.pin]
    /\ UNCHANGED <<disk, holder, cli, runner, server, fresh, starts, begun,
                   ledger>>

\* The claim: Runner and control plane must both still have the pin;
\* otherwise the run is cancelled and its schedule paused.
PinsAgree ==
    /\ server.status = "ready" /\ job.pin = server.pin
    /\ job.pin = runner.pin
Claim ==
    /\ job.at = "queued"
    /\ runner.at = "session"
    /\ job' = IF PinsAgree THEN [job EXCEPT !.at = "claimed"] ELSE NoJob
    /\ UNCHANGED <<disk, holder, cli, runner, server, fresh, starts, begun,
                   ledger>>

\* The provider's acquire, first half: isReady of the service.
CheckReady ==
    /\ job.at = "claimed"
    /\ job' = [job EXCEPT !.at =
                 IF IsReady(runner.service) THEN "checked" ELSE "refused"]
    /\ UNCHANGED <<disk, holder, cli, runner, server, fresh, starts, begun,
                   ledger>>

\* acquireValues reads the vault again and compares it with the run's pin.
PinHolds == Pin(disk) = job.pin
Acquire ==
    /\ job.at = "checked"
    /\ job' = IF /\ Unlocked(runner.service)
                 /\ PinHolds
                 /\ Decryptable(disk, runner.service.key)
              THEN [job EXCEPT !.at = "served",
                      !.got = [a \in Aliases |-> disk.records[a].version]]
              ELSE [job EXCEPT !.at = "refused"]
    /\ UNCHANGED <<disk, holder, cli, runner, server, fresh, starts, begun,
                   ledger>>

\* The run ends; its lease is disposed.
RunEnds ==
    /\ job.at \in {"served", "refused"}
    /\ job' = NoJob
    /\ UNCHANGED <<disk, holder, cli, runner, server, fresh, starts, begun,
                   ledger>>

-------------------------------------------------------------------------------
VaultInit ==
    /\ disk = NoVault
    /\ holder = Nobody
    /\ cli = [c \in Commands |-> NoCommand]
    /\ runner = Down
    /\ server = NoInventory
    /\ job = NoJob
    /\ fresh = 0
    /\ starts = 0
    /\ begun = 0
    /\ ledger = NoPin.entries

VaultNext ==
    \/ \E c \in Commands :
        \/ \E cmd \in {"init", "set", "remove", "migrate"} :
             BeginCommand(c, cmd)
        \/ InitializeVault(c)
        \/ Unlock(c)
        \/ SetSecret(c)
        \/ RemoveSecret(c)
        \/ BeginMigration(c)
        \/ disk.revision < MaxRevision /\ TakeLock(c)
        \/ Replace(c)
        \/ ReadInventory(c)
        \/ CliSynchronizes(c)
        \/ GivesUp(c)
    \/ PrepareWithoutSecrets
    \/ PrepareUnlocked
    \/ ReconnectSession
    \/ RefreshReads
    \/ RefreshEnds
    \/ RefreshFails
    \/ RunnerStops
    \/ Dispatch
    \/ Claim
    \/ CheckReady
    \/ Acquire
    \/ RunEnds

VaultSpec == VaultInit /\ [][VaultNext]_vaultVars

-------------------------------------------------------------------------------
Pins == [id : 0 .. MaxFresh, revision : 0 .. MaxRevision,
         entries : [Aliases -> 0 .. MaxFresh]]

\* Every variable keeps its type.
VaultTypeOK ==
    /\ disk.id \in 0 .. MaxFresh /\ disk.revision \in 0 .. MaxRevision
    /\ disk.digest \in Pins /\ disk.protection.aad \in Pins
    /\ disk.protection.profile \in {"none", "passphrase", "native"}
    /\ holder \in Commands \cup {Nobody}
    /\ \A c \in Commands :
        /\ cli[c].at \in {"idle", "new", "prompt", "open", "built", "locked",
                          "inventory", "send"}
        /\ cli[c].service.pin \in Pins
    /\ runner.at \in {"down", "session", "refresh", "sending"}
    /\ runner.ready \in BOOLEAN /\ runner.pin \in Pins
    /\ server.pin \in Pins
    /\ server.status \in {"none", "ready", "locked", "unavailable"}
    /\ job.at \in {"none", "queued", "claimed", "checked", "served",
                   "refused"}
    /\ ledger \in [Aliases -> 0 .. MaxFresh]

\* Whatever commands ran, in whatever order and wherever they crashed, the
\* vault on disk opens with its own protector, for its own revision, and the
\* key in it decrypts every record (commitMutation rewraps the key for the
\* revision it is about to write, migrateProtectorToNative keeps the key).
VaultOpens ==
    Exists => /\ DigestHolds(disk)
              /\ ProtectorOpens(disk)
              /\ Decryptable(disk, disk.protection.key)

\* The vault holds exactly what the commands that committed left in it: none
\* silently overwrites another's change (replaceVerified's revision check),
\* and a protector migration changes no secret.
NoSilentOverwrite ==
    \A a \in Aliases : disk.records[a].version = ledger[a]

\* The secrets a run is given are exactly the versions the inventory it was
\* dispatched with lists, however the vault and the Runner's synchronization
\* moved on between dispatch, claim, the readiness check and the read.
RunGetsPinnedSecrets ==
    job.at = "served" => job.got = job.pin.entries

\* A claimed run is refused its secrets only when the vault has changed since
\* the inventory it was pinned to: the claim leaves no other reason.
RefusedOnlyAfterChange ==
    job.at = "refused" => Pin(disk) # job.pin

\* The control plane's inventory never goes back: a snapshot read before a
\* command's change and delivered after it does not replace the newer one.
InventoryMovesForward ==
    server.pin.revision <= server'.pin.revision
    /\ (server # NoInventory => server'.pin.id = server.pin.id)
\* The vault, what a run is given of it and the inventory of it together
\* (commitMutation, acquireValues, synchronize).
SecretsAreSound ==
    /\ [](/\ VaultOpens
          /\ NoSilentOverwrite
          /\ RunGetsPinnedSecrets
          /\ RefusedOnlyAfterChange)
    /\ [][InventoryMovesForward]_vaultVars
===============================================================================
