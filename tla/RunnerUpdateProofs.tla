-------------------------- MODULE RunnerUpdateProofs --------------------------
(***************************************************************************)
(* Proofs about RunnerUpdate: for any number of releases with whatever     *)
(* state schemas they read and write, any number of updates and of faults, *)
(* torn removals or none, an update that ends leaves the service at the    *)
(* release of the active record, no removal takes that release or its      *)
(* predecessor, the source of an apply can read what its target wrote, and *)
(* binding and record part only where the journal says so.                 *)
(*                                                                         *)
(* None of the four is inductive: whether a catch, a rollback or a recover *)
(* ends well depends on what the dead process had done.  StateInv says     *)
(* what each state of the journal leaves open about binding and record,    *)
(* PcInv where the journal is at each step of the process, and MemInv that *)
(* the process remembers no more and no less than it has done.             *)
(***************************************************************************)
EXTENDS RunnerUpdate, TLAPS

-----------------------------------------------------------------------------
(* The inductive invariant                                                 *)

(* The domains of the journal and of what the process remembers.           *)
JournalType ==
  [op : {"none", "apply", "manual_rollback"}, src : Releases \cup {None},
   tgt : Releases \cup {None}, state : States]

MemType ==
  [target : BOOLEAN, switched : BOOLEAN, rebound : BOOLEAN, stopped : BOOLEAN]

(* The releases of the active record differ and stay installed with their  *)
(* activation.                                                             *)
PairInv ==
  /\ active.cur # active.prev
  /\ {active.cur, active.prev} \ {None} \subseteq installed \cap activated

(* An update names two releases, and no release that ever took part in one *)
(* writes another schema than the first did; the target of an apply can    *)
(* be read back by its source.                                             *)
JournalInv ==
  /\ schema = Writes[1]
  /\ \A r \in {bound, active.cur, active.prev, src, tgt} \ {None} :
       Writes[r] = schema
  /\ journal.op # "none" => src # None /\ tgt # None /\ src # tgt
  /\ journal.op = "none" => journal.state = "idle"
  /\ journal.op = "apply" => schema \in Reads[src] /\ schema \in Reads[tgt]

(* Which release runs and which one the record names, by the state of the  *)
(* journal: whoever dies, the next process finds no more than this.        *)
AtSource == active.cur = src /\ bound = src
AtTarget == active.cur = tgt /\ bound = tgt /\ active.prev = src

StateInv ==
  /\ journal.state \in Settled => bound = active.cur /\ svc = "running"
  /\ journal.state \in Settled \ {"idle"} =>
       ((active.cur = tgt) <=> (journal.state = "succeeded"))
  /\ journal.state \in PreSwitch => AtSource
  /\ journal.state = "switching" =>
       \/ active.cur = src /\ bound \in {src, tgt}
       \/ AtTarget
  /\ journal.state \in {"starting_target", "verifying_target"} => AtTarget
  /\ journal.state = "rolling_back" =>
       \/ active.cur = tgt /\ active.prev = src /\ bound \in {src, tgt}
       \/ active.cur = src /\ active.prev = tgt /\ bound = src

(* Where the journal and the service are at each step of the process.      *)
PcInv ==
  /\ updatePc = "prepare" => journal.state = "idle" /\ AtSource
  /\ updatePc = "drain" => journal.state = "preparing"
  /\ updatePc = "waitForDrain" => journal.state = "draining"
  /\ updatePc \in {"stageAndCommit", "commitStaged", "prepareActivation", "ready"} =>
       journal.state = "staging"
  /\ updatePc \in {"stop", "switching"} => journal.state = "ready_to_switch"
  /\ updatePc \in {"rebind", "switch", "starting"} => journal.state = "switching"
  /\ updatePc \in {"start", "verifying"} => journal.state = "starting_target"
  /\ updatePc = "health" => journal.state = "verifying_target"
  /\ updatePc = "rebind" => AtSource
  /\ updatePc = "switch" => active.cur = src /\ bound = tgt
  /\ updatePc \in {"starting", "start", "verifying", "health"} => AtTarget
  /\ updatePc = "retain" => journal.state \in {"succeeded", "rolled_back"}
  /\ updatePc \in {"rb_stop", "rb_rebind", "rb_switch", "rb_start", "rb_health"} =>
       journal.state = "rolling_back"
  /\ updatePc \in {"rb_stop", "rb_rebind"} => AtTarget
  /\ updatePc = "rb_switch" => active.cur = tgt /\ bound = src
  /\ updatePc \in {"rb_start", "rb_health"} => active.cur = src /\ bound = src
  /\ updatePc \in {"rec_remove", "rec_start"} =>
       AtSource /\ journal.state \in PreSwitch \cup {"switching"}
  /\ updatePc = "rec_decide" => journal.state \in TargetStart \cup {"rolling_back"}
  /\ updatePc = "rec_complete" =>
       /\ journal.state \in {"starting_target", "verifying_target"}
       /\ svc = "running"

(* What apply and rollback remember is what they have done.                *)
Trying ==
  {"prepare", "drain", "waitForDrain", "stageAndCommit", "commitStaged",
   "prepareActivation", "ready", "stop", "switching", "rebind", "switch",
   "starting", "start", "verifying", "health"}

MemInv ==
  /\ updatePc \in Trying \cup {"catch"} => journal.op # "none"
  /\ updatePc \in Trying \cup {"catch", "cleanup"} =>
       /\ mem.target /\ ~mem.switched =>
            tgt \notin {active.cur, active.prev}
       /\ journal.op = "manual_rollback" /\ ~mem.switched => tgt = active.prev
       /\ mem.target => journal.op = "apply"
  /\ updatePc \in {"prepare", "drain", "waitForDrain", "stageAndCommit",
             "commitStaged", "prepareActivation", "ready"} =>
       svc = "running" /\ ~mem.stopped /\ ~mem.rebound /\ ~mem.switched
  /\ updatePc \in {"stop", "switching", "rebind"} =>
       mem.stopped /\ ~mem.rebound /\ ~mem.switched
  /\ updatePc = "switch" => mem.stopped /\ mem.rebound /\ ~mem.switched
  /\ updatePc \in {"starting", "start", "verifying", "health"} => mem.switched
  /\ updatePc = "commitStaged" =>
       tgt \notin {active.cur, active.prev} /\ journal.op = "apply"
  /\ updatePc = "prepareActivation" => tgt \in installed
  /\ updatePc \in {"ready", "stop", "switching", "rebind", "switch"} =>
       tgt \in installed \cap activated
  /\ updatePc = "catch" /\ mem.switched => journal.state \in TargetStart /\ AtTarget
  /\ updatePc = "catch" /\ ~mem.switched =>
       /\ active.cur = src /\ journal.state \in PreSwitch \cup {"switching"}
       /\ ~mem.stopped => svc = "running" /\ bound = src
       /\ mem.rebound => journal.state = "switching"
  /\ updatePc = "cleanup" =>
       /\ ~mem.switched
       /\ journal.state \in
            PreSwitch \cup {"switching", "failed_before_switch"}

(* All of it: what no interruption, fault or torn removal can break.       *)
UpdateInv ==
  /\ UpdateTypeOK /\ mem \in MemType
  /\ PairInv /\ JournalInv /\ StateInv /\ PcInv /\ MemInv

-----------------------------------------------------------------------------
(* One lemma per step                                                      *)

(* The journal says preparing.                                             *)
LEMMA PrepareKeeps ==
  ASSUME UpdateConstants, UpdateInv, prepare
  PROVE  UpdateInv'
  <1> USE DEF prepare, At, Goto, NoFault, stores, service, src, tgt,
              Transition, AtSource, AtTarget, Trying, None
  <1>0. /\ UpdateTypeOK /\ mem \in MemType
        /\ PairInv /\ JournalInv /\ StateInv /\ PcInv /\ MemInv
    BY DEF UpdateInv
  <1>a. /\ journal'.op = journal.op
        /\ journal'.src = journal.src /\ journal'.tgt = journal.tgt
        /\ journal' \in JournalType
    BY <1>0 DEF UpdateTypeOK, JournalType, States, PreSwitch
  <1>1. UpdateTypeOK' /\ mem' \in MemType
    BY <1>0, <1>a DEF UpdateTypeOK, JournalType
  <1>2. PairInv'
    BY <1>0 DEF PairInv
  <1>3. JournalInv'
    BY <1>0 DEF JournalInv, MemInv
  <1>4. StateInv'
    BY <1>0 DEF StateInv, PcInv, MemInv, JournalInv
  <1>5. PcInv'
    BY <1>0 DEF UpdateTypeOK, PcInv
  <1>6. MemInv'
    BY <1>0 DEF MemInv
  <1> QED
    BY <1>1, <1>2, <1>3, <1>4, <1>5, <1>6 DEF UpdateInv

(* The Runner is told to drain.                                            *)
LEMMA DrainKeeps ==
  ASSUME UpdateConstants, UpdateInv, drain
  PROVE  UpdateInv'
  <1> USE DEF drain, At, Goto, NoFault, stores, service, src, tgt, Transition,
              AtSource, AtTarget, Trying, None
  <1>0. /\ UpdateTypeOK /\ mem \in MemType
        /\ PairInv /\ JournalInv /\ StateInv /\ PcInv /\ MemInv
    BY DEF UpdateInv
  <1>a. /\ journal'.op = journal.op
        /\ journal'.src = journal.src /\ journal'.tgt = journal.tgt
        /\ journal' \in JournalType
    BY <1>0 DEF UpdateTypeOK, JournalType, States, PreSwitch
  <1>1. UpdateTypeOK' /\ mem' \in MemType
    BY <1>0, <1>a DEF UpdateTypeOK, JournalType
  <1>2. PairInv'
    BY <1>0 DEF PairInv
  <1>3. JournalInv'
    BY <1>0 DEF JournalInv, PcInv
  <1>4. StateInv'
    BY <1>0 DEF StateInv, PcInv, MemInv, JournalInv, PreSwitch
  <1>5. PcInv'
    BY <1>0 DEF UpdateTypeOK, PcInv
  <1>6. MemInv'
    BY <1>0 DEF MemInv
  <1> QED
    BY <1>1, <1>2, <1>3, <1>4, <1>5, <1>6 DEF UpdateInv

(* Drained, or given up.                                                   *)
LEMMA WaitForDrainKeeps ==
  ASSUME UpdateConstants, UpdateInv, waitForDrain
  PROVE  UpdateInv'
  <1> USE DEF waitForDrain, At, Goto, NoFault, stores, service, src, tgt,
              Transition, AtSource, AtTarget, Trying, None
  <1>0. /\ UpdateTypeOK /\ mem \in MemType
        /\ PairInv /\ JournalInv /\ StateInv /\ PcInv /\ MemInv
    BY DEF UpdateInv
  <1>a. /\ journal'.op = journal.op
        /\ journal'.src = journal.src /\ journal'.tgt = journal.tgt
        /\ journal' \in JournalType
    BY <1>0 DEF UpdateTypeOK, JournalType, States, PreSwitch, Settled
  <1>1. UpdateTypeOK' /\ mem' \in MemType
    BY <1>0, <1>a DEF UpdateTypeOK, JournalType
  <1>2. PairInv'
    BY <1>0 DEF PairInv
  <1>3. JournalInv'
    BY <1>0, <1>a DEF JournalInv, PcInv
  <1>4. StateInv'
    BY <1>0 DEF StateInv, PcInv, MemInv, JournalInv, UpdateTypeOK, PreSwitch
  <1>5. PcInv'
    BY <1>0 DEF UpdateTypeOK, PcInv
  <1>6. MemInv'
    BY <1>0 DEF MemInv, UpdateTypeOK
  <1> QED
    BY <1>1, <1>2, <1>3, <1>4, <1>5, <1>6 DEF UpdateInv

(* The copy into the staging directory.                                    *)
LEMMA StageAndCommitKeeps ==
  ASSUME UpdateConstants, UpdateInv, stageAndCommit
  PROVE  UpdateInv'
  <1> USE DEF stageAndCommit, At, Goto, NoFault, stores, service, src, tgt,
              AtSource, AtTarget, Trying, None
  <1>0. /\ UpdateTypeOK /\ mem \in MemType
        /\ PairInv /\ JournalInv /\ StateInv /\ PcInv /\ MemInv
    BY DEF UpdateInv
  <1>a. /\ journal'.op = journal.op
        /\ journal'.src = journal.src /\ journal'.tgt = journal.tgt
        /\ journal' \in JournalType
    BY <1>0 DEF UpdateTypeOK, JournalType
  <1>b. /\ active' \in [cur : Releases, prev : Releases \cup {None}]
        /\ bound' \in Releases /\ svc' \in {"running", "stopped"}
    BY <1>0 DEF UpdateTypeOK
  <1>c. /\ installed' \subseteq Releases /\ torn' \subseteq Releases
        /\ activated' \subseteq Releases
        /\ staging' \subseteq Releases \X Releases
    BY <1>0 DEF UpdateTypeOK, PcInv, JournalInv
  <1>d. ops' \in 0 .. MaxOps /\ faults' \in 0 .. MaxFaults
    BY <1>0 DEF UpdateTypeOK
  <1>e. mem' \in MemType
    BY <1>0 DEF MemType
  <1>1. UpdateTypeOK' /\ mem' \in MemType
    BY <1>a, <1>b, <1>c, <1>d, <1>e DEF UpdateTypeOK, JournalType
  <1>2. PairInv'
    BY <1>0 DEF PairInv
  <1>3. JournalInv'
    BY <1>0 DEF JournalInv
  <1>4. StateInv'
    BY <1>0 DEF StateInv
  <1>5. PcInv'
    BY <1>0 DEF UpdateTypeOK, PcInv
  <1>6. MemInv'
    <2>1. CASE journal.op = "manual_rollback"
      BY <1>0, <2>1 DEF MemInv, JournalInv, PairInv
    <2>2. CASE /\ journal.op # "manual_rollback"
               /\ tgt \in installed \cup torn \/ <<src, tgt>> \in staging
      BY <1>0, <2>2 DEF MemInv, PcInv, StateInv, PreSwitch
    <2>3. CASE /\ journal.op # "manual_rollback"
               /\ ~(tgt \in installed \cup torn \/ <<src, tgt>> \in staging)
      <3>1. tgt \notin {active.cur, active.prev} /\ journal.op = "apply"
        BY <1>0, <2>3 DEF MemInv, JournalInv, PairInv, UpdateTypeOK
      <3> QED
        BY <1>0, <2>3, <3>1 DEF MemInv
    <2> QED
      BY <2>1, <2>2, <2>3
  <1> QED
    BY <1>1, <1>2, <1>3, <1>4, <1>5, <1>6 DEF UpdateInv

(* The staged directory becomes an installed release.                      *)
LEMMA CommitStagedKeeps ==
  ASSUME UpdateConstants, UpdateInv, commitStaged
  PROVE  UpdateInv'
  <1> USE DEF commitStaged, At, Goto, NoFault, stores, service, src, tgt,
              AtSource, AtTarget, Trying, None
  <1>0. /\ UpdateTypeOK /\ mem \in MemType
        /\ PairInv /\ JournalInv /\ StateInv /\ PcInv /\ MemInv
    BY DEF UpdateInv
  <1>a. /\ journal'.op = journal.op
        /\ journal'.src = journal.src /\ journal'.tgt = journal.tgt
        /\ journal' \in JournalType
    BY <1>0 DEF UpdateTypeOK, JournalType
  <1>b. /\ active' \in [cur : Releases, prev : Releases \cup {None}]
        /\ bound' \in Releases /\ svc' \in {"running", "stopped"}
    BY <1>0 DEF UpdateTypeOK
  <1>c. /\ installed' \subseteq Releases /\ torn' \subseteq Releases
        /\ activated' \subseteq Releases
        /\ staging' \subseteq Releases \X Releases
    BY <1>0 DEF UpdateTypeOK, PcInv, JournalInv
  <1>d. ops' \in 0 .. MaxOps /\ faults' \in 0 .. MaxFaults
    BY <1>0 DEF UpdateTypeOK
  <1>e. mem' \in MemType
    BY <1>0 DEF MemType
  <1>1. UpdateTypeOK' /\ mem' \in MemType
    BY <1>a, <1>b, <1>c, <1>d, <1>e DEF UpdateTypeOK, JournalType
  <1>2. PairInv'
    BY <1>0 DEF PairInv
  <1>3. JournalInv'
    BY <1>0 DEF JournalInv
  <1>4. StateInv'
    BY <1>0 DEF StateInv
  <1>5. PcInv'
    BY <1>0 DEF UpdateTypeOK, PcInv
  <1>6. MemInv'
    BY <1>0 DEF MemInv
  <1> QED
    BY <1>1, <1>2, <1>3, <1>4, <1>5, <1>6 DEF UpdateInv

(* The activation configuration.                                           *)
LEMMA PrepareActivationKeeps ==
  ASSUME UpdateConstants, UpdateInv, prepareActivation
  PROVE  UpdateInv'
  <1> USE DEF prepareActivation, At, Goto, NoFault, stores, service, src, tgt,
              AtSource, AtTarget, Trying, None
  <1>0. /\ UpdateTypeOK /\ mem \in MemType
        /\ PairInv /\ JournalInv /\ StateInv /\ PcInv /\ MemInv
    BY DEF UpdateInv
  <1>1. UpdateTypeOK' /\ mem' \in MemType
    BY <1>0 DEF UpdateTypeOK, MemInv
  <1>2. PairInv'
    BY <1>0 DEF PairInv
  <1>3. JournalInv'
    BY <1>0 DEF JournalInv
  <1>4. StateInv'
    BY <1>0 DEF StateInv
  <1>5. PcInv'
    BY <1>0 DEF UpdateTypeOK, PcInv
  <1>6. MemInv'
    BY <1>0 DEF MemInv
  <1> QED
    BY <1>1, <1>2, <1>3, <1>4, <1>5, <1>6 DEF UpdateInv

(* The journal says ready.                                                 *)
LEMMA ReadyKeeps ==
  ASSUME UpdateConstants, UpdateInv, ready
  PROVE  UpdateInv'
  <1> USE DEF ready, At, Goto, NoFault, stores, service, src, tgt, Transition,
              AtSource, AtTarget, Trying, None
  <1>0. /\ UpdateTypeOK /\ mem \in MemType
        /\ PairInv /\ JournalInv /\ StateInv /\ PcInv /\ MemInv
    BY DEF UpdateInv
  <1>a. /\ journal'.op = journal.op
        /\ journal'.src = journal.src /\ journal'.tgt = journal.tgt
        /\ journal' \in JournalType
    BY <1>0 DEF UpdateTypeOK, JournalType, States, PreSwitch
  <1>b. /\ active' \in [cur : Releases, prev : Releases \cup {None}]
        /\ bound' \in Releases /\ svc' \in {"running", "stopped"}
    BY <1>0 DEF UpdateTypeOK
  <1>c. /\ installed' \subseteq Releases /\ torn' \subseteq Releases
        /\ activated' \subseteq Releases
        /\ staging' \subseteq Releases \X Releases
    BY <1>0 DEF UpdateTypeOK
  <1>d. ops' \in 0 .. MaxOps /\ faults' \in 0 .. MaxFaults
    BY <1>0 DEF UpdateTypeOK
  <1>e. mem' \in MemType
    BY <1>0 DEF MemType
  <1>1. UpdateTypeOK' /\ mem' \in MemType
    BY <1>a, <1>b, <1>c, <1>d, <1>e DEF UpdateTypeOK, JournalType
  <1>2. PairInv'
    BY <1>0 DEF PairInv
  <1>3. JournalInv'
    BY <1>0 DEF JournalInv, PcInv
  <1>4. StateInv'
    BY <1>0 DEF StateInv, PcInv, MemInv, JournalInv, PreSwitch
  <1>5. PcInv'
    BY <1>0 DEF UpdateTypeOK, PcInv
  <1>6. MemInv'
    BY <1>0 DEF MemInv, PcInv, StateInv, MemType, PreSwitch
  <1> QED
    BY <1>1, <1>2, <1>3, <1>4, <1>5, <1>6 DEF UpdateInv

(* The service stops.                                                      *)
LEMMA StopAndWaitKeeps ==
  ASSUME UpdateConstants, UpdateInv, stopAndWait
  PROVE  UpdateInv'
  <1> USE DEF stopAndWait, At, Goto, NoFault, stores, service, src, tgt,
              AtSource, AtTarget, Trying, None
  <1>0. /\ UpdateTypeOK /\ mem \in MemType
        /\ PairInv /\ JournalInv /\ StateInv /\ PcInv /\ MemInv
    BY DEF UpdateInv
  <1>1. UpdateTypeOK' /\ mem' \in MemType
    BY <1>0 DEF UpdateTypeOK
  <1>2. PairInv'
    BY <1>0 DEF PairInv
  <1>3. JournalInv'
    BY <1>0 DEF JournalInv
  <1>4. StateInv'
    BY <1>0 DEF StateInv, PcInv, Settled
  <1>5. PcInv'
    BY <1>0 DEF UpdateTypeOK, PcInv
  <1>6. MemInv'
    BY <1>0 DEF MemInv
  <1> QED
    BY <1>1, <1>2, <1>3, <1>4, <1>5, <1>6 DEF UpdateInv

(* The journal says switching.                                             *)
LEMMA SwitchingKeeps ==
  ASSUME UpdateConstants, UpdateInv, switching
  PROVE  UpdateInv'
  <1> USE DEF switching, At, Goto, NoFault, stores, service, src, tgt,
              Transition, AtSource, AtTarget, Trying, None
  <1>0. /\ UpdateTypeOK /\ mem \in MemType
        /\ PairInv /\ JournalInv /\ StateInv /\ PcInv /\ MemInv
    BY DEF UpdateInv
  <1>a. /\ journal'.op = journal.op
        /\ journal'.src = journal.src /\ journal'.tgt = journal.tgt
        /\ journal' \in JournalType
    BY <1>0 DEF UpdateTypeOK, JournalType, States, TargetStart
  <1>1. UpdateTypeOK' /\ mem' \in MemType
    BY <1>0, <1>a DEF UpdateTypeOK, JournalType
  <1>2. PairInv'
    BY <1>0 DEF PairInv
  <1>3. JournalInv'
    BY <1>0 DEF JournalInv, PcInv
  <1>4. StateInv'
    BY <1>0 DEF StateInv, PcInv, PreSwitch, Settled
  <1>5. PcInv'
    BY <1>0 DEF UpdateTypeOK, PcInv, StateInv, PreSwitch
  <1>6. MemInv'
    BY <1>0 DEF MemInv
  <1> QED
    BY <1>1, <1>2, <1>3, <1>4, <1>5, <1>6 DEF UpdateInv

(* The service is bound to the target.                                     *)
LEMMA RebindKeeps ==
  ASSUME UpdateConstants, UpdateInv, rebind
  PROVE  UpdateInv'
  <1> USE DEF rebind, At, Goto, NoFault, stores, service, src, tgt, AtSource,
              AtTarget, Trying, None
  <1>0. /\ UpdateTypeOK /\ mem \in MemType
        /\ PairInv /\ JournalInv /\ StateInv /\ PcInv /\ MemInv
    BY DEF UpdateInv
  <1>1. UpdateTypeOK' /\ mem' \in MemType
    BY <1>0 DEF UpdateTypeOK, MemType, MemInv
  <1>2. PairInv'
    BY <1>0 DEF PairInv
  <1>3. JournalInv'
    BY <1>0 DEF JournalInv
  <1>4. StateInv'
    BY <1>0 DEF StateInv, PcInv, PreSwitch
  <1>5. PcInv'
    BY <1>0 DEF UpdateTypeOK, PcInv
  <1>6. MemInv'
    BY <1>0 DEF MemInv
  <1> QED
    BY <1>1, <1>2, <1>3, <1>4, <1>5, <1>6 DEF UpdateInv

(* The active record names the target.                                     *)
LEMMA SwitchKeeps ==
  ASSUME UpdateConstants, UpdateInv, switch
  PROVE  UpdateInv'
  <1> USE DEF switch, At, Goto, NoFault, stores, service, src, tgt,
              SwitchRecord, AtSource, AtTarget, Trying, None
  <1>0. /\ UpdateTypeOK /\ mem \in MemType
        /\ PairInv /\ JournalInv /\ StateInv /\ PcInv /\ MemInv
    BY DEF UpdateInv
  <1>1. UpdateTypeOK' /\ mem' \in MemType
    BY <1>0 DEF UpdateTypeOK, MemType, PcInv
  <1>2. PairInv'
    BY <1>0 DEF PairInv, MemInv, JournalInv
  <1>3. JournalInv'
    BY <1>0 DEF JournalInv
  <1>4. StateInv'
    BY <1>0 DEF StateInv, PcInv
  <1>5. PcInv'
    BY <1>0 DEF UpdateTypeOK, PcInv
  <1>6. MemInv'
    BY <1>0 DEF MemInv
  <1> QED
    BY <1>1, <1>2, <1>3, <1>4, <1>5, <1>6 DEF UpdateInv

(* The journal says starting.                                              *)
LEMMA StartingKeeps ==
  ASSUME UpdateConstants, UpdateInv, starting
  PROVE  UpdateInv'
  <1> USE DEF starting, At, Goto, NoFault, stores, service, src, tgt,
              Transition, AtSource, AtTarget, Trying, None
  <1>0. /\ UpdateTypeOK /\ mem \in MemType
        /\ PairInv /\ JournalInv /\ StateInv /\ PcInv /\ MemInv
    BY DEF UpdateInv
  <1>a. /\ journal'.op = journal.op
        /\ journal'.src = journal.src /\ journal'.tgt = journal.tgt
        /\ journal' \in JournalType
    BY <1>0 DEF UpdateTypeOK, JournalType, States, TargetStart
  <1>1. UpdateTypeOK' /\ mem' \in MemType
    BY <1>0, <1>a DEF UpdateTypeOK, JournalType
  <1>2. PairInv'
    BY <1>0 DEF PairInv
  <1>3. JournalInv'
    BY <1>0 DEF JournalInv, PcInv
  <1>4. StateInv'
    BY <1>0 DEF StateInv, PcInv, PreSwitch, Settled
  <1>5. PcInv'
    BY <1>0 DEF UpdateTypeOK, PcInv
  <1>6. MemInv'
    BY <1>0 DEF MemInv
  <1> QED
    BY <1>1, <1>2, <1>3, <1>4, <1>5, <1>6 DEF UpdateInv

(* The service starts.                                                     *)
LEMMA StartAndWaitKeeps ==
  ASSUME UpdateConstants, UpdateInv, startAndWait
  PROVE  UpdateInv'
  <1> USE DEF startAndWait, At, Goto, NoFault, stores, service, src, tgt,
              Started, AtSource, AtTarget, Trying, None
  <1>0. /\ UpdateTypeOK /\ mem \in MemType
        /\ PairInv /\ JournalInv /\ StateInv /\ PcInv /\ MemInv
    BY DEF UpdateInv
  <1>1. UpdateTypeOK' /\ mem' \in MemType
    BY <1>0 DEF UpdateTypeOK
  <1>2. PairInv'
    BY <1>0 DEF PairInv
  <1>3. JournalInv'
    BY <1>0 DEF JournalInv, PcInv
  <1>4. StateInv'
    BY <1>0 DEF StateInv
  <1>5. PcInv'
    BY <1>0 DEF UpdateTypeOK, PcInv
  <1>6. MemInv'
    BY <1>0 DEF MemInv
  <1> QED
    BY <1>1, <1>2, <1>3, <1>4, <1>5, <1>6 DEF UpdateInv

(* The journal says verifying.                                             *)
LEMMA VerifyingKeeps ==
  ASSUME UpdateConstants, UpdateInv, verifying
  PROVE  UpdateInv'
  <1> USE DEF verifying, At, Goto, NoFault, stores, service, src, tgt,
              Transition, AtSource, AtTarget, Trying, None
  <1>0. /\ UpdateTypeOK /\ mem \in MemType
        /\ PairInv /\ JournalInv /\ StateInv /\ PcInv /\ MemInv
    BY DEF UpdateInv
  <1>a. /\ journal'.op = journal.op
        /\ journal'.src = journal.src /\ journal'.tgt = journal.tgt
        /\ journal' \in JournalType
    BY <1>0 DEF UpdateTypeOK, JournalType, States, TargetStart
  <1>1. UpdateTypeOK' /\ mem' \in MemType
    BY <1>0, <1>a DEF UpdateTypeOK, JournalType
  <1>2. PairInv'
    BY <1>0 DEF PairInv
  <1>3. JournalInv'
    BY <1>0 DEF JournalInv, PcInv
  <1>4. StateInv'
    BY <1>0 DEF StateInv, PcInv, PreSwitch, Settled
  <1>5. PcInv'
    BY <1>0 DEF UpdateTypeOK, PcInv
  <1>6. MemInv'
    BY <1>0 DEF MemInv
  <1> QED
    BY <1>1, <1>2, <1>3, <1>4, <1>5, <1>6 DEF UpdateInv

(* The health of the target decides.                                       *)
LEMMA VerifyHealthKeeps ==
  ASSUME UpdateConstants, UpdateInv, verifyHealth
  PROVE  UpdateInv'
  <1> USE DEF verifyHealth, At, Goto, NoFault, stores, service, src, tgt,
              Transition, MayBeHealthy, AtSource, AtTarget, Trying, None
  <1>0. /\ UpdateTypeOK /\ mem \in MemType
        /\ PairInv /\ JournalInv /\ StateInv /\ PcInv /\ MemInv
    BY DEF UpdateInv
  <1>a. /\ journal'.op = journal.op
        /\ journal'.src = journal.src /\ journal'.tgt = journal.tgt
        /\ journal' \in JournalType
    BY <1>0 DEF UpdateTypeOK, JournalType, States, Settled
  <1>1. UpdateTypeOK' /\ mem' \in MemType
    BY <1>0, <1>a DEF UpdateTypeOK, JournalType
  <1>2. PairInv'
    BY <1>0 DEF PairInv
  <1>3. JournalInv'
    BY <1>0, <1>a DEF JournalInv, PcInv
  <1>4. StateInv'
    BY <1>0 DEF StateInv, PcInv, UpdateTypeOK, PreSwitch, Settled
  <1>5. PcInv'
    BY <1>0 DEF UpdateTypeOK, PcInv
  <1>6. MemInv'
    BY <1>0 DEF MemInv
  <1> QED
    BY <1>1, <1>2, <1>3, <1>4, <1>5, <1>6 DEF UpdateInv

(* Releases beyond the pair go.                                            *)
LEMMA ApplyRetentionKeeps ==
  ASSUME UpdateConstants, UpdateInv, applyRetention
  PROVE  UpdateInv'
  <1> USE DEF applyRetention, At, Goto, NoFault, stores, service, src, tgt,
              Remove, Retained, AtSource, AtTarget, Trying, None
  <1>0. /\ UpdateTypeOK /\ mem \in MemType
        /\ PairInv /\ JournalInv /\ StateInv /\ PcInv /\ MemInv
    BY DEF UpdateInv
  <1>1. UpdateTypeOK' /\ mem' \in MemType
    BY <1>0 DEF UpdateTypeOK
  <1>2. PairInv'
    BY <1>0 DEF PairInv
  <1>3. JournalInv'
    BY <1>0 DEF JournalInv
  <1>4. StateInv'
    BY <1>0 DEF StateInv
  <1>5. PcInv'
    BY <1>0 DEF UpdateTypeOK, PcInv
  <1>6. MemInv'
    BY <1>0 DEF MemInv
  <1> QED
    BY <1>1, <1>2, <1>3, <1>4, <1>5, <1>6 DEF UpdateInv

(* The error path removes what it installed.                               *)
LEMMA CleanupKeeps ==
  ASSUME UpdateConstants, UpdateInv, cleanup
  PROVE  UpdateInv'
  <1> USE DEF cleanup, At, Goto, NoFault, stores, service, src, tgt, Remove,
              AtSource, AtTarget, Trying, None
  <1>0. /\ UpdateTypeOK /\ mem \in MemType
        /\ PairInv /\ JournalInv /\ StateInv /\ PcInv /\ MemInv
    BY DEF UpdateInv
  <1>1. UpdateTypeOK' /\ mem' \in MemType
    BY <1>0 DEF UpdateTypeOK
  <1>2. PairInv'
    BY <1>0 DEF PairInv, MemInv
  <1>3. JournalInv'
    BY <1>0 DEF JournalInv
  <1>4. StateInv'
    BY <1>0 DEF StateInv
  <1>5. PcInv'
    BY <1>0 DEF UpdateTypeOK, PcInv
  <1>6. MemInv'
    BY <1>0 DEF MemInv
  <1> QED
    BY <1>1, <1>2, <1>3, <1>4, <1>5, <1>6 DEF UpdateInv

(* An error before the record was switched.                                *)
LEMMA CatchBeforeSwitchKeeps ==
  ASSUME UpdateConstants, UpdateInv, catchBeforeSwitch
  PROVE  UpdateInv'
  <1> USE DEF catchBeforeSwitch, At, Goto, NoFault, stores, service, src, tgt,
              TryTransition, EnsureRunning, Started, Fault, Verified,
              AtSource, AtTarget, Trying, None
  <1>0. /\ UpdateTypeOK /\ mem \in MemType
        /\ PairInv /\ JournalInv /\ StateInv /\ PcInv /\ MemInv
    BY DEF UpdateInv
  <1>a. /\ journal'.op = journal.op
        /\ journal'.src = journal.src /\ journal'.tgt = journal.tgt
        /\ journal' \in JournalType
    BY <1>0 DEF UpdateTypeOK, JournalType, States, Settled
  <1>b. /\ active' \in [cur : Releases, prev : Releases \cup {None}]
        /\ bound' \in Releases /\ svc' \in {"running", "stopped"}
    BY <1>0 DEF UpdateTypeOK
  <1>c. /\ installed' \subseteq Releases /\ torn' \subseteq Releases
        /\ activated' \subseteq Releases
        /\ staging' \subseteq Releases \X Releases
    BY <1>0 DEF UpdateTypeOK
  <1>d. ops' \in 0 .. MaxOps /\ faults' \in 0 .. MaxFaults
    BY <1>0 DEF UpdateTypeOK, UpdateConstants
  <1>e. mem' \in MemType
    BY <1>0 DEF MemType
  <1>1. UpdateTypeOK' /\ mem' \in MemType
    BY <1>a, <1>b, <1>c, <1>d, <1>e DEF UpdateTypeOK, JournalType
  <1>2. PairInv'
    BY <1>0 DEF PairInv
  <1>3. JournalInv'
    BY <1>0, <1>a DEF JournalInv, MemInv
  <1>4. StateInv'
    BY <1>0 DEF StateInv, MemInv, JournalInv, UpdateTypeOK, PreSwitch, Settled,
       Manual
  <1>5. PcInv'
    BY <1>0 DEF UpdateTypeOK, PcInv
  <1>6. MemInv'
    BY <1>0 DEF MemInv, UpdateTypeOK
  <1> QED
    BY <1>1, <1>2, <1>3, <1>4, <1>5, <1>6 DEF UpdateInv

(* An error after it.                                                      *)
LEMMA CatchAfterSwitchKeeps ==
  ASSUME UpdateConstants, UpdateInv, catchAfterSwitch
  PROVE  UpdateInv'
  <1> USE DEF catchAfterSwitch, At, Goto, NoFault, stores, service, src, tgt,
              Transition, AtSource, AtTarget, Trying, None
  <1>0. /\ UpdateTypeOK /\ mem \in MemType
        /\ PairInv /\ JournalInv /\ StateInv /\ PcInv /\ MemInv
    BY DEF UpdateInv
  <1>a. /\ journal'.op = journal.op
        /\ journal'.src = journal.src /\ journal'.tgt = journal.tgt
        /\ journal' \in JournalType
    BY <1>0 DEF UpdateTypeOK, JournalType, States
  <1>1. UpdateTypeOK' /\ mem' \in MemType
    BY <1>0, <1>a DEF UpdateTypeOK, JournalType
  <1>2. PairInv'
    BY <1>0 DEF PairInv
  <1>3. JournalInv'
    BY <1>0, <1>a DEF JournalInv, MemInv
  <1>4. StateInv'
    BY <1>0 DEF StateInv, MemInv, UpdateTypeOK, PreSwitch, Settled
  <1>5. PcInv'
    BY <1>0 DEF UpdateTypeOK, PcInv, MemInv
  <1>6. MemInv'
    BY <1>0 DEF MemInv
  <1> QED
    BY <1>1, <1>2, <1>3, <1>4, <1>5, <1>6 DEF UpdateInv

(* The rollback stops the target.                                          *)
LEMMA RbstopKeeps ==
  ASSUME UpdateConstants, UpdateInv, rb_stop
  PROVE  UpdateInv'
  <1> USE DEF rb_stop, At, Goto, NoFault, stores, service, src, tgt,
              RollbackFails, TryTransition, Verified, AtSource, AtTarget,
              Trying, None
  <1>0. /\ UpdateTypeOK /\ mem \in MemType
        /\ PairInv /\ JournalInv /\ StateInv /\ PcInv /\ MemInv
    BY DEF UpdateInv
  <1>a. /\ journal'.op = journal.op
        /\ journal'.src = journal.src /\ journal'.tgt = journal.tgt
        /\ journal' \in JournalType
    BY <1>0 DEF UpdateTypeOK, JournalType, States
  <1>1. UpdateTypeOK' /\ mem' \in MemType
    BY <1>0, <1>a DEF UpdateTypeOK, JournalType
  <1>2. PairInv'
    BY <1>0 DEF PairInv
  <1>3. JournalInv'
    BY <1>0, <1>a DEF JournalInv, PcInv
  <1>4. StateInv'
    BY <1>0 DEF StateInv, PcInv, UpdateTypeOK, PreSwitch, Settled, Manual
  <1>5. PcInv'
    BY <1>0 DEF UpdateTypeOK, PcInv
  <1>6. MemInv'
    BY <1>0 DEF MemInv
  <1> QED
    BY <1>1, <1>2, <1>3, <1>4, <1>5, <1>6 DEF UpdateInv

(* The rollback binds the source.                                          *)
LEMMA RbrebindKeeps ==
  ASSUME UpdateConstants, UpdateInv, rb_rebind
  PROVE  UpdateInv'
  <1> USE DEF rb_rebind, At, Goto, NoFault, stores, service, src, tgt,
              RollbackFails, TryTransition, AtSource, AtTarget, Trying, None
  <1>0. /\ UpdateTypeOK /\ mem \in MemType
        /\ PairInv /\ JournalInv /\ StateInv /\ PcInv /\ MemInv
    BY DEF UpdateInv
  <1>a. /\ journal'.op = journal.op
        /\ journal'.src = journal.src /\ journal'.tgt = journal.tgt
        /\ journal' \in JournalType
    BY <1>0 DEF UpdateTypeOK, JournalType, States
  <1>b. /\ active' \in [cur : Releases, prev : Releases \cup {None}]
        /\ bound' \in Releases /\ svc' \in {"running", "stopped"}
    BY <1>0 DEF UpdateTypeOK, PcInv, JournalInv
  <1>c. /\ installed' \subseteq Releases /\ torn' \subseteq Releases
        /\ activated' \subseteq Releases
        /\ staging' \subseteq Releases \X Releases
    BY <1>0 DEF UpdateTypeOK
  <1>d. ops' \in 0 .. MaxOps /\ faults' \in 0 .. MaxFaults
    BY <1>0 DEF UpdateTypeOK
  <1>e. mem' \in MemType
    BY <1>0 DEF MemType
  <1>1. UpdateTypeOK' /\ mem' \in MemType
    BY <1>a, <1>b, <1>c, <1>d, <1>e DEF UpdateTypeOK, JournalType
  <1>2. PairInv'
    BY <1>0 DEF PairInv
  <1>3. JournalInv'
    BY <1>0, <1>a DEF JournalInv, PcInv
  <1>4. StateInv'
    BY <1>0 DEF StateInv, PcInv, UpdateTypeOK, PreSwitch, Settled, Manual
  <1>5. PcInv'
    BY <1>0 DEF UpdateTypeOK, PcInv
  <1>6. MemInv'
    BY <1>0 DEF MemInv
  <1> QED
    BY <1>1, <1>2, <1>3, <1>4, <1>5, <1>6 DEF UpdateInv

(* The rollback switches the record back.                                  *)
LEMMA RbswitchKeeps ==
  ASSUME UpdateConstants, UpdateInv, rb_switch
  PROVE  UpdateInv'
  <1> USE DEF rb_switch, At, Goto, NoFault, stores, service, src, tgt,
              RollbackFails, TryTransition, AtSource, AtTarget, Trying, None
  <1>0. /\ UpdateTypeOK /\ mem \in MemType
        /\ PairInv /\ JournalInv /\ StateInv /\ PcInv /\ MemInv
    BY DEF UpdateInv
  <1>1. UpdateTypeOK' /\ mem' \in MemType
    BY <1>0 DEF UpdateTypeOK, PcInv
  <1>2. PairInv'
    BY <1>0 DEF PairInv, PcInv, StateInv
  <1>3. JournalInv'
    BY <1>0 DEF JournalInv, PcInv
  <1>4. StateInv'
    BY <1>0 DEF StateInv, PcInv
  <1>5. PcInv'
    BY <1>0 DEF UpdateTypeOK, PcInv
  <1>6. MemInv'
    BY <1>0 DEF MemInv
  <1> QED
    BY <1>1, <1>2, <1>3, <1>4, <1>5, <1>6 DEF UpdateInv

(* The rollback starts the source.                                         *)
LEMMA RbstartKeeps ==
  ASSUME UpdateConstants, UpdateInv, rb_start
  PROVE  UpdateInv'
  <1> USE DEF rb_start, At, Goto, NoFault, stores, service, src, tgt, Started,
              AtSource, AtTarget, Trying, None
  <1>0. /\ UpdateTypeOK /\ mem \in MemType
        /\ PairInv /\ JournalInv /\ StateInv /\ PcInv /\ MemInv
    BY DEF UpdateInv
  <1>1. UpdateTypeOK' /\ mem' \in MemType
    BY <1>0 DEF UpdateTypeOK
  <1>2. PairInv'
    BY <1>0 DEF PairInv
  <1>3. JournalInv'
    BY <1>0 DEF JournalInv, PcInv
  <1>4. StateInv'
    BY <1>0 DEF StateInv
  <1>5. PcInv'
    BY <1>0 DEF UpdateTypeOK, PcInv
  <1>6. MemInv'
    BY <1>0 DEF MemInv
  <1> QED
    BY <1>1, <1>2, <1>3, <1>4, <1>5, <1>6 DEF UpdateInv

(* The health of the source decides.                                       *)
LEMMA RbhealthKeeps ==
  ASSUME UpdateConstants, UpdateInv, rb_health
  PROVE  UpdateInv'
  <1> USE DEF rb_health, At, Goto, NoFault, stores, service, src, tgt,
              RollbackFails, TryTransition, Transition, MayBeHealthy,
              AtSource, AtTarget, Trying, None
  <1>0. /\ UpdateTypeOK /\ mem \in MemType
        /\ PairInv /\ JournalInv /\ StateInv /\ PcInv /\ MemInv
    BY DEF UpdateInv
  <1>a. /\ journal'.op = journal.op
        /\ journal'.src = journal.src /\ journal'.tgt = journal.tgt
        /\ journal' \in JournalType
    BY <1>0 DEF UpdateTypeOK, JournalType, States, Settled
  <1>1. UpdateTypeOK' /\ mem' \in MemType
    BY <1>0, <1>a DEF UpdateTypeOK, JournalType
  <1>2. PairInv'
    BY <1>0 DEF PairInv
  <1>3. JournalInv'
    BY <1>0, <1>a DEF JournalInv, PcInv
  <1>4. StateInv'
    BY <1>0 DEF StateInv, PcInv, JournalInv, UpdateTypeOK, Settled, Manual
  <1>5. PcInv'
    BY <1>0 DEF UpdateTypeOK, PcInv
  <1>6. MemInv'
    BY <1>0 DEF MemInv
  <1> QED
    BY <1>1, <1>2, <1>3, <1>4, <1>5, <1>6 DEF UpdateInv

(* Recovery before the switch removes the target.                          *)
LEMMA RecremoveKeeps ==
  ASSUME UpdateConstants, UpdateInv, rec_remove
  PROVE  UpdateInv'
  <1> USE DEF rec_remove, At, Goto, NoFault, stores, service, src, tgt,
              Remove, MayRemoveTarget, AtSource, AtTarget, Trying, None
  <1>0. /\ UpdateTypeOK /\ mem \in MemType
        /\ PairInv /\ JournalInv /\ StateInv /\ PcInv /\ MemInv
    BY DEF UpdateInv
  <1>1. UpdateTypeOK' /\ mem' \in MemType
    BY <1>0 DEF UpdateTypeOK
  <1>2. PairInv'
    BY <1>0 DEF PairInv
  <1>3. JournalInv'
    BY <1>0 DEF JournalInv
  <1>4. StateInv'
    BY <1>0 DEF StateInv
  <1>5. PcInv'
    BY <1>0 DEF UpdateTypeOK, PcInv
  <1>6. MemInv'
    BY <1>0 DEF MemInv
  <1> QED
    BY <1>1, <1>2, <1>3, <1>4, <1>5, <1>6 DEF UpdateInv

(* It makes the source run.                                                *)
LEMMA RecstartKeeps ==
  ASSUME UpdateConstants, UpdateInv, rec_start
  PROVE  UpdateInv'
  <1> USE DEF rec_start, At, Goto, NoFault, stores, service, src, tgt,
              EnsureRunning, Started, Transition, Fault, Verified, AtSource,
              AtTarget, Trying, None
  <1>0. /\ UpdateTypeOK /\ mem \in MemType
        /\ PairInv /\ JournalInv /\ StateInv /\ PcInv /\ MemInv
    BY DEF UpdateInv
  <1>a. /\ journal'.op = journal.op
        /\ journal'.src = journal.src /\ journal'.tgt = journal.tgt
        /\ journal' \in JournalType
    BY <1>0 DEF UpdateTypeOK, JournalType, States, Settled
  <1>b. /\ active' \in [cur : Releases, prev : Releases \cup {None}]
        /\ bound' \in Releases /\ svc' \in {"running", "stopped"}
    BY <1>0 DEF UpdateTypeOK
  <1>c. /\ installed' \subseteq Releases /\ torn' \subseteq Releases
        /\ activated' \subseteq Releases
        /\ staging' \subseteq Releases \X Releases
    BY <1>0 DEF UpdateTypeOK
  <1>d. ops' \in 0 .. MaxOps /\ faults' \in 0 .. MaxFaults
    BY <1>0 DEF UpdateTypeOK, UpdateConstants
  <1>e. mem' \in MemType
    BY <1>0 DEF MemType
  <1>1. UpdateTypeOK' /\ mem' \in MemType
    BY <1>a, <1>b, <1>c, <1>d, <1>e DEF UpdateTypeOK, JournalType
  <1>2. PairInv'
    BY <1>0 DEF PairInv
  <1>3. JournalInv'
    BY <1>0, <1>a DEF JournalInv, PcInv, PreSwitch
  <1>4. StateInv'
    BY <1>0 DEF StateInv, PcInv, JournalInv, UpdateTypeOK, PreSwitch, Settled,
      Manual
  <1>5. PcInv'
    BY <1>0 DEF UpdateTypeOK, PcInv
  <1>6. MemInv'
    BY <1>0 DEF MemInv
  <1> QED
    BY <1>1, <1>2, <1>3, <1>4, <1>5, <1>6 DEF UpdateInv

(* What the decision after the switch rests on.                            *)
LEMMA Decided ==
  ASSUME NEW healthy \in BOOLEAN, healthy => MayBeHealthy(bound, bound, svc),
         journal.state \in TargetStart \cup {"rolling_back"}
  PROVE  /\ decideCrashRecovery(healthy) = "complete_target" =>
              /\ AtTarget /\ svc = "running"
              /\ journal.state \in {"starting_target", "verifying_target"}
         /\ decideCrashRecovery(healthy) = "begin_rollback" => AtTarget
         /\ decideCrashRecovery(healthy) = "retry_rollback" =>
              AtTarget /\ journal.state = "rolling_back"
         /\ decideCrashRecovery(healthy) = "complete_rollback" =>
              active.cur = src /\ bound = src /\ svc = "running"
  <1>1. observedServiceRelease = "source" => active.cur = src /\ bound = src
    BY DEF observedServiceRelease, ActiveSource
  <1>2. observedServiceRelease = "target" => AtTarget
    BY DEF observedServiceRelease, ActiveTarget, AtTarget
  <1>3. healthy => svc = "running" /\ journal.state # "switching"
    BY DEF MayBeHealthy, MaintenanceIsDraining
  <1> QED
    BY <1>1, <1>2, <1>3 DEF decideCrashRecovery, TargetStart

(* Recovery after the switch decides.                                      *)
LEMMA RecdecideKeeps ==
  ASSUME UpdateConstants, UpdateInv, rec_decide
  PROVE  UpdateInv'
  <1> USE DEF rec_decide, At, Goto, NoFault, stores, service, src, tgt,
              Transition, MayBeHealthy, AtSource, AtTarget, Trying, None
  <1>0. /\ UpdateTypeOK /\ mem \in MemType
        /\ PairInv /\ JournalInv /\ StateInv /\ PcInv /\ MemInv
    BY DEF UpdateInv
  <1>a. /\ journal'.op = journal.op
        /\ journal'.src = journal.src /\ journal'.tgt = journal.tgt
        /\ journal' \in JournalType
    BY <1>0 DEF UpdateTypeOK, JournalType, States, Settled
  <1>f. \/ journal' = journal /\ updatePc' = "rec_complete" /\ svc = "running"
           /\ AtTarget
           /\ journal.state \in {"starting_target", "verifying_target"}
        \/ AtTarget /\ updatePc' = "rb_stop" /\ journal'.state = "rolling_back"
        \/ /\ active.cur = src /\ bound = src /\ svc = "running"
           /\ updatePc' = "retain" /\ journal'.state = "rolled_back"
        \/ updatePc' = "off" /\ journal'.state = Manual
    <2>1. PICK healthy \in BOOLEAN :
            /\ healthy => MayBeHealthy(bound, bound, svc)
            /\ \/ /\ decideCrashRecovery(healthy) = "complete_target"
                  /\ UNCHANGED journal /\ Goto("rec_complete")
               \/ /\ decideCrashRecovery(healthy) = "begin_rollback"
                  /\ Transition("rolling_back") /\ Goto("rb_stop")
               \/ /\ decideCrashRecovery(healthy) = "retry_rollback"
                  /\ UNCHANGED journal /\ Goto("rb_stop")
               \/ /\ decideCrashRecovery(healthy) = "complete_rollback"
                  /\ Transition("rolled_back") /\ Goto("retain")
               \/ /\ decideCrashRecovery(healthy) = "manual"
                  /\ Transition(Manual) /\ Goto("off")
      OBVIOUS
    <2>2. /\ journal.state \in TargetStart \cup {"rolling_back"}
          /\ src # tgt
      BY <1>0 DEF PcInv, JournalInv, TargetStart
    <2> QED
      BY <1>0, <2>2, Decided DEF UpdateTypeOK
  <1>1. UpdateTypeOK' /\ mem' \in MemType
    BY <1>0, <1>a DEF UpdateTypeOK, JournalType
  <1>2. PairInv'
    BY <1>0 DEF PairInv
  <1>3. JournalInv'
    BY <1>0, <1>a DEF JournalInv, PcInv, TargetStart
  <1>4. StateInv'
    BY <1>0, <1>a, <1>f DEF StateInv, PcInv, JournalInv, PreSwitch,
       TargetStart, Settled, Manual
  <1>5. PcInv'
    BY <1>0, <1>f DEF UpdateTypeOK, PcInv
  <1>6. MemInv'
    BY <1>0 DEF MemInv
  <1> QED
    BY <1>1, <1>2, <1>3, <1>4, <1>5, <1>6 DEF UpdateInv

(* It walks the journal forward.                                           *)
LEMMA CompleteRecoveredTargetKeeps ==
  ASSUME UpdateConstants, UpdateInv, completeRecoveredTarget
  PROVE  UpdateInv'
  <1> USE DEF completeRecoveredTarget, At, Goto, NoFault, stores, service,
              src, tgt, Transition, AtSource, AtTarget, Trying, None
  <1>0. /\ UpdateTypeOK /\ mem \in MemType
        /\ PairInv /\ JournalInv /\ StateInv /\ PcInv /\ MemInv
    BY DEF UpdateInv
  <1>a. /\ journal'.op = journal.op
        /\ journal'.src = journal.src /\ journal'.tgt = journal.tgt
        /\ journal' \in JournalType
    BY <1>0 DEF UpdateTypeOK, JournalType, States, TargetStart, Settled
  <1>1. UpdateTypeOK' /\ mem' \in MemType
    BY <1>0, <1>a DEF UpdateTypeOK, JournalType
  <1>2. PairInv'
    BY <1>0 DEF PairInv
  <1>3. JournalInv'
    BY <1>0, <1>a DEF JournalInv, PcInv
  <1>4. StateInv'
    BY <1>0 DEF StateInv, PcInv, UpdateTypeOK, PreSwitch, Settled
  <1>5. PcInv'
    BY <1>0 DEF UpdateTypeOK, PcInv
  <1>6. MemInv'
    BY <1>0 DEF MemInv
  <1> QED
    BY <1>1, <1>2, <1>3, <1>4, <1>5, <1>6 DEF UpdateInv

(* Recovery that asks for the operator.                                    *)
LEMMA RecoverManuallyKeeps ==
  ASSUME UpdateConstants, UpdateInv, recoverManually
  PROVE  UpdateInv'
  <1> USE DEF recoverManually, At, Goto, NoFault, stores, service, src, tgt,
              CanRecover, Transition, Fault, AtSource, AtTarget, Trying, None
  <1>0. /\ UpdateTypeOK /\ mem \in MemType
        /\ PairInv /\ JournalInv /\ StateInv /\ PcInv /\ MemInv
    BY DEF UpdateInv
  <1>a. /\ journal'.op = journal.op
        /\ journal'.src = journal.src /\ journal'.tgt = journal.tgt
        /\ journal' \in JournalType
    BY <1>0 DEF UpdateTypeOK, JournalType, States
  <1>b. /\ active' \in [cur : Releases, prev : Releases \cup {None}]
        /\ bound' \in Releases /\ svc' \in {"running", "stopped"}
    BY <1>0 DEF UpdateTypeOK
  <1>c. /\ installed' \subseteq Releases /\ torn' \subseteq Releases
        /\ activated' \subseteq Releases
        /\ staging' \subseteq Releases \X Releases
    BY <1>0 DEF UpdateTypeOK
  <1>d. ops' \in 0 .. MaxOps /\ faults' \in 0 .. MaxFaults
    BY <1>0 DEF UpdateTypeOK, UpdateConstants
  <1>e. mem' \in MemType
    BY <1>0 DEF MemType
  <1>1. UpdateTypeOK' /\ mem' \in MemType
    BY <1>a, <1>b, <1>c, <1>d, <1>e DEF UpdateTypeOK, JournalType
  <1>2. PairInv'
    BY <1>0 DEF PairInv
  <1>3. JournalInv'
    BY <1>0 DEF JournalInv, Settled
  <1>4. StateInv'
    BY <1>0 DEF StateInv, PreSwitch, Settled, Manual
  <1>5. PcInv'
    BY <1>0 DEF UpdateTypeOK, PcInv
  <1>6. MemInv'
    BY <1>0 DEF MemInv
  <1> QED
    BY <1>1, <1>2, <1>3, <1>4, <1>5, <1>6 DEF UpdateInv

(* Recovery before the switch begins.                                      *)
LEMMA RecoverBeforeSwitchKeeps ==
  ASSUME UpdateConstants, UpdateInv, recoverBeforeSwitch
  PROVE  UpdateInv'
  <1> USE DEF recoverBeforeSwitch, At, Goto, NoFault, stores, service, src,
              tgt, CanRecover, SafelyPreSwitch, observedServiceRelease,
              ActiveSource, AtSource, AtTarget, Trying, None
  <1>0. /\ UpdateTypeOK /\ mem \in MemType
        /\ PairInv /\ JournalInv /\ StateInv /\ PcInv /\ MemInv
    BY DEF UpdateInv
  <1>1. UpdateTypeOK' /\ mem' \in MemType
    BY <1>0 DEF UpdateTypeOK
  <1>2. PairInv'
    BY <1>0 DEF PairInv
  <1>3. JournalInv'
    BY <1>0 DEF JournalInv
  <1>4. StateInv'
    BY <1>0 DEF StateInv
  <1>5. PcInv'
    BY <1>0 DEF UpdateTypeOK, PcInv
  <1>6. MemInv'
    BY <1>0 DEF MemInv
  <1> QED
    BY <1>1, <1>2, <1>3, <1>4, <1>5, <1>6 DEF UpdateInv

(* Recovery after it begins.                                               *)
LEMMA RecoverAfterSwitchKeeps ==
  ASSUME UpdateConstants, UpdateInv, recoverAfterSwitch
  PROVE  UpdateInv'
  <1> USE DEF recoverAfterSwitch, At, Goto, NoFault, stores, service, src,
              tgt, CanRecover, SafelyPreSwitch, Started, AtSource, AtTarget,
              Trying, None
  <1>0. /\ UpdateTypeOK /\ mem \in MemType
        /\ PairInv /\ JournalInv /\ StateInv /\ PcInv /\ MemInv
    BY DEF UpdateInv
  <1>1. UpdateTypeOK' /\ mem' \in MemType
    BY <1>0 DEF UpdateTypeOK
  <1>2. PairInv'
    BY <1>0 DEF PairInv
  <1>3. JournalInv'
    <2>1. schema' = schema
      BY <1>0 DEF UpdateTypeOK, JournalInv, Releases
    <2> QED
      BY <1>0, <2>1 DEF JournalInv
  <1>4. StateInv'
    BY <1>0 DEF StateInv
  <1>5. PcInv'
    BY <1>0 DEF UpdateTypeOK, States, PcInv
  <1>6. MemInv'
    BY <1>0 DEF MemInv
  <1> QED
    BY <1>1, <1>2, <1>3, <1>4, <1>5, <1>6 DEF UpdateInv

(* A step throws, with or without effect.                                  *)
LEMMA StepThrowsKeeps ==
  ASSUME UpdateConstants, UpdateInv, StepThrows
  PROVE  UpdateInv'
  <1> USE DEF StepThrows, At, Goto, NoFault, stores, service, src, tgt, InTry,
              Fault, Started, AtSource, AtTarget, Trying, None
  <1>0. /\ UpdateTypeOK /\ mem \in MemType
        /\ PairInv /\ JournalInv /\ StateInv /\ PcInv /\ MemInv
    BY DEF UpdateInv
  <1>a. /\ journal'.op = journal.op
        /\ journal'.src = journal.src /\ journal'.tgt = journal.tgt
        /\ journal' \in JournalType
    BY <1>0 DEF UpdateTypeOK, JournalType
  <1>b. /\ active' \in [cur : Releases, prev : Releases \cup {None}]
        /\ bound' \in Releases /\ svc' \in {"running", "stopped"}
    BY <1>0 DEF UpdateTypeOK, MemInv
  <1>c. /\ installed' \subseteq Releases /\ torn' \subseteq Releases
        /\ activated' \subseteq Releases
        /\ staging' \subseteq Releases \X Releases
    BY <1>0 DEF UpdateTypeOK
  <1>d. ops' \in 0 .. MaxOps /\ faults' \in 0 .. MaxFaults
    BY <1>0 DEF UpdateTypeOK, UpdateConstants
  <1>e. mem' \in MemType
    BY <1>0 DEF MemType
  <1>1. UpdateTypeOK' /\ mem' \in MemType
    BY <1>a, <1>b, <1>c, <1>d, <1>e DEF UpdateTypeOK, JournalType
  <1>2. PairInv'
    BY <1>0 DEF PairInv
  <1>3. JournalInv'
    BY <1>0 DEF JournalInv, PcInv
  <1>4. StateInv'
    BY <1>0 DEF StateInv, PcInv, PreSwitch, Settled
  <1>5. PcInv'
    BY <1>0 DEF UpdateTypeOK, PcInv
  <1>6. MemInv'
    BY <1>0 DEF MemInv, PcInv, StateInv, PreSwitch, TargetStart
  <1> QED
    BY <1>1, <1>2, <1>3, <1>4, <1>5, <1>6 DEF UpdateInv

(* A step of the rollback throws.                                          *)
LEMMA RollbackStepThrowsKeeps ==
  ASSUME UpdateConstants, UpdateInv, RollbackStepThrows
  PROVE  UpdateInv'
  <1> USE DEF RollbackStepThrows, At, Goto, NoFault, stores, service, src,
              tgt, InRollback, Fault, RollbackFails, TryTransition, Started,
              AtSource, AtTarget, Trying, None
  <1>0. /\ UpdateTypeOK /\ mem \in MemType
        /\ PairInv /\ JournalInv /\ StateInv /\ PcInv /\ MemInv
    BY DEF UpdateInv
  <1>a. /\ journal'.op = journal.op
        /\ journal'.src = journal.src /\ journal'.tgt = journal.tgt
        /\ journal' \in JournalType
    BY <1>0 DEF UpdateTypeOK, JournalType, States
  <1>b. /\ active' \in [cur : Releases, prev : Releases \cup {None}]
        /\ bound' \in Releases /\ svc' \in {"running", "stopped"}
    BY <1>0 DEF UpdateTypeOK, PcInv, JournalInv
  <1>c. /\ installed' \subseteq Releases /\ torn' \subseteq Releases
        /\ activated' \subseteq Releases
        /\ staging' \subseteq Releases \X Releases
    BY <1>0 DEF UpdateTypeOK
  <1>d. ops' \in 0 .. MaxOps /\ faults' \in 0 .. MaxFaults
    BY <1>0 DEF UpdateTypeOK, UpdateConstants
  <1>e. mem' \in MemType
    BY <1>0 DEF MemType
  <1>1. UpdateTypeOK' /\ mem' \in MemType
    BY <1>a, <1>b, <1>c, <1>d, <1>e DEF UpdateTypeOK, JournalType
  <1>2. PairInv'
    BY <1>0 DEF PairInv
  <1>3. JournalInv'
    BY <1>0 DEF JournalInv, PcInv
  <1>4. StateInv'
    BY <1>0 DEF StateInv, PcInv, PreSwitch, Settled, Manual
  <1>5. PcInv'
    BY <1>0 DEF UpdateTypeOK, PcInv
  <1>6. MemInv'
    BY <1>0 DEF MemInv
  <1> QED
    BY <1>1, <1>2, <1>3, <1>4, <1>5, <1>6 DEF UpdateInv

(* The process dies.                                                       *)
LEMMA CrashKeeps ==
  ASSUME UpdateConstants, UpdateInv, Crash
  PROVE  UpdateInv'
  <1> USE DEF Crash, At, Goto, NoFault, stores, service, src, tgt, Fault,
              NoMem, TornDeath, BeingRemoved, Retained, MayRemoveTarget,
              AtSource, AtTarget, Trying, None
  <1>0. /\ UpdateTypeOK /\ mem \in MemType
        /\ PairInv /\ JournalInv /\ StateInv /\ PcInv /\ MemInv
    BY DEF UpdateInv
  <1>a. /\ journal'.op = journal.op
        /\ journal'.src = journal.src /\ journal'.tgt = journal.tgt
        /\ journal' \in JournalType
    BY <1>0 DEF UpdateTypeOK, JournalType
  <1>b. /\ active' \in [cur : Releases, prev : Releases \cup {None}]
        /\ bound' \in Releases /\ svc' \in {"running", "stopped"}
    BY <1>0 DEF UpdateTypeOK
  <1>c. /\ installed' \subseteq Releases /\ torn' \subseteq Releases
        /\ activated' \subseteq Releases
        /\ staging' \subseteq Releases \X Releases
    BY <1>0 DEF UpdateTypeOK
  <1>d. ops' \in 0 .. MaxOps /\ faults' \in 0 .. MaxFaults
    BY <1>0 DEF UpdateTypeOK, UpdateConstants
  <1>e. mem' \in MemType
    BY <1>0 DEF MemType
  <1>1. UpdateTypeOK' /\ mem' \in MemType
    BY <1>a, <1>b, <1>c, <1>d, <1>e DEF UpdateTypeOK, JournalType
  <1>2. PairInv'
    BY <1>0 DEF PairInv, MemInv
  <1>3. JournalInv'
    BY <1>0 DEF JournalInv
  <1>4. StateInv'
    BY <1>0 DEF StateInv
  <1>5. PcInv'
    BY <1>0 DEF UpdateTypeOK, PcInv
  <1>6. MemInv'
    BY <1>0 DEF MemInv
  <1> QED
    BY <1>1, <1>2, <1>3, <1>4, <1>5, <1>6 DEF UpdateInv

(* What begins an update begins it at the release in service.              *)
LEMMA BeginKeeps ==
  ASSUME UpdateConstants, UpdateInv, NEW op \in {"apply", "manual_rollback"},
         NEW t \in Releases, BeginUpdate(op, t),
         t # active.cur, Writes[t] = schema,
         op = "apply" => schema \in Reads[active.cur] /\ schema \in Reads[t],
         op = "manual_rollback" => t = active.prev
  PROVE  UpdateInv'
  <1> USE DEF BeginUpdate, At, Goto, stores, service, src, tgt, AtSource,
              AtTarget,
              Trying, None
  <1>0. /\ UpdateTypeOK /\ mem \in MemType
        /\ PairInv /\ JournalInv /\ StateInv /\ PcInv /\ MemInv
    BY DEF UpdateInv
  <1>a. /\ journal' =
             [op |-> op, src |-> active.cur, tgt |-> t, state |-> "idle"]
        /\ active.cur \in Releases /\ active.cur # 0 /\ t # 0
    BY <1>0 DEF UpdateTypeOK, Releases, UpdateConstants
  <1>b. ops' \in 0 .. MaxOps /\ faults' \in 0 .. MaxFaults
    BY <1>0 DEF UpdateTypeOK, UpdateConstants
  <1>1. UpdateTypeOK' /\ mem' \in MemType
    BY <1>0, <1>a, <1>b DEF UpdateTypeOK, MemType, NoMem, States, Settled
  <1>2. PairInv'
    BY <1>0 DEF PairInv
  <1>3. JournalInv'
    BY <1>0, <1>a DEF JournalInv
  <1>4. StateInv'
    BY <1>0, <1>a DEF StateInv, Settled, PreSwitch
  <1>5. PcInv'
    BY <1>0, <1>a DEF PcInv, StateInv
  <1>6. MemInv'
    BY <1>0, <1>a DEF MemInv, StateInv, NoMem
  <1> QED
    BY <1>1, <1>2, <1>3, <1>4, <1>5, <1>6 DEF UpdateInv

(* apply takes a newer release that reads what is there and that the       *)
(* current one could read back.                                            *)
LEMMA ApplyKeeps ==
  ASSUME UpdateConstants, UpdateInv, NEW t \in Releases, apply(t)
  PROVE  UpdateInv'
  <1>1. BeginUpdate("apply", t) /\ UpdateAllowed(active.cur, t)
    BY DEF apply
  <1>2. t # active.cur
    BY <1>1 DEF UpdateAllowed, UpdateInv, UpdateTypeOK, Releases
  <1>3. /\ Writes[t] = schema /\ schema \in Reads[active.cur]
        /\ schema \in Reads[t]
    BY <1>1 DEF UpdateAllowed, evaluateUpgradePreflight
  <1> QED
    BY <1>1, <1>2, <1>3, BeginKeeps

(* A manual rollback goes to the previous release of the record.           *)
LEMMA RollbackKeeps ==
  ASSUME UpdateConstants, UpdateInv, rollback
  PROVE  UpdateInv'
  <1>1. /\ BeginUpdate("manual_rollback", active.prev)
        /\ active.prev # None /\ Writes[active.prev] = schema
    BY DEF rollback, isCompatibleRollback, evaluateUpgradePreflight
  <1>2. active.prev \in Releases /\ active.prev # active.cur
    BY <1>1 DEF UpdateInv, UpdateTypeOK, PairInv
  <1> QED
    BY <1>1, <1>2, BeginKeeps

(* The controller starts with the first release in service.                *)
LEMMA UpdateStarts ==
  ASSUME UpdateConstants, UpdateInit
  PROVE  UpdateInv
  <1> USE DEF UpdateInit, None, Releases, UpdateConstants
  <1>0. 1 \in Releases
    OBVIOUS
  <1>1. UpdateTypeOK /\ mem \in MemType
    BY <1>0 DEF UpdateTypeOK, MemType, NoMem, States, Settled
  <1>2. PairInv
    BY DEF PairInv
  <1>3. JournalInv
    BY DEF JournalInv, src, tgt
  <1>4. StateInv
    BY DEF StateInv, Settled, PreSwitch
  <1>5. PcInv
    BY DEF PcInv
  <1>6. MemInv
    BY DEF MemInv, Trying
  <1> QED
    BY <1>1, <1>2, <1>3, <1>4, <1>5, <1>6 DEF UpdateInv

(* Every step of the controller keeps the invariant.                       *)
LEMMA UpdateStepKeeps ==
  ASSUME UpdateConstants, UpdateInv, [UpdateNext]_updateVars
  PROVE  UpdateInv'
  <1>1. CASE \E t \in Releases : apply(t)
    BY <1>1, ApplyKeeps
  <1>2. CASE rollback
    BY <1>2, RollbackKeeps
  <1>3. CASE prepare
    BY <1>3, PrepareKeeps
  <1>4. CASE drain
    BY <1>4, DrainKeeps
  <1>5. CASE waitForDrain
    BY <1>5, WaitForDrainKeeps
  <1>6. CASE stageAndCommit
    BY <1>6, StageAndCommitKeeps
  <1>7. CASE commitStaged
    BY <1>7, CommitStagedKeeps
  <1>8. CASE prepareActivation
    BY <1>8, PrepareActivationKeeps
  <1>9. CASE ready
    BY <1>9, ReadyKeeps
  <1>10. CASE stopAndWait
    BY <1>10, StopAndWaitKeeps
  <1>11. CASE switching
    BY <1>11, SwitchingKeeps
  <1>12. CASE rebind
    BY <1>12, RebindKeeps
  <1>13. CASE switch
    BY <1>13, SwitchKeeps
  <1>14. CASE starting
    BY <1>14, StartingKeeps
  <1>15. CASE startAndWait
    BY <1>15, StartAndWaitKeeps
  <1>16. CASE verifying
    BY <1>16, VerifyingKeeps
  <1>17. CASE verifyHealth
    BY <1>17, VerifyHealthKeeps
  <1>18. CASE applyRetention
    BY <1>18, ApplyRetentionKeeps
  <1>19. CASE cleanup
    BY <1>19, CleanupKeeps
  <1>20. CASE catchBeforeSwitch
    BY <1>20, CatchBeforeSwitchKeeps
  <1>21. CASE catchAfterSwitch
    BY <1>21, CatchAfterSwitchKeeps
  <1>22. CASE rb_stop
    BY <1>22, RbstopKeeps
  <1>23. CASE rb_rebind
    BY <1>23, RbrebindKeeps
  <1>24. CASE rb_switch
    BY <1>24, RbswitchKeeps
  <1>25. CASE rb_start
    BY <1>25, RbstartKeeps
  <1>26. CASE rb_health
    BY <1>26, RbhealthKeeps
  <1>27. CASE rec_remove
    BY <1>27, RecremoveKeeps
  <1>28. CASE rec_start
    BY <1>28, RecstartKeeps
  <1>29. CASE rec_decide
    BY <1>29, RecdecideKeeps
  <1>30. CASE completeRecoveredTarget
    BY <1>30, CompleteRecoveredTargetKeeps
  <1>31. CASE recoverManually
    BY <1>31, RecoverManuallyKeeps
  <1>32. CASE recoverBeforeSwitch
    BY <1>32, RecoverBeforeSwitchKeeps
  <1>33. CASE recoverAfterSwitch
    BY <1>33, RecoverAfterSwitchKeeps
  <1>34. CASE StepThrows
    BY <1>34, StepThrowsKeeps
  <1>35. CASE RollbackStepThrows
    BY <1>35, RollbackStepThrowsKeeps
  <1>36. CASE Crash
    BY <1>36, CrashKeeps
  <1>37. CASE UNCHANGED updateVars
    <2>1. UpdateTypeOK' /\ mem' \in MemType
      BY <1>37 DEF UpdateInv, updateVars, UpdateTypeOK
    <2>2. PairInv' /\ JournalInv' /\ StateInv'
      BY <1>37 DEF UpdateInv, updateVars, PairInv, JournalInv, StateInv, src,
        tgt,
         AtSource, AtTarget
    <2>3. PcInv' /\ MemInv'
      BY <1>37 DEF UpdateInv, updateVars, PcInv, MemInv, src, tgt, AtSource,
        AtTarget
    <2> QED
      BY <2>1, <2>2, <2>3 DEF UpdateInv
  <1> QED
    BY <1>1, <1>2, <1>3, <1>4, <1>5, <1>6, <1>7, <1>8, <1>9, <1>10, <1>11,
       <1>12, <1>13, <1>14, <1>15, <1>16, <1>17, <1>18, <1>19, <1>20, <1>21,
       <1>22, <1>23, <1>24, <1>25, <1>26, <1>27, <1>28, <1>29, <1>30, <1>31,
       <1>32, <1>33, <1>34, <1>35, <1>36, <1>37
       DEF UpdateNext, UpdateStep, recover

(* So every reachable state of the controller satisfies it.                *)
LEMMA UpdateInvariant == ASSUME UpdateConstants PROVE UpdateSpec => []UpdateInv
  <1>1. UpdateInit => UpdateInv
    BY UpdateStarts
  <1>2. UpdateInv /\ [UpdateNext]_updateVars => UpdateInv'
    BY UpdateStepKeeps
  <1> QED
    BY <1>1, <1>2, PTL DEF UpdateSpec

-----------------------------------------------------------------------------
(* What the controller promises                                            *)

(* The journal, the record, the service and the stores hold what they are  *)
(* declared to hold.                                                       *)
THEOREM UpdateTyped ==
  ASSUME UpdateConstants
  PROVE  UpdateSpec => []UpdateTypeOK
  <1>1. UpdateInv => UpdateTypeOK
    BY DEF UpdateInv
  <1> QED
    BY <1>1, UpdateInvariant, PTL

(* However apply, rollback and recover are interrupted and repeated, an    *)
(* update that ended without asking for the operator left the service      *)
(* running the release of the active record, which is the target exactly   *)
(* if the update succeeded.                                                *)
THEOREM EndsInService ==
  ASSUME UpdateConstants
  PROVE  UpdateSpec => []EndsServingTheRecord
  <1>1. UpdateInv => EndsServingTheRecord
    BY DEF UpdateInv, EndsServingTheRecord, UpdateTypeOK, StateInv, PairInv,
       Releases,
           UpdateConstants, None
  <1> QED
    BY <1>1, UpdateInvariant, PTL

(* No removal, whole or torn, takes a release of the active pair.          *)
THEOREM PairIsKept ==
  ASSUME UpdateConstants
  PROVE  UpdateSpec => []PairStaysInstalled
  <1>1. UpdateInv => PairStaysInstalled
    BY DEF UpdateInv, PairStaysInstalled, PairInv
  <1> QED
    BY <1>1, UpdateInvariant, PTL

(* While an apply can still fail, its source reads what is persisted.      *)
THEOREM RollbackIsPossible ==
  ASSUME UpdateConstants
  PROVE  UpdateSpec => []RollbackCanReadState
  <1>1. UpdateInv => RollbackCanReadState
    BY DEF UpdateInv, RollbackCanReadState, JournalInv, isCompatibleRollback,
           evaluateUpgradePreflight, InstallationCompatible
  <1> QED
    BY <1>1, UpdateInvariant, PTL

(* The binding and the record part only where the journal says that one of *)
(* the two switches is under way, or that a person has to look.            *)
THEOREM DisagreementIsSeen ==
  ASSUME UpdateConstants
  PROVE  UpdateSpec => []DisagreementIsVisible
  <1>1. UpdateInv => DisagreementIsVisible
    BY DEF UpdateInv, DisagreementIsVisible, UpdateTypeOK, StateInv, States,
       PreSwitch,
           TargetStart, Settled, Manual, AtSource, AtTarget
  <1> QED
    BY <1>1, UpdateInvariant, PTL

(* The four of them together: what the host run checks of the controller.  *)
THEOREM UpdatesAreSafe ==
  ASSUME UpdateConstants
  PROVE  UpdateSpec => []UpdateIsSafe
  <1>1. EndsServingTheRecord /\ PairStaysInstalled /\ RollbackCanReadState
          /\ DisagreementIsVisible => UpdateIsSafe
    BY DEF UpdateIsSafe
  <1> QED
    BY <1>1, EndsInService, PairIsKept, RollbackIsPossible,
       DisagreementIsSeen, PTL
==============================================================================
