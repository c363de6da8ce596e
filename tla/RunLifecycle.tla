---------------------------- MODULE RunLifecycle ----------------------------
(***************************************************************************)
(* What the run ledger promises about handing out work, with none of the   *)
(* rows that keep the promise: a run waits, is given to the Runner it was  *)
(* submitted for, once, under a ticket that Runner never had before, and   *)
(* ends. A Runner that is given a run has lost every other; a Runner that  *)
(* is barred has lost all of them and is given no more. RunDispatch        *)
(* implements this.                                                        *)
(***************************************************************************)
CONSTANTS Runs, Runners, Tickets, NoRunner, NoTicket

VARIABLES
  phase,      \* run -> "absent", "queued", "held" or "ended"
  assigned,   \* run -> the Runner it was submitted for
  ticket,     \* run -> the ticket it was handed out under
  barred      \* Runners that get no more work

vars == <<phase, assigned, ticket, barred>>

Init ==
  /\ phase = [r \in Runs |-> "absent"]
  /\ assigned = [r \in Runs |-> NoRunner]
  /\ ticket = [r \in Runs |-> NoTicket]
  /\ barred = {}

HeldBy(n) == {r \in Runs : phase[r] = "held" /\ assigned[r] = n}

Submit(r, n) ==
  /\ phase[r] = "absent"
  /\ phase' = [phase EXCEPT ![r] = "queued"]
  /\ assigned' = [assigned EXCEPT ![r] = n]
  /\ UNCHANGED <<ticket, barred>>

HandOut(r, n, k) ==
  /\ phase[r] = "queued"
  /\ assigned[r] = n
  /\ n \notin barred
  /\ \A x \in Runs : assigned[x] = n => ticket[x] # k
  /\ phase' = [x \in Runs |-> IF x = r THEN "held"
                              ELSE IF x \in HeldBy(n) THEN "ended"
                              ELSE phase[x]]
  /\ ticket' = [ticket EXCEPT ![r] = k]
  /\ UNCHANGED <<assigned, barred>>

(* The runs in S end; those of the Runners barred at the same time do.     *)
End(S, bar) ==
  /\ \A r \in S : phase[r] \in {"queued", "held"}
  /\ \A n \in bar : HeldBy(n) \subseteq S
  /\ phase' = [r \in Runs |-> IF r \in S THEN "ended" ELSE phase[r]]
  /\ barred' = barred \cup bar
  /\ UNCHANGED <<assigned, ticket>>

Next ==
  \/ \E r \in Runs, n \in Runners : Submit(r, n)
  \/ \E r \in Runs, n \in Runners, k \in Tickets : HandOut(r, n, k)
  \/ \E S \in SUBSET Runs, bar \in SUBSET Runners : End(S, bar)

Spec == Init /\ [][Next]_vars

=============================================================================
