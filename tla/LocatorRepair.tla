---------------------------- MODULE LocatorRepair ----------------------------
(***************************************************************************)
(* A locator repair proposal (workflow-locator-repair.repository.ts and    *)
(* the package workflow-locator-repair): the Runner of a run that waits    *)
(* for a repair proposes candidates, a user asks for a read-only test of   *)
(* one, the Runner tests it on the page it has, and a user applies a       *)
(* candidate that passed to a draft, while others edit and publish drafts. *)
(* Every operation is one serializable transaction.  A repeated creation,  *)
(* test request or result finds the client id stored and is answered       *)
(* without a change; only the answer to a repeated application is built    *)
(* from columns of its own, so only that retry is an action here.          *)
(***************************************************************************)
EXTENDS Naturals, FiniteSets

CONSTANTS
  Candidates,  \* the candidates of the proposal
  Drafts,      \* the workflow's other versions
  Parent,      \* draft -> the version it was created from
  RunVersion,      \* the published version the run executes
  ClientIds,   \* the client ids of applications
  MaxPatchRevision  \* bound on the revisions of a draft

NoId == "none"

\* A locator is told from the ones no proposal made, a client id from none.
ASSUME LocatorAssumption ==
  /\ {"source", "edited"} \cap Candidates = {} /\ NoId \notin ClientIds
  /\ MaxPatchRevision \in Nat

LocatorVersions == Drafts \cup {RunVersion}

VARIABLES
  hold,       \* the run: "waiting" for the repair under its lease, "leased"
              \* and past the repair, or "over"
  expired,    \* expiresAt of the repair request, and so of the proposal
  proposal,   \* the proposal row
  candidate,  \* the candidate rows
  draft,      \* the drafts: status, revision and the step's locator
  browserPage,       \* the page the Runner's browser shows
  command,    \* the test the Runner took from its poll, or {}
  answered    \* the answers given to applications

lrVars == <<hold, expired, proposal, candidate, draft, browserPage, command,
            answered>>

NoProposal ==
  [status |-> "none", digest |-> {}, page |-> 0,
   selected |-> NoId, target |-> NoId, revision |-> 0, apply |-> NoId]
Untested == [test |-> "NOT_REQUESTED", seen |-> 0]
TestResults == {"PASSED", "NOT_UNIQUE", "STALE_PAGE_CONTEXT"}

LocatorInit ==
  /\ hold = "waiting" /\ expired = FALSE /\ proposal = NoProposal
  /\ candidate = [c \in Candidates |-> Untested]
  /\ draft = [d \in Drafts |->
                [status |-> "draft", revision |-> 1, locator |-> "source"]]
  /\ browserPage = 1 /\ command = {} /\ answered = {}

\* hasCompatibleLineage: the draft descends from the run's version.
hasCompatibleLineage(d) ==
  \/ Parent[d] = RunVersion
  \/ (Parent[d] \in Drafts /\ Parent[Parent[d]] = RunVersion)

\* assessLocatorRepairEligibility, on what a failed attempt can be.
assessLocatorRepairEligibility(step, error, effect, gated) ==
  /\ error \in {"LOCATOR_NOT_FOUND", "LOCATOR_NOT_UNIQUE"}
  /\ ~gated
  /\ step \notin {"navigate", "wait", "approval"}
  /\ \/ effect = "not_started"
     \/ effect = "read_only" /\ step \in {"verify", "extract"}

\* deriveBinding: the step must be eligible; its locator is the source's.
deriveBinding == assessLocatorRepairEligibility(
                   "click", "LOCATOR_NOT_FOUND", "not_started", FALSE)

-----------------------------------------------------------------------------
\* createForRunner, with the candidates the server ranks and scores again;
\* one proposal for a repair request, and a retry answered alike.
createForRunner(cs) ==
  /\ hold = "waiting" /\ ~expired /\ deriveBinding
  /\ proposal.status = "none" /\ cs # {}
  /\ proposal' = [NoProposal EXCEPT !.status = "OPEN", !.digest = cs,
                                    !.page = browserPage]
  /\ UNCHANGED <<hold, expired, candidate, draft, browserPage, command,
                 answered>>

\* requestCandidateTest: one test at a time, each candidate once.
TestAllowed(c) ==
  /\ candidate[c].test = "NOT_REQUESTED"
  /\ proposal.status \in {"OPEN", "READY"} /\ ~expired
  /\ hold = "waiting"
NonePending == \A c \in Candidates : candidate[c].test # "PENDING"
requestCandidateTest(c) ==
  /\ c \in proposal.digest
  /\ TestAllowed(c) /\ NonePending
  /\ candidate' = [candidate EXCEPT ![c].test = "PENDING"]
  /\ UNCHANGED <<hold, expired, proposal, draft, browserPage, command,
                 answered>>

\* pollForRunner: the pending candidate becomes the Runner's command.
pollForRunner ==
  /\ hold = "waiting" /\ ~expired /\ proposal.status \in {"OPEN", "READY"}
  /\ command' = {c \in Candidates : candidate[c].test = "PENDING"}
  /\ command' # command
  /\ UNCHANGED <<hold, expired, proposal, candidate, draft, browserPage,
                 answered>>

\* submitTestResultForRunner: the result says on which page it was obtained.
ContextAgrees(r, seen) == r = "STALE_PAGE_CONTEXT" \/ seen = proposal.page
submitTestResultForRunner(c, r) ==
  /\ c \in command /\ hold # "over"
  /\ candidate[c].test = "PENDING" /\ ~expired
  /\ ContextAgrees(r, browserPage)
  /\ candidate' = [candidate EXCEPT ![c] = [test |-> r, seen |-> browserPage]]
  /\ proposal' = IF r = "PASSED" /\ proposal.status = "OPEN"
                 THEN [proposal EXCEPT !.status = "READY"] ELSE proposal
  /\ command' = {}
  /\ UNCHANGED <<hold, expired, draft, browserPage, answered>>

-----------------------------------------------------------------------------
\* applyToDraft.  The request was prepared from an earlier look at the
\* draft, so its expected revision may be old.
LocatorUnchanged(d) == draft[d].locator = "source"

\* Mutant: a proposal that was applied may be applied again.
ApplyAllowedAgain(c, d, expected) ==
  /\ proposal.status \in {"READY", "APPLIED"} /\ ~expired
  /\ candidate[c].test = "PASSED"
  /\ draft[d].status = "draft" /\ draft[d].revision = expected
  /\ hasCompatibleLineage(d)
  /\ LocatorUnchanged(d)

ApplyAllowed(c, d, expected) ==
  /\ proposal.status = "READY" /\ ~expired
  /\ candidate[c].test = "PASSED"
  /\ draft[d].status = "draft" /\ draft[d].revision = expected
  /\ hasCompatibleLineage(d)
  /\ LocatorUnchanged(d)
applyToDraft(c, d, expected, id) ==
  /\ proposal.apply # id
  /\ ApplyAllowed(c, d, expected)
  /\ draft[d].revision < MaxPatchRevision
  /\ draft' = [draft EXCEPT ![d].locator = c, ![d].revision = @ + 1]
  /\ proposal' = [proposal EXCEPT !.status = "APPLIED", !.selected = c,
                    !.target = d, !.revision = expected + 1, !.apply = id]
  /\ answered' = answered \cup {[id |-> id, target |-> d,
                                 revision |-> expected + 1]}
  /\ UNCHANGED <<hold, expired, candidate, browserPage, command>>

\* The same request again, after its answer was lost.
RetryAnswer(d, id) ==
  [id |-> id, target |-> proposal.target, revision |-> proposal.revision]
applyToDraftAgain(d, id) ==
  /\ proposal.apply = id /\ proposal.target = d
  /\ answered' = answered \cup {RetryAnswer(d, id)}
  /\ UNCHANGED <<hold, expired, proposal, candidate, draft, browserPage,
                 command>>

-----------------------------------------------------------------------------
(* What goes on around it: the editor, the run and the browser.            *)

EditDraft(d, changes) ==
  /\ draft[d].status = "draft" /\ draft[d].revision < MaxPatchRevision
  /\ draft' = [draft EXCEPT ![d] =
                  [status |-> "draft", revision |-> @.revision + 1,
                   locator |-> IF changes THEN "edited" ELSE @.locator]]
  /\ UNCHANGED <<hold, expired, proposal, candidate, browserPage, command,
                 answered>>

PublishDraft(d) ==
  /\ draft[d].status = "draft"
  /\ draft' = [draft EXCEPT ![d].status = "published"]
  /\ UNCHANGED <<hold, expired, proposal, candidate, browserPage, command,
                 answered>>

RunGoesOn ==
  /\ hold # "over"
  /\ hold' \in (IF hold = "waiting" THEN {"leased"} ELSE {}) \cup {"over"}
  /\ UNCHANGED <<expired, proposal, candidate, draft, browserPage, command,
                 answered>>
Expire ==
  /\ ~expired /\ expired' = TRUE
  /\ UNCHANGED <<hold, proposal, candidate, draft, browserPage, command,
                 answered>>
PageChanges ==
  /\ browserPage = 1 /\ browserPage' = 2
  /\ UNCHANGED <<hold, expired, proposal, candidate, draft, command, answered>>

LocatorNext ==
  \/ \E cs \in SUBSET Candidates : createForRunner(cs)
  \/ \E c \in Candidates : requestCandidateTest(c)
  \/ pollForRunner
  \/ \E c \in Candidates, r \in TestResults : submitTestResultForRunner(c, r)
  \/ \E c \in Candidates, d \in Drafts, n \in 1..MaxPatchRevision,
        id \in ClientIds : applyToDraft(c, d, n, id)
  \/ \E d \in Drafts, id \in ClientIds : applyToDraftAgain(d, id)
  \/ \E d \in Drafts, b \in BOOLEAN : EditDraft(d, b)
  \/ \E d \in Drafts : PublishDraft(d)
  \/ RunGoesOn \/ Expire \/ PageChanges

LocatorSpec == LocatorInit /\ [][LocatorNext]_lrVars

-----------------------------------------------------------------------------
LocatorTypeOK ==
  /\ hold \in {"waiting", "leased", "over"} /\ expired \in BOOLEAN
  /\ proposal.status \in {"none", "OPEN", "READY", "APPLIED"}
  /\ \A c \in Candidates : candidate[c].test \in
       {"NOT_REQUESTED", "PENDING"} \cup TestResults
  /\ \A d \in Drafts : draft[d].locator \in Candidates \cup {"source", "edited"}
  /\ command \subseteq Candidates

\* A candidate enters a draft only in place of the very locator that failed:
\* it was tested and passed on the page of the proposal, the draft was not
\* yet published and descends from the version that ran, and no edit made
\* since the request was prepared is overwritten.
PatchReplacesTheFailedLocator ==
  \A d \in Drafts :
    draft'[d].locator \in Candidates /\ draft'[d].locator # draft[d].locator
      => /\ draft[d].locator = "source" /\ draft[d].status = "draft"
         /\ hasCompatibleLineage(d)
         /\ candidate[draft'[d].locator].test = "PASSED"
         /\ candidate[draft'[d].locator].seen = proposal.page

\* One proposal changes one draft, however many users apply it and however
\* often a request is repeated, and a repeated request gets its first answer.
AppliedOnce ==
  /\ Cardinality({d \in Drafts : draft[d].locator \in Candidates}) <= 1
  /\ \A a, b \in answered : a.id = b.id => a = b

\* The Runner never has two candidates to test, so the answer it sends is
\* about the one that was asked for.
OneTestAtATime ==
  Cardinality({c \in Candidates : candidate[c].test = "PENDING"}) <= 1
\* One tested candidate replaces one failed locator, once (applyToDraft,
\* requestCandidateTest).
LocatorRepairedOnce ==
  /\ [](AppliedOnce /\ OneTestAtATime)
  /\ [][PatchReplacesTheFailedLocator]_lrVars
=============================================================================
