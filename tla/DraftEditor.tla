------------------------------ MODULE DraftEditor ------------------------------
(***************************************************************************)
(* The web editor of a workflow draft: what each open page shows, its Save *)
(* and lifecycle buttons, the server actions they start, and the version   *)
(* row they change.  Several pages edit one draft.                         *)
(*                                                                         *)
(* A definition is the set of edits that made it.  A page reads its        *)
(* revision and definition when a button is clicked; server actions of one *)
(* page run one after the other (Next.js), and their answer is applied     *)
(* after the await, to whatever the page then shows.  Nothing keeps the    *)
(* user from editing meanwhile.  A page is reloaded only when none of its  *)
(* actions runs.                                                           *)
(***************************************************************************)
EXTENDS Naturals, Sequences, FiniteSets

CONSTANTS
    Pages,        \* open editor pages
    MaxEdits,     \* bound: edits made
    MaxSavedRevision,  \* bound: revisions of the draft
    MaxQueue      \* bound: server actions one page has waiting

VARIABLES
    row,    \* the WorkflowVersion row
    page,   \* the state of each page
    edits,  \* edits made so far
    kept    \* history: edits each page made while none of its actions ran

editorVars == <<row, page, edits, kept>>

NoReply == [result |-> "none", revision |-> 0, definition |-> {}]
Reply(result) == [NoReply EXCEPT !.result = result]

\* What a page loads: the row's definition, revision and status.
Loaded ==
    [definition |-> row.definition, revision |-> row.revision,
     dirty |-> FALSE, saveState |-> "idle", status |-> row.status,
     queue |-> <<>>, reply |-> NoReply]

Action(kind, p) ==
    [kind |-> kind, revision |-> page[p].revision,
     definition |-> page[p].definition]

readOnly(p) == page[p].status # "draft"

-------------------------------------------------------------------------------
\* The page is loaded again: local changes are given up.
Reload(p) ==
    /\ page[p].queue = <<>>
    /\ page' = [page EXCEPT ![p] = Loaded]
    /\ kept' = [kept EXCEPT ![p] = {}]
    /\ UNCHANGED <<row, edits>>

\* apply: any change of the definition, whether or not a save is under way.
Edit(p) ==
    /\ ~readOnly(p)
    /\ edits < MaxEdits
    /\ edits' = edits + 1
    /\ page' = [page EXCEPT ![p].definition = @ \cup {edits'},
                  ![p].dirty = TRUE, ![p].saveState = "idle"]
    /\ kept' = IF page[p].queue = <<>>
               THEN [kept EXCEPT ![p] = @ \cup {edits'}] ELSE kept
    /\ UNCHANGED row

\* save: with the button enabled, nothing blocking and something to save.
ClickSave(p) ==
    /\ ~readOnly(p) /\ page[p].dirty /\ page[p].saveState # "saving"
    /\ Len(page[p].queue) < MaxQueue
    /\ page' = [page EXCEPT ![p].saveState = "saving",
                  ![p].queue = Append(@, Action("save", p))]
    /\ UNCHANGED <<row, edits, kept>>

\* The lifecycle buttons: submit is disabled while there are local changes.
MaySubmit(p) == page[p].status = "draft" /\ ~page[p].dirty
LifecyclePending(p) ==
    \E i \in DOMAIN page[p].queue : page[p].queue[i].kind # "save"
ClickLifecycle(p) ==
    /\ ~LifecyclePending(p)
    /\ Len(page[p].queue) < MaxQueue
    /\ \E kind \in {"submit", "return"} :
        /\ IF kind = "submit" THEN MaySubmit(p)
           ELSE page[p].status = "testing"
        /\ page' = [page EXCEPT ![p].queue = Append(@, Action(kind, p))]
    /\ UNCHANGED <<row, edits, kept>>

-------------------------------------------------------------------------------
(* The server action at the head of a page's queue.                        *)

\* Mutant: the revision of the page is not compared.
AnyRevision(a) == TRUE

CurrentRevision(a) == row.revision = a.revision

\* updateDraft: a version that is no draft is an error of its own; a stale
\* revision is the conflict the page knows.
Saved(a) ==
    [row EXCEPT !.definition = a.definition, !.revision = @ + 1]
ExecuteSave(p) ==
    LET a == Head(page[p].queue)
        done == row.status = "draft" /\ CurrentRevision(a)
    IN  /\ a.kind = "save"
        /\ row.revision < MaxSavedRevision
        /\ row' = IF done THEN Saved(a) ELSE row
        /\ page' = [page EXCEPT ![p].reply =
                      IF done THEN [result |-> "success",
                                    revision |-> row'.revision,
                                    definition |-> row'.definition]
                      ELSE Reply(IF row.status # "draft" THEN "error"
                                 ELSE "conflict")]

\* submitForTesting and returnToDraft: both check revision and status.
ExecuteLifecycle(p) ==
    LET a == Head(page[p].queue)
        from == IF a.kind = "submit" THEN "draft" ELSE "testing"
        to == IF a.kind = "submit" THEN "testing" ELSE "draft"
        done == row.status = from /\ row.revision = a.revision
    IN  /\ a.kind # "save"
        /\ row' = IF done THEN [row EXCEPT !.status = to] ELSE row
        /\ page' = [page EXCEPT ![p].reply =
                      Reply(IF done THEN "success" ELSE "conflict")]

Execute(p) ==
    /\ page[p].queue # <<>>
    /\ page[p].reply = NoReply
    /\ ExecuteSave(p) \/ ExecuteLifecycle(p)
    /\ UNCHANGED <<edits, kept>>

\* The control plane is not reached, or its answer is lost: the action
\* reports an error, whatever happened to the row.
Lose(p) ==
    /\ page[p].queue # <<>>
    /\ page[p].reply.result # "error"
    /\ page' = [page EXCEPT ![p].reply = Reply("error")]
    /\ UNCHANGED <<row, edits, kept>>

-------------------------------------------------------------------------------
\* The answer of a save is applied: the saved definition replaces what the
\* page shows, a conflict or an error changes the message only.
AppliedSave(p, r) ==
    IF r.result = "success"
    THEN [page[p] EXCEPT !.definition = r.definition,
                         !.revision = r.revision, !.dirty = FALSE,
                         !.saveState = "saved"]
    ELSE [page[p] EXCEPT !.saveState = r.result]

\* After a lifecycle action router.refresh brings the row's status; the
\* page's own definition and revision stay.
AppliedLifecycle(p, r) ==
    [page[p] EXCEPT !.status = IF r.result = "success" THEN row.status ELSE @]

Receive(p) ==
    /\ page[p].reply # NoReply
    /\ LET applied == IF Head(page[p].queue).kind = "save"
                      THEN AppliedSave(p, page[p].reply)
                      ELSE AppliedLifecycle(p, page[p].reply)
       IN  page' = [page EXCEPT ![p] = [applied EXCEPT
                      !.queue = Tail(@), !.reply = NoReply]]
    /\ UNCHANGED <<row, edits, kept>>

-------------------------------------------------------------------------------
EditorInit ==
    /\ row = [definition |-> {}, revision |-> 1, status |-> "draft"]
    /\ page = [p \in Pages |->
                 [definition |-> {}, revision |-> 1, dirty |-> FALSE,
                  saveState |-> "idle", status |-> "draft", queue |-> <<>>,
                  reply |-> NoReply]]
    /\ edits = 0
    /\ kept = [p \in Pages |-> {}]

EditorNext ==
    \E p \in Pages :
        \/ Reload(p)
        \/ Edit(p)
        \/ ClickSave(p)
        \/ ClickLifecycle(p)
        \/ Execute(p)
        \/ Lose(p)
        \/ Receive(p)

EditorSpec == EditorInit /\ [][EditorNext]_editorVars

-------------------------------------------------------------------------------
\* Every variable keeps its type.
EditorTypeOK ==
    /\ row.definition \subseteq 1 .. MaxEdits
    /\ row.revision \in 1 .. MaxSavedRevision
    /\ row.status \in {"draft", "testing"}
    /\ \A p \in Pages :
        /\ page[p].definition \subseteq 1 .. MaxEdits
        /\ page[p].revision \in 1 .. MaxSavedRevision
        /\ page[p].dirty \in BOOLEAN
        /\ page[p].saveState \in {"idle", "saving", "saved", "conflict",
                                  "error"}
        /\ Len(page[p].queue) <= MaxQueue
        /\ kept[p] \subseteq 1 .. MaxEdits
    /\ edits \in 0 .. MaxEdits

\* A save never undoes what another page, or an earlier save of the same
\* page, has stored (updateDraft's optimistic revision check).
SavesAccumulate ==
    row.definition \subseteq row'.definition

\* A page that says "Saved" shows nothing that is not stored, also when the
\* user edited, or saved again, while a save was under way.
SavedMeansStored ==
    \A p \in Pages : ~page[p].dirty => page[p].definition \subseteq
                                           row.definition

\* A change made while none of the page's actions ran is on the page or in
\* the draft until the user reloads, through every conflict, error and lost
\* answer ("Your local changes are still here").
LocalChangesKept ==
    \A p \in Pages : kept[p] \subseteq page[p].definition \cup row.definition

\* What goes to testing is exactly the definition the page showed when
\* Submit was clicked.
SubmitsWhatIsShown ==
    row.status = "draft" /\ row'.status = "testing" =>
      \E p \in Pages : /\ page[p].queue # <<>>
                       /\ Head(page[p].queue).kind = "submit"
                       /\ Head(page[p].queue).definition =
                              row'.definition
\* What users type is kept and what they submit is what they saw
\* (updateDraft, submitForTesting, the editor's save state).
EditsAreKept ==
    /\ [](SavedMeansStored /\ LocalChangesKept)
    /\ [][SavesAccumulate]_editorVars
    /\ [][SubmitsWhatIsShown]_editorVars
===============================================================================
