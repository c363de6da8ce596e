------------------------- MODULE WorkflowLifecycle -------------------------
(***************************************************************************)
(* The versions of one workflow: drafts, testing, publication, archival    *)
(* (workflow-lifecycle and workflow-draft repositories).  Every operation  *)
(* is one serializable transaction, repeated on a conflict, so each is one *)
(* action.  A user first opens a version and later acts on the revision he *)
(* saw: in between other users edit, return and resubmit it.               *)
(*                                                                         *)
(* A definition is one of Contents; Allowed[p] are the definitions whose   *)
(* readiness report has no blocking issue under the policy p.  The trail   *)
(* holds the source identifiers of the workflow's audit events.            *)
(***************************************************************************)
EXTENDS Naturals, FiniteSets, Sequences

CONSTANTS
  Users,        \* members of the organization
  Role,         \* their role
  Contents,     \* workflow definitions
  Policies,     \* execution policies of the workspace
  Allowed,      \* [Policies -> SUBSET Contents]
  Tokens,       \* clientCreationId values
  MaxVersions,  \* bound: versions of the workflow
  MaxDraftRevision   \* bound: revisions of a draft

VARIABLES
  versions,     \* the rows of workflow_versions, in version order
  activePolicy,       \* the active execution policy
  label,        \* whose name and description the workflow row carries
  trail,        \* audit source identifiers
  seen          \* what each user has on the screen

lifecycleVars == <<versions, activePolicy, label, trail, seen>>

\* What the constants stand for: there are definitions and policies, "none" is
\* neither a definition nor a creation identifier, and the bounds are numbers.
LifecycleConstants ==
  /\ Contents # {} /\ Policies # {}
  /\ "none" \notin Contents /\ "none" \notin Tokens
  /\ MaxVersions \in Nat \ {0} /\ MaxDraftRevision \in Nat \ {0}

Nothing == [version |-> 0]
NoToken == "none"
Statuses == {"draft", "testing", "published", "archived"}
EDITOR_ROLES == {"OWNER", "ADMIN", "MEMBER"}
PUBLISHER_ROLES == {"OWNER", "ADMIN"}

\* createAuditSourceId: the identity of an event; a repeated source is not
\* appended again.
Source(event, v, revision, reason) ==
  [event |-> event, version |-> v, revision |-> revision, reason |-> reason]

VALID_TRANSITIONS ==
  {<<"draft", "testing">>, <<"testing", "draft">>,
   <<"testing", "published">>, <<"published", "archived">>}

requireTransition(v, to) == <<versions[v].status, to>> \in VALID_TRANSITIONS

\* analyzeReadiness: the report under the policy active now.
Ready(content) == content \in Allowed[activePolicy]

\* A definition of the workflow reaches its first version from a recording.
LifecycleInit ==
  /\ versions = <<[status |-> "draft", revision |-> 1,
                   content |-> CHOOSE c \in Contents : TRUE,
                   from |-> 0, token |-> NoToken,
                   tested |-> "none", reviewed |-> "none"]>>
  /\ activePolicy = CHOOSE p \in Policies : TRUE
  /\ label = 1
  /\ trail = {}
  /\ seen = [u \in Users |-> Nothing]

\* getVersion: the user opens a version.
getVersion(u, v) ==
  /\ seen' = [seen EXCEPT ![u] = [version |-> v,
                                  revision |-> versions[v].revision,
                                  content |-> versions[v].content]]
  /\ UNCHANGED <<versions, activePolicy, label, trail>>

\* The checks every operation on a version starts with: the role, and the
\* revision the caller saw against the stored one.
requireRole(u, roles) == Role[u] \in roles

\* Mutant: the revision the user saw is not compared.
CurrentWhenOpened(u, v) == seen[u].version = v

Current(u, v) ==
  seen[u].version = v /\ seen[u].revision = versions[v].revision

editable(v) == versions[v].status = "draft"

\* updateDraft: a ready definition replaces the draft's, and the revision
\* moves on.
updateDraft(u, v, c) ==
  /\ requireRole(u, EDITOR_ROLES) /\ editable(v) /\ Ready(c) /\ Current(u, v)
  /\ versions[v].revision < MaxDraftRevision
  /\ versions' = [versions EXCEPT ![v].content = c, ![v].revision = @ + 1]
  /\ label' = v
  /\ trail' = trail \cup {Source("draft_updated", v,
                                 versions[v].revision + 1, "none")}
  /\ seen' = [seen EXCEPT ![u] = [version |-> v, content |-> c,
                                  revision |-> versions[v].revision + 1]]
  /\ UNCHANGED activePolicy

\* submitForTesting: transitionWithReadiness from draft to testing.
submitForTesting(u, v) ==
  /\ requireRole(u, EDITOR_ROLES) /\ Current(u, v)
  /\ requireTransition(v, "testing") /\ Ready(versions[v].content)
  /\ versions' = [versions EXCEPT ![v].status = "testing",
                                  ![v].tested = versions[v].content]
  /\ trail' = trail \cup {Source("submitted", v, versions[v].revision,
                                 "none")}
  /\ UNCHANGED <<activePolicy, label, seen>>

returnToDraft(u, v) ==
  /\ requireRole(u, EDITOR_ROLES) /\ Current(u, v)
  /\ requireTransition(v, "draft")
  /\ versions' = [versions EXCEPT ![v].status = "draft"]
  /\ trail' = trail \cup {Source("returned", v, versions[v].revision,
                                 "none")}
  /\ UNCHANGED <<activePolicy, label, seen>>

\* The published versions that a publication of v replaces.
previousPublished(v) ==
  {w \in DOMAIN versions : w # v /\ versions[w].status = "published"}

\* The audit events of a publication: one for each replaced version, one for
\* the publication.
publishEvents(v) ==
  {Source("archived", w, versions[w].revision, "replaced_by_publish") :
     w \in previousPublished(v)}
  \cup {Source("published", v, versions[v].revision, "none")}

\* publish: idempotent on a published version, otherwise the readiness is
\* decided again and every other published version is archived.
publish(u, v) ==
  /\ requireRole(u, PUBLISHER_ROLES) /\ Current(u, v)
  /\ requireTransition(v, "published") /\ Ready(versions[v].content)
  /\ versions' = [w \in DOMAIN versions |->
       IF w = v THEN [versions[v] EXCEPT !.status = "published",
                                         !.reviewed = seen[u].content]
       ELSE IF w \in previousPublished(v)
         THEN [versions[w] EXCEPT !.status = "archived"]
       ELSE versions[w]]
  /\ trail' = trail \cup publishEvents(v)
  /\ UNCHANGED <<activePolicy, label, seen>>

\* archive takes no revision: a published version is not edited.
archive(u, v) ==
  /\ requireRole(u, PUBLISHER_ROLES)
  /\ requireTransition(v, "archived")
  /\ versions' = [versions EXCEPT ![v].status = "archived"]
  /\ trail' = trail \cup {Source("archived", v, versions[v].revision,
                                 "manual")}
  /\ UNCHANGED <<activePolicy, label, seen>>

cloneable(v) == versions[v].status \in {"published", "archived"}

\* The version a creation identifier already made: a repeated request is
\* answered with it, or refused when it names another source.
existing(t) == {v \in DOMAIN versions : versions[v].token = t}

\* createDraftVersionClone: revision 1 of the next version, the source's
\* definition.
createDraftVersionClone(v, t) ==
  [status |-> "draft", revision |-> 1, content |-> versions[v].content,
   from |-> v, token |-> t, tested |-> "none", reviewed |-> "none"]

createDraftVersion(u, v, t) ==
  /\ requireRole(u, EDITOR_ROLES)
  /\ existing(t) = {} /\ cloneable(v)
  /\ Len(versions) < MaxVersions
  /\ versions' = Append(versions, createDraftVersionClone(v, t))
  /\ label' = Len(versions) + 1
  /\ trail' = trail \cup {Source("created", Len(versions) + 1, 1, "none")}
  /\ UNCHANGED <<activePolicy, seen>>

\* Another policy version becomes the active one.
activatePolicy(p) ==
  /\ p # activePolicy
  /\ activePolicy' = p
  /\ UNCHANGED <<versions, label, trail, seen>>

LifecycleNext ==
  \/ \E p \in Policies : activatePolicy(p)
  \/ \E u \in Users, v \in DOMAIN versions :
       \/ getVersion(u, v) \/ submitForTesting(u, v) \/ returnToDraft(u, v)
       \/ publish(u, v) \/ archive(u, v)
       \/ \E c \in Contents : updateDraft(u, v, c)
       \/ \E t \in Tokens : createDraftVersion(u, v, t)

LifecycleSpec == LifecycleInit /\ [][LifecycleNext]_lifecycleVars
-----------------------------------------------------------------------------
LifecycleTypeOK ==
  /\ versions \in Seq([status : Statuses, revision : 1..MaxDraftRevision,
                       content : Contents, from : 0..MaxVersions,
                       token : Tokens \cup {NoToken},
                       tested : Contents \cup {"none"},
                       reviewed : Contents \cup {"none"}])
  /\ Len(versions) \in 1..MaxVersions
  /\ activePolicy \in Policies /\ label \in DOMAIN versions
  /\ \A u \in Users : seen[u] = Nothing \/ seen[u].version \in DOMAIN versions

\* At most one version of a workflow is published, whoever publishes,
\* archives or clones meanwhile: publish archives every other one.
OnePublished ==
  \A v, w \in DOMAIN versions :
    versions[v].status = "published" /\ versions[w].status = "published"
      => v = w

\* What runs is what was tested: from its submission until it returns to
\* draft, and for good once published, a version keeps its definition.
TestedIsWhatRuns ==
  \A v \in DOMAIN versions :
    versions[v].status # "draft" => versions[v].content = versions[v].tested

\* A publisher publishes the definition he had opened: one edited since then
\* (returned to draft, changed, submitted again) carries another revision.
PublisherSawTheDefinition ==
  \A v \in DOMAIN versions :
    versions[v].status \in {"published", "archived"}
      => versions[v].reviewed = versions[v].content

\* The trail tells the life of every version: a publication has its event,
\* an archived version exactly one archival event, manual or by replacement.
TrailTellsPublications ==
  \A v \in DOMAIN versions :
    /\ (\E e \in trail : e.event = "published" /\ e.version = v)
         <=> versions[v].status \in {"published", "archived"}
    /\ Cardinality({e \in trail : e.event = "archived" /\ e.version = v})
         = (IF versions[v].status = "archived" THEN 1 ELSE 0)

\* A draft descends from an earlier version that was published, and starts
\* from what that version ran: the source is not edited afterwards.
LineageOfDrafts ==
  \A v \in DOMAIN versions :
    v > 1 => /\ versions[v].from < v
             /\ versions[versions[v].from].reviewed # "none"
             /\ versions[v].revision = 1
                  => versions[v].content = versions[versions[v].from].content

\* A version is published once tested and seen, one at a time, and the trail
\* and the lineage tell it (publish, archive, createDraftVersion).
PublicationIsSound ==
  /\ OnePublished /\ TestedIsWhatRuns /\ PublisherSawTheDefinition
  /\ TrailTellsPublications /\ LineageOfDrafts
=============================================================================
