---------------------- MODULE WorkflowLifecycleProofs ----------------------
(***************************************************************************)
(* Proofs about WorkflowLifecycle: for any users, definitions, policies    *)
(* and bounds, the published version is the one tested and seen, the trail *)
(* tells each publication and archival, and a clone starts from what its   *)
(* source ran.                                                             *)
(*                                                                         *)
(* PublicationIsSound is not inductive: a publisher acts on what is on his *)
(* screen, so one must know that every screen shows its version as it is,  *)
(* or as it was at a smaller revision (ScreensAreOld); that the trail has  *)
(* no event of a version still to come (TrailOfVersions); and that the     *)
(* source of a clone is released, hence no longer edited                   *)
(* (SourcesReleased).  The proof has two parts: what a step may do to a    *)
(* row and to the trail, action by action (Moves), and that such moves     *)
(* preserve the invariant.                                                 *)
(***************************************************************************)
EXTENDS WorkflowLifecycle, FiniteSetTheorems, TLAPS

-----------------------------------------------------------------------------
(* The inductive invariant                                                 *)

Row ==
  [status : Statuses, revision : 1..MaxDraftRevision, content : Contents,
   from : 0..MaxVersions, token : Tokens \cup {NoToken},
   tested : Contents \cup {"none"}, reviewed : Contents \cup {"none"}]

Released == {"published", "archived"}

(* A screen shows an existing version as it is or as it was at an earlier  *)
(* revision.                                                               *)
Screen(s) ==
  /\ s.version \in DOMAIN versions
  /\ s.revision \in Nat /\ s.revision <= versions[s.version].revision
  /\ s.revision = versions[s.version].revision =>
       s.content = versions[s.version].content

ScreensAreOld == \A u \in Users : seen[u] = Nothing \/ Screen(seen[u])

(* The trail names existing versions only.                                 *)
TrailOfVersions == \A e \in trail : e.version \in DOMAIN versions

PublishedEvents(v) == {e \in trail : e.event = "published" /\ e.version = v}
ArchivedEvents(v) == {e \in trail : e.event = "archived" /\ e.version = v}

(* The events of a publication and of an archival, without counting.       *)
TrailOfLife ==
  \A v \in DOMAIN versions :
    /\ PublishedEvents(v) # {} <=> versions[v].status \in Released
    /\ versions[v].status # "archived" => ArchivedEvents(v) = {}
    /\ versions[v].status = "archived" => \E e \in trail : ArchivedEvents(v) = {e}

(* A draft's source was released, and so it is still what it was.          *)
SourcesReleased ==
  \A v \in DOMAIN versions :
    v > 1 => /\ versions[v].from \in DOMAIN versions /\ versions[v].from < v
             /\ versions[versions[v].from].status \in Released
             /\ versions[v].revision = 1 =>
                  versions[v].content = versions[versions[v].from].content

LifecycleInv ==
  /\ LifecycleTypeOK /\ DOMAIN seen = Users /\ ScreensAreOld
  /\ OnePublished /\ TestedIsWhatRuns /\ PublisherSawTheDefinition
  /\ TrailOfVersions /\ TrailOfLife /\ SourcesReleased

-----------------------------------------------------------------------------
(* What a step does to a version                                           *)

Untouched(w) == versions'[w] = versions[w]

(* Everything but the fields named stays.                                  *)
KeepsIdentity(w) ==
  /\ versions'[w].from = versions[w].from
  /\ versions'[w].token = versions[w].token

Edited(w) ==
  /\ versions[w].status = "draft" /\ versions'[w].status = "draft"
  /\ versions'[w].revision = versions[w].revision + 1

Advanced(w) ==
  /\ versions'[w].revision = versions[w].revision
  /\ versions'[w].content = versions[w].content
  /\ \/ /\ versions[w].status = "draft" /\ versions'[w].status = "testing"
        /\ versions'[w].tested = versions[w].content
     \/ /\ versions[w].status = "testing" /\ versions'[w].status = "draft"
     \/ /\ versions[w].status = "testing" /\ versions'[w].status = "published"
        /\ versions'[w].tested = versions[w].tested
        /\ versions'[w].reviewed = versions[w].content
     \/ /\ versions[w].status = "published" /\ versions'[w].status = "archived"
        /\ versions'[w].tested = versions[w].tested
        /\ versions'[w].reviewed = versions[w].reviewed

RowMoves(w) == Untouched(w) \/ (KeepsIdentity(w) /\ (Edited(w) \/ Advanced(w)))

(* What the trail gains about a version is what happened to it.            *)
TrailMoves(w) ==
  /\ PublishedEvents(w)' # {} <=>
       \/ PublishedEvents(w) # {}
       \/ versions[w].status = "testing" /\ versions'[w].status = "published"
  /\ IF versions[w].status = "published" /\ versions'[w].status = "archived"
     THEN \E e \in trail' : ArchivedEvents(w)' = ArchivedEvents(w) \cup {e}
     ELSE ArchivedEvents(w)' = ArchivedEvents(w)

(* A version that appears is a draft of a released one, with no history.   *)
Appears(w) ==
  /\ w = Len(versions) + 1
  /\ versions'[w].status = "draft"
  /\ versions'[w].from \in DOMAIN versions
  /\ versions[versions'[w].from].status \in Released
  /\ versions'[w].content = versions[versions'[w].from].content
  /\ PublishedEvents(w)' = {} /\ ArchivedEvents(w)' = {}

Moves ==
  /\ DOMAIN versions \subseteq DOMAIN versions'
  /\ \A w \in DOMAIN versions : RowMoves(w) /\ TrailMoves(w)
  /\ \A w \in DOMAIN versions' : w \in DOMAIN versions \/ Appears(w)
  /\ \A v \in DOMAIN versions :
       versions[v].status # "published" /\ versions'[v].status = "published" =>
         \A w \in DOMAIN versions' : w # v => versions'[w].status # "published"

(* The rows are a sequence of rows.                                        *)
LEMMA RowsType ==
  ASSUME LifecycleTypeOK
  PROVE  /\ versions \in Seq(Row) /\ Len(versions) \in 1..MaxVersions
         /\ DOMAIN versions = 1..Len(versions)
         /\ \A v \in DOMAIN versions : versions[v] \in Row
  <1>1. versions \in Seq(Row) /\ Len(versions) \in 1..MaxVersions
    BY DEF LifecycleTypeOK, Row
  <1> QED
    BY <1>1

(* One row replaced by another.                                            *)
LEMMA ReplacedRow ==
  ASSUME LifecycleTypeOK, NEW v \in DOMAIN versions, NEW row \in Row,
         versions' = [versions EXCEPT ![v] = row]
  PROVE  /\ versions' \in Seq(Row) /\ Len(versions') = Len(versions)
         /\ DOMAIN versions' = DOMAIN versions
         /\ versions'[v] = row
         /\ \A w \in DOMAIN versions : w # v => versions'[w] = versions[w]
  <1>1. /\ versions \in Seq(Row) /\ Len(versions) \in Nat
        /\ DOMAIN versions = 1..Len(versions)
    BY RowsType
  <1>2. versions' \in [1..Len(versions) -> Row]
    BY <1>1
  <1>3. versions' \in Seq(Row) /\ DOMAIN versions' = 1..Len(versions)
    BY <1>1, <1>2
  <1>4. Len(versions') = Len(versions)
    BY <1>1, <1>3
  <1> QED
    BY <1>1, <1>3, <1>4

(* An event that is no publication and no archival tells nothing of them.  *)
LEMMA OtherEvent ==
  ASSUME NEW name, NEW x, NEW r, NEW why, name \notin Released,
         trail' = trail \cup {Source(name, x, r, why)}, NEW w
  PROVE  /\ PublishedEvents(w)' = PublishedEvents(w)
         /\ ArchivedEvents(w)' = ArchivedEvents(w)
  BY DEF Source, Released, PublishedEvents, ArchivedEvents

(* The trail as it was.                                                    *)
LEMMA SameTrail ==
  ASSUME trail' = trail, NEW w
  PROVE  /\ PublishedEvents(w)' = PublishedEvents(w)
         /\ ArchivedEvents(w)' = ArchivedEvents(w)
  BY DEF PublishedEvents, ArchivedEvents

-----------------------------------------------------------------------------
(* Every operation moves the versions and the trail so                     *)

Typed == versions' \in Seq(Row) /\ Len(versions') \in 1..MaxVersions

(* One version changes, and the trail tells so.                            *)
LEMMA OneRowMoves ==
  ASSUME LifecycleTypeOK, NEW v \in DOMAIN versions, NEW row \in Row,
         versions' = [versions EXCEPT ![v] = row],
         row.from = versions[v].from, row.token = versions[v].token,
         Edited(v) \/ Advanced(v),
         versions'[v].status # "published",
         \A w \in DOMAIN versions : TrailMoves(w)
  PROVE  Typed /\ Moves
  <1>1. /\ versions' \in Seq(Row) /\ Len(versions') = Len(versions)
        /\ DOMAIN versions' = DOMAIN versions
        /\ versions'[v] = row
        /\ \A w \in DOMAIN versions : w # v => versions'[w] = versions[w]
    BY ReplacedRow
  <1>2. \A w \in DOMAIN versions : RowMoves(w)
    BY <1>1 DEF RowMoves, Untouched, KeepsIdentity
  <1>3. Typed
    BY <1>1, RowsType DEF Typed
  <1>4. \A w \in DOMAIN versions :
          versions[w].status # "published" => versions'[w].status # "published"
    BY <1>1
  <1> QED
    BY <1>1, <1>2, <1>3, <1>4 DEF Moves

(* The versions and the trail stay.                                        *)
LEMMA NothingMoves ==
  ASSUME LifecycleTypeOK, versions' = versions, trail' = trail
  PROVE  Typed /\ Moves
  BY RowsType, SameTrail DEF Typed, Moves, RowMoves, Untouched, TrailMoves

(* An edit of a draft.                                                     *)
LEMMA UpdateDraftMoves ==
  ASSUME LifecycleInv, LifecycleConstants, NEW u \in Users, NEW v \in DOMAIN versions,
         NEW c \in Contents, updateDraft(u, v, c)
  PROVE  Typed /\ Moves
  <1> DEFINE row == [versions[v] EXCEPT !.content = c, !.revision = @ + 1]
  <1>1. LifecycleTypeOK /\ versions[v] \in Row /\ MaxDraftRevision \in Nat
    BY RowsType DEF LifecycleInv, LifecycleConstants
  <1>2. /\ versions' = [versions EXCEPT ![v] = row]
        /\ versions[v].status = "draft" /\ versions[v].revision < MaxDraftRevision
        /\ trail' = trail \cup {Source("draft_updated", v, versions[v].revision + 1,
                                       "none")}
    BY DEF updateDraft, editable
  <1>3. row \in Row
    <2> DEFINE r == versions[v].revision + 1
    <2>1. r \in 1..MaxDraftRevision
      BY <1>1, <1>2 DEF Row
    <2>2. row = [versions[v] EXCEPT !.content = c, !.revision = r]
      BY <1>1 DEF Row
    <2> HIDE DEF r, row
    <2> QED
      BY <1>1, <2>1, <2>2 DEF Row
  <1>4. /\ row.status = "draft" /\ row.revision = versions[v].revision + 1
        /\ row.from = versions[v].from /\ row.token = versions[v].token
    BY <1>1, <1>2 DEF Row
  <1> HIDE DEF row
  <1>5. /\ versions'[v] = row
        /\ \A w \in DOMAIN versions : w # v => versions'[w] = versions[w]
    BY <1>1, <1>2, <1>3, ReplacedRow
  <1>6. \A w \in DOMAIN versions : TrailMoves(w)
    <2>1. "draft_updated" \notin Released
      BY DEF Released
    <2>2. \A w \in DOMAIN versions : /\ PublishedEvents(w)' = PublishedEvents(w)
                                    /\ ArchivedEvents(w)' = ArchivedEvents(w)
      BY <1>2, <2>1, OtherEvent
    <2> QED
      BY <1>2, <1>4, <1>5, <2>2 DEF TrailMoves
  <1>7. Edited(v) /\ versions'[v].status # "published"
    BY <1>2, <1>4, <1>5 DEF Edited
  <1> QED
    BY <1>1, <1>2, <1>3, <1>4, <1>6, <1>7, OneRowMoves

(* A submission for testing.                                               *)
LEMMA SubmitMoves ==
  ASSUME LifecycleInv, NEW u \in Users, NEW v \in DOMAIN versions, submitForTesting(u, v)
  PROVE  Typed /\ Moves
  <1> DEFINE row == [versions[v] EXCEPT !.status = "testing",
                                        !.tested = versions[v].content]
  <1>1. LifecycleTypeOK /\ versions[v] \in Row
    BY RowsType DEF LifecycleInv
  <1>2. /\ versions' = [versions EXCEPT ![v] = row]
        /\ versions[v].status = "draft"
        /\ trail' = trail \cup {Source("submitted", v, versions[v].revision, "none")}
    BY DEF submitForTesting, requireTransition, VALID_TRANSITIONS
  <1>3. row \in Row
    BY <1>1 DEF Row, Statuses
  <1>4. /\ row.status = "testing" /\ row.revision = versions[v].revision
        /\ row.content = versions[v].content /\ row.tested = versions[v].content
        /\ row.from = versions[v].from /\ row.token = versions[v].token
    BY <1>1 DEF Row
  <1> HIDE DEF row
  <1>5. /\ versions'[v] = row
        /\ \A w \in DOMAIN versions : w # v => versions'[w] = versions[w]
    BY <1>1, <1>2, <1>3, ReplacedRow
  <1>6. \A w \in DOMAIN versions : TrailMoves(w)
    <2>1. "submitted" \notin Released
      BY DEF Released
    <2>2. \A w \in DOMAIN versions : /\ PublishedEvents(w)' = PublishedEvents(w)
                                    /\ ArchivedEvents(w)' = ArchivedEvents(w)
      BY <1>2, <2>1, OtherEvent
    <2> QED
      BY <1>2, <1>4, <1>5, <2>2 DEF TrailMoves
  <1>7. Advanced(v) /\ versions'[v].status # "published"
    BY <1>2, <1>4, <1>5 DEF Advanced
  <1> QED
    BY <1>1, <1>2, <1>3, <1>4, <1>6, <1>7, OneRowMoves

(* A return to draft.                                                      *)
LEMMA ReturnMoves ==
  ASSUME LifecycleInv, NEW u \in Users, NEW v \in DOMAIN versions, returnToDraft(u, v)
  PROVE  Typed /\ Moves
  <1> DEFINE row == [versions[v] EXCEPT !.status = "draft"]
  <1>1. LifecycleTypeOK /\ versions[v] \in Row
    BY RowsType DEF LifecycleInv
  <1>2. /\ versions' = [versions EXCEPT ![v] = row]
        /\ versions[v].status = "testing"
        /\ trail' = trail \cup {Source("returned", v, versions[v].revision, "none")}
    BY DEF returnToDraft, requireTransition, VALID_TRANSITIONS
  <1>3. row \in Row
    BY <1>1 DEF Row, Statuses
  <1>4. /\ row.status = "draft" /\ row.revision = versions[v].revision
        /\ row.content = versions[v].content
        /\ row.from = versions[v].from /\ row.token = versions[v].token
    BY <1>1 DEF Row
  <1> HIDE DEF row
  <1>5. /\ versions'[v] = row
        /\ \A w \in DOMAIN versions : w # v => versions'[w] = versions[w]
    BY <1>1, <1>2, <1>3, ReplacedRow
  <1>6. \A w \in DOMAIN versions : TrailMoves(w)
    <2>1. "returned" \notin Released
      BY DEF Released
    <2>2. \A w \in DOMAIN versions : /\ PublishedEvents(w)' = PublishedEvents(w)
                                    /\ ArchivedEvents(w)' = ArchivedEvents(w)
      BY <1>2, <2>1, OtherEvent
    <2> QED
      BY <1>2, <1>4, <1>5, <2>2 DEF TrailMoves
  <1>7. Advanced(v) /\ versions'[v].status # "published"
    BY <1>2, <1>4, <1>5 DEF Advanced
  <1> QED
    BY <1>1, <1>2, <1>3, <1>4, <1>6, <1>7, OneRowMoves

(* A manual archival.                                                      *)
LEMMA ArchiveMoves ==
  ASSUME LifecycleInv, NEW u \in Users, NEW v \in DOMAIN versions, archive(u, v)
  PROVE  Typed /\ Moves
  <1> DEFINE row == [versions[v] EXCEPT !.status = "archived"]
             e == Source("archived", v, versions[v].revision, "manual")
  <1>1. LifecycleTypeOK /\ versions[v] \in Row
    BY RowsType DEF LifecycleInv
  <1>2. /\ versions' = [versions EXCEPT ![v] = row]
        /\ versions[v].status = "published" /\ trail' = trail \cup {e}
    BY DEF archive, requireTransition, VALID_TRANSITIONS
  <1>3. row \in Row
    BY <1>1 DEF Row, Statuses
  <1>4. /\ row.status = "archived" /\ row.revision = versions[v].revision
        /\ row.content = versions[v].content /\ row.tested = versions[v].tested
        /\ row.reviewed = versions[v].reviewed
        /\ row.from = versions[v].from /\ row.token = versions[v].token
    BY <1>1 DEF Row
  <1> HIDE DEF row
  <1>5. /\ versions'[v] = row
        /\ \A w \in DOMAIN versions : w # v => versions'[w] = versions[w]
    BY <1>1, <1>2, <1>3, ReplacedRow
  <1>6. e.event = "archived" /\ e.version = v
    BY DEF Source
  <1> HIDE DEF e
  <1>7. \A w \in DOMAIN versions : TrailMoves(w)
    <2> SUFFICES ASSUME NEW w \in DOMAIN versions PROVE TrailMoves(w)
      OBVIOUS
    <2>1. PublishedEvents(w)' = PublishedEvents(w)
      BY <1>2, <1>6 DEF PublishedEvents
    <2>2. CASE w = v
      <3>1. ArchivedEvents(w)' = ArchivedEvents(w) \cup {e}
        BY <1>2, <1>6, <2>2 DEF ArchivedEvents
      <3> QED
        BY <1>2, <1>4, <1>5, <2>1, <2>2, <3>1 DEF TrailMoves
    <2>3. CASE w # v
      <3>1. ArchivedEvents(w)' = ArchivedEvents(w)
        BY <1>2, <1>6, <2>3 DEF ArchivedEvents
      <3> QED
        BY <1>5, <2>1, <2>3, <3>1 DEF TrailMoves
    <2> QED
      BY <2>2, <2>3
  <1>8. Advanced(v) /\ versions'[v].status # "published"
    BY <1>2, <1>4, <1>5 DEF Advanced
  <1> QED
    BY <1>1, <1>2, <1>3, <1>4, <1>7, <1>8, OneRowMoves

(* A publication: the publisher saw the definition, and what was published *)
(* before is archived.                                                     *)
LEMMA PublishMoves ==
  ASSUME LifecycleInv, NEW u \in Users, NEW v \in DOMAIN versions, publish(u, v)
  PROVE  Typed /\ Moves
  <1> DEFINE old == previousPublished(v)
             row == [versions[v] EXCEPT !.status = "published",
                                        !.reviewed = seen[u].content]
             arch(w) == Source("archived", w, versions[w].revision,
                               "replaced_by_publish")
             pub == Source("published", v, versions[v].revision, "none")
  <1>1. /\ LifecycleTypeOK /\ versions[v] \in Row
        /\ DOMAIN versions = 1..Len(versions) /\ Len(versions) \in 1..MaxVersions
        /\ \A w \in DOMAIN versions : versions[w] \in Row
    BY RowsType DEF LifecycleInv
  <1>2. /\ versions[v].status = "testing"
        /\ versions' = [w \in DOMAIN versions |->
             IF w = v THEN row
             ELSE IF w \in old THEN [versions[w] EXCEPT !.status = "archived"]
             ELSE versions[w]]
        /\ trail' = trail \cup ({arch(w) : w \in old} \cup {pub})
        /\ Current(u, v)
    BY DEF publish, requireTransition, VALID_TRANSITIONS, publishEvents
  <1>3. seen[u].content = versions[v].content
    <2>1. seen[u].version = v /\ seen[u].revision = versions[v].revision
      BY <1>2 DEF Current
    <2>2. seen[u] # Nothing
      <3>1. Nothing.version = 0 /\ v # 0
        BY <1>1 DEF Nothing
      <3> QED
        BY <2>1, <3>1
    <2> QED
      BY <2>1, <2>2 DEF LifecycleInv, ScreensAreOld, Screen
  <1>4. row \in Row
    BY <1>1, <1>3 DEF Row, Statuses
  <1>5. /\ row.status = "published" /\ row.revision = versions[v].revision
        /\ row.content = versions[v].content /\ row.tested = versions[v].tested
        /\ row.reviewed = versions[v].content
        /\ row.from = versions[v].from /\ row.token = versions[v].token
    BY <1>1, <1>3 DEF Row
  <1> HIDE DEF row
  <1>6. /\ old \subseteq DOMAIN versions /\ v \notin old
        /\ \A w \in old : versions[w].status = "published"
        /\ \A w \in DOMAIN versions :
             w # v /\ w \notin old => versions[w].status # "published"
    BY DEF previousPublished
  <1> HIDE DEF old
  <1>7. /\ versions'[v] = row
        /\ \A w \in old : versions'[w] = [versions[w] EXCEPT !.status = "archived"]
        /\ \A w \in DOMAIN versions : w # v /\ w \notin old => versions'[w] = versions[w]
        /\ DOMAIN versions' = DOMAIN versions
    BY <1>2, <1>6
  <1>8. ASSUME NEW w \in old
        PROVE  /\ versions'[w] \in Row /\ versions'[w].status = "archived"
               /\ versions'[w].revision = versions[w].revision
               /\ versions'[w].content = versions[w].content
               /\ versions'[w].tested = versions[w].tested
               /\ versions'[w].reviewed = versions[w].reviewed
               /\ versions'[w].from = versions[w].from
               /\ versions'[w].token = versions[w].token
    <2>1. w \in DOMAIN versions /\ versions[w] \in Row
      BY <1>1, <1>6
    <2>2. versions'[w] = [versions[w] EXCEPT !.status = "archived"]
      BY <1>7
    <2> QED
      BY <2>1, <2>2 DEF Row, Statuses
  <1>9. Typed
    <2>1. versions' \in [1..Len(versions) -> Row]
      <3>1. \A w \in DOMAIN versions : versions'[w] \in Row
        BY <1>1, <1>4, <1>7, <1>8
      <3>2. versions' = [w \in DOMAIN versions |-> versions'[w]]
        BY <1>2
      <3> QED
        BY <1>1, <3>1, <3>2
    <2>2. Len(versions) \in Nat
      BY <1>1
    <2>3. versions' \in Seq(Row) /\ DOMAIN versions' = 1..Len(versions)
      BY <2>1, <2>2
    <2>4. Len(versions') = Len(versions)
      BY <2>2, <2>3
    <2> QED
      BY <1>1, <2>3, <2>4 DEF Typed
  <1>10. \A w \in DOMAIN versions : RowMoves(w)
    <2>1. RowMoves(v)
      BY <1>2, <1>5, <1>7 DEF RowMoves, KeepsIdentity, Advanced
    <2>2. \A w \in old : RowMoves(w)
      BY <1>6, <1>8 DEF RowMoves, KeepsIdentity, Advanced
    <2>3. \A w \in DOMAIN versions : w # v /\ w \notin old => RowMoves(w)
      BY <1>7 DEF RowMoves, Untouched
    <2> QED
      BY <2>1, <2>2, <2>3
  <1>11. /\ pub.event = "published" /\ pub.version = v
         /\ \A w : arch(w).event = "archived" /\ arch(w).version = w
    BY DEF Source
  <1> HIDE DEF pub, arch
  <1>12. \A w \in DOMAIN versions : TrailMoves(w)
    <2> SUFFICES ASSUME NEW w \in DOMAIN versions PROVE TrailMoves(w)
      OBVIOUS
    <2>1. PublishedEvents(w)' # {} <=> PublishedEvents(w) # {} \/ w = v
      <3>1. PublishedEvents(w)' = PublishedEvents(w) \cup
                                    {e \in {pub} : e.version = w}
        BY <1>2, <1>11 DEF PublishedEvents
      <3> QED
        BY <1>11, <3>1
    <2>2. w \in old => ArchivedEvents(w)' = ArchivedEvents(w) \cup {arch(w)}
      BY <1>2, <1>11 DEF ArchivedEvents
    <2>3. w \notin old => ArchivedEvents(w)' = ArchivedEvents(w)
      BY <1>2, <1>11 DEF ArchivedEvents
    <2>4. /\ w = v <=> versions[w].status = "testing" /\ versions'[w].status = "published"
          /\ w \in old <=> versions[w].status = "published" /\ versions'[w].status = "archived"
      BY <1>2, <1>5, <1>6, <1>7, <1>8
    <2>5. w \in old => arch(w) \in trail'
      BY <1>2
    <2> QED
      BY <2>1, <2>2, <2>3, <2>4, <2>5 DEF TrailMoves
  <1>13. \A w \in DOMAIN versions : w # v => versions'[w].status # "published"
    BY <1>6, <1>7, <1>8
  <1>14. \A x \in DOMAIN versions :
           versions[x].status # "published" /\ versions'[x].status = "published" =>
             \A w \in DOMAIN versions' : w # x => versions'[w].status # "published"
    BY <1>7, <1>13
  <1> QED
    BY <1>7, <1>9, <1>10, <1>12, <1>14 DEF Moves

(* A clone.                                                                *)
LEMMA CreateDraftMoves ==
  ASSUME LifecycleInv, LifecycleConstants, NEW u \in Users, NEW v \in DOMAIN versions,
         NEW t \in Tokens, createDraftVersion(u, v, t)
  PROVE  Typed /\ Moves
  <1> DEFINE row == createDraftVersionClone(v, t)
  <1>0. PICK n : n = Len(versions) + 1
    OBVIOUS
  <1>1. /\ LifecycleTypeOK /\ versions[v] \in Row /\ versions \in Seq(Row)
        /\ DOMAIN versions = 1..Len(versions) /\ Len(versions) \in 1..MaxVersions
        /\ MaxVersions \in Nat /\ MaxDraftRevision \in Nat \ {0}
    BY RowsType DEF LifecycleInv, LifecycleConstants
  <1>2. /\ versions' = Append(versions, row)
        /\ versions[v].status \in Released /\ Len(versions) < MaxVersions
        /\ trail' = trail \cup {Source("created", n, 1, "none")}
    BY <1>0 DEF createDraftVersion, cloneable, Released
  <1>3. /\ row \in Row /\ row.status = "draft" /\ row.from = v
        /\ row.content = versions[v].content
    BY <1>1 DEF createDraftVersionClone, Row, Statuses
  <1> HIDE DEF row
  <1>4. /\ versions' \in Seq(Row) /\ Len(versions') = n
        /\ DOMAIN versions' = 1..n /\ versions'[n] = row
        /\ \A w \in DOMAIN versions : versions'[w] = versions[w]
    BY <1>0, <1>1, <1>2, <1>3
  <1>5. n \notin DOMAIN versions /\ DOMAIN versions' = DOMAIN versions \cup {n}
    BY <1>0, <1>1, <1>4
  <1>6. \A w : /\ PublishedEvents(w)' = PublishedEvents(w)
               /\ ArchivedEvents(w)' = ArchivedEvents(w)
    <2>1. "created" \notin Released
      BY DEF Released
    <2> QED
      BY <1>2, <2>1, OtherEvent
  <1>7. \A w \in DOMAIN versions : RowMoves(w) /\ TrailMoves(w)
    BY <1>4, <1>6 DEF RowMoves, Untouched, TrailMoves
  <1>8. PublishedEvents(n)' = {} /\ ArchivedEvents(n)' = {}
    <2>1. PublishedEvents(n) = {} /\ ArchivedEvents(n) = {}
      BY <1>5 DEF PublishedEvents, ArchivedEvents, LifecycleInv,
        TrailOfVersions
    <2> QED
      BY <1>6, <2>1
  <1>9. Appears(n)
    BY <1>0, <1>2, <1>3, <1>4, <1>8 DEF Appears
  <1>10. Typed
    BY <1>0, <1>1, <1>2, <1>4 DEF Typed
  <1> QED
    BY <1>4, <1>5, <1>7, <1>9, <1>10 DEF Moves

(* Every step moves the versions and the trail so.                         *)
LEMMA NextMoves ==
  ASSUME LifecycleInv, LifecycleConstants, [LifecycleNext]_lifecycleVars
  PROVE  Typed /\ Moves
  <1>0. LifecycleTypeOK
    BY DEF LifecycleInv
  <1>1. CASE UNCHANGED lifecycleVars \/ \E p \in Policies : activatePolicy(p)
    BY <1>0, <1>1, NothingMoves DEF lifecycleVars, activatePolicy
  <1>2. ASSUME NEW u \in Users, NEW v \in DOMAIN versions, getVersion(u, v)
        PROVE  Typed /\ Moves
    BY <1>0, <1>2, NothingMoves DEF getVersion
  <1> QED
    BY <1>1, <1>2, UpdateDraftMoves, SubmitMoves, ReturnMoves, ArchiveMoves,
       PublishMoves, CreateDraftMoves DEF LifecycleNext

-----------------------------------------------------------------------------
(* Such moves preserve the invariant                                       *)

(* What was released stays as it was released.                             *)
LEMMA ReleasedStays ==
  ASSUME Moves, NEW w \in DOMAIN versions, versions[w].status \in Released
  PROVE  /\ versions'[w].status \in Released
         /\ versions'[w].content = versions[w].content
  BY DEF Moves, RowMoves, Untouched, Edited, Advanced, Released

(* A screen as the versions are after a step.                              *)
ScreenAfter(s) ==
  /\ s.version \in DOMAIN versions'
  /\ s.revision \in Nat /\ s.revision <= versions'[s.version].revision
  /\ s.revision = versions'[s.version].revision =>
       s.content = versions'[s.version].content

(* A screen shows the present or the past, whatever happens meanwhile.     *)
LEMMA ScreenStays ==
  ASSUME LifecycleTypeOK, Typed, Moves, NEW s, Screen(s)
  PROVE  ScreenAfter(s)
  <1> DEFINE w == s.version
  <1>1. /\ w \in DOMAIN versions /\ w \in DOMAIN versions' /\ RowMoves(w)
        /\ versions[w].revision \in Nat
    BY RowsType DEF Screen, Moves, Row
  <1>2. \/ /\ versions'[w].revision = versions[w].revision
           /\ versions'[w].content = versions[w].content
        \/ versions'[w].revision = versions[w].revision + 1
    BY <1>1 DEF RowMoves, Untouched, Edited, Advanced
  <1> HIDE DEF w
  <1> QED
    BY <1>1, <1>2 DEF Screen, ScreenAfter, w

(* Every step leaves the screens, the policy and the label in order.       *)
LEMMA ScreensStep ==
  ASSUME LifecycleInv, LifecycleConstants, [LifecycleNext]_lifecycleVars
  PROVE  /\ DOMAIN seen' = Users /\ ScreensAreOld'
         /\ activePolicy' \in Policies /\ label' \in DOMAIN versions'
  <1>0. /\ LifecycleTypeOK /\ Typed /\ Moves /\ DOMAIN seen = Users /\ ScreensAreOld
        /\ activePolicy \in Policies /\ label \in DOMAIN versions
        /\ DOMAIN versions \subseteq DOMAIN versions'
    BY NextMoves DEF LifecycleInv, LifecycleTypeOK, Moves
  <1>1. \A u \in Users : seen[u] = Nothing \/ ScreenAfter(seen[u])
    BY <1>0, ScreenStays DEF ScreensAreOld
  <1>2. CASE UNCHANGED <<seen, activePolicy, label>>
    BY <1>0, <1>1, <1>2 DEF ScreensAreOld, Screen, ScreenAfter
  <1>3. CASE \E p \in Policies : activatePolicy(p)
    BY <1>0, <1>1, <1>3 DEF activatePolicy, ScreensAreOld, Screen, ScreenAfter
  <1>4. ASSUME NEW u \in Users, NEW v \in DOMAIN versions, NEW s,
               seen' = [seen EXCEPT ![u] = s], ScreenAfter(s),
               activePolicy' = activePolicy, label' \in DOMAIN versions'
        PROVE  /\ DOMAIN seen' = Users /\ ScreensAreOld'
               /\ activePolicy' \in Policies /\ label' \in DOMAIN versions'
    <2>1. \A x \in Users : seen'[x] = IF x = u THEN s ELSE seen[x]
      BY <1>0, <1>4
    <2>2. \A x \in Users : seen'[x] = Nothing \/ ScreenAfter(seen'[x])
      BY <1>1, <1>4, <2>1
    <2>3. ScreensAreOld'
      BY <2>2 DEF ScreensAreOld, Screen, ScreenAfter
    <2> QED
      BY <1>0, <1>4, <2>3
  <1>5. ASSUME NEW u \in Users, NEW v \in DOMAIN versions, getVersion(u, v)
        PROVE  /\ DOMAIN seen' = Users /\ ScreensAreOld'
               /\ activePolicy' \in Policies /\ label' \in DOMAIN versions'
    <2> DEFINE s == [version |-> v, revision |-> versions[v].revision,
                     content |-> versions[v].content]
    <2>1. /\ seen' = [seen EXCEPT ![u] = s]
          /\ UNCHANGED <<versions, activePolicy, label>>
      BY <1>5 DEF getVersion
    <2>2. versions[v].revision \in Nat
      BY <1>0, RowsType DEF Row
    <2>3. ScreenAfter(s)
      BY <2>1, <2>2 DEF ScreenAfter
    <2> QED
      BY <1>0, <1>4, <2>1, <2>3
  <1>6. ASSUME NEW u \in Users, NEW v \in DOMAIN versions, NEW c \in Contents,
               updateDraft(u, v, c)
        PROVE  /\ DOMAIN seen' = Users /\ ScreensAreOld'
               /\ activePolicy' \in Policies /\ label' \in DOMAIN versions'
    <2> DEFINE r == versions[v].revision + 1
               s == [version |-> v, content |-> c, revision |-> r]
    <2>1. /\ seen' = [seen EXCEPT ![u] = s] /\ activePolicy' = activePolicy /\ label' = v
          /\ versions' = [versions EXCEPT ![v].content = c, ![v].revision = @ + 1]
      BY <1>6 DEF updateDraft
    <2>2. versions[v] \in Row /\ versions[v].revision \in Nat
      BY <1>0, RowsType DEF Row
    <2>3. versions'[v].revision = r /\ versions'[v].content = c
      BY <2>1, <2>2 DEF Row
    <2>4. s.version = v /\ s.revision = r /\ s.content = c /\ r \in Nat
      BY <2>2
    <2> HIDE DEF s
    <2>5. v \in DOMAIN versions' /\ r <= r
      BY <1>0, <2>4
    <2> HIDE DEF r
    <2>6. ScreenAfter(s)
      BY <2>3, <2>4, <2>5 DEF ScreenAfter
    <2> QED
      BY <1>0, <1>4, <2>1, <2>6
  <1>7. ASSUME NEW u \in Users, NEW v \in DOMAIN versions, NEW t \in Tokens,
               createDraftVersion(u, v, t)
        PROVE  /\ DOMAIN seen' = Users /\ ScreensAreOld'
               /\ activePolicy' \in Policies /\ label' \in DOMAIN versions'
    <2>1. /\ UNCHANGED <<activePolicy, seen>> /\ label' = Len(versions) + 1
          /\ versions' = Append(versions, createDraftVersionClone(v, t))
      BY <1>7 DEF createDraftVersion
    <2>2. versions \in Seq(Row) /\ Len(versions) \in Nat
      BY <1>0, RowsType
    <2>3. Len(versions) + 1 \in DOMAIN versions'
      BY <2>1, <2>2
    <2> QED
      BY <1>0, <1>1, <2>1, <2>3 DEF ScreensAreOld, Screen, ScreenAfter
  <1> QED
    BY <1>2, <1>3, <1>5, <1>6, <1>7 DEF LifecycleNext, lifecycleVars,
      submitForTesting, returnToDraft,
       publish, archive

(* Every event is of an existing version.                                  *)
LEMMA TrailStep ==
  ASSUME LifecycleInv, LifecycleConstants, [LifecycleNext]_lifecycleVars
  PROVE  TrailOfVersions'
  <1>0. /\ Moves /\ TrailOfVersions /\ DOMAIN versions \subseteq DOMAIN versions'
    BY NextMoves DEF LifecycleInv, Moves
  <1>1. CASE trail' = trail
    BY <1>0, <1>1 DEF TrailOfVersions
  <1>2. ASSUME NEW name, NEW v \in DOMAIN versions', NEW r, NEW why,
               trail' = trail \cup {Source(name, v, r, why)}
        PROVE  TrailOfVersions'
    BY <1>0, <1>2 DEF TrailOfVersions, Source
  <1>3. ASSUME NEW u \in Users, NEW v \in DOMAIN versions, publish(u, v)
        PROVE  TrailOfVersions'
    BY <1>0, <1>3 DEF publish, publishEvents, previousPublished,
      TrailOfVersions, Source
  <1>4. ASSUME NEW u \in Users, NEW v \in DOMAIN versions, NEW t \in Tokens,
               createDraftVersion(u, v, t)
        PROVE  TrailOfVersions'
    <2>1. versions \in Seq(Row) /\ Len(versions) \in Nat
      BY RowsType DEF LifecycleInv
    <2>2. Len(versions) + 1 \in DOMAIN versions'
      BY <1>4, <2>1 DEF createDraftVersion
    <2> QED
      BY <1>2, <1>4, <2>2 DEF createDraftVersion
  <1>5. ASSUME NEW u \in Users, NEW v \in DOMAIN versions,
               \/ submitForTesting(u, v) \/ returnToDraft(u, v) \/ archive(u, v)
               \/ \E c \in Contents : updateDraft(u, v, c)
        PROVE  TrailOfVersions'
    <2>1. v \in DOMAIN versions'
      BY <1>0
    <2> QED
      BY <1>2, <1>5, <2>1 DEF submitForTesting, returnToDraft, archive,
        updateDraft
  <1> QED
    BY <1>1, <1>3, <1>4, <1>5 DEF LifecycleNext, lifecycleVars, getVersion,
      activatePolicy

(* The invariant is inductive.                                             *)
LEMMA LifecycleStep ==
  ASSUME LifecycleInv, LifecycleConstants, [LifecycleNext]_lifecycleVars
  PROVE  LifecycleInv'
  <1>0. /\ LifecycleTypeOK /\ Typed /\ Moves /\ DOMAIN versions \subseteq DOMAIN versions'
        /\ DOMAIN versions = 1..Len(versions) /\ Len(versions) \in Nat
        /\ \A v \in DOMAIN versions : versions[v] \in Row
        /\ OnePublished /\ TestedIsWhatRuns /\ PublisherSawTheDefinition
        /\ TrailOfLife /\ SourcesReleased
    BY NextMoves, RowsType DEF LifecycleInv, Moves
  <1>1. LifecycleTypeOK'
    <2>1. \A u \in Users : seen'[u] = Nothing \/ seen'[u].version \in DOMAIN versions'
      BY ScreensStep DEF ScreensAreOld, Screen
    <2> QED
      BY <1>0, <2>1, ScreensStep DEF Typed, Row, LifecycleTypeOK
  <1>2. OnePublished'
    <2> SUFFICES ASSUME NEW v \in DOMAIN versions', NEW w \in DOMAIN versions',
                        versions'[v].status = "published",
                        versions'[w].status = "published"
                 PROVE  v = w
      BY DEF OnePublished
    <2>1. v \in DOMAIN versions /\ w \in DOMAIN versions
      BY <1>0 DEF Moves, Appears
    <2>2. CASE versions[v].status = "published" /\ versions[w].status = "published"
      BY <1>0, <2>1, <2>2 DEF OnePublished
    <2>3. CASE versions[v].status # "published" \/ versions[w].status # "published"
      BY <1>0, <2>1, <2>3 DEF Moves
    <2> QED
      BY <2>2, <2>3
  <1>3. TestedIsWhatRuns'
    <2> SUFFICES ASSUME NEW v \in DOMAIN versions', versions'[v].status # "draft"
                 PROVE  versions'[v].content = versions'[v].tested
      BY DEF TestedIsWhatRuns
    <2>1. v \in DOMAIN versions /\ RowMoves(v)
      BY <1>0 DEF Moves, Appears
    <2> QED
      BY <1>0, <2>1 DEF RowMoves, Untouched, Edited, Advanced, TestedIsWhatRuns
  <1>4. PublisherSawTheDefinition'
    <2> SUFFICES ASSUME NEW v \in DOMAIN versions', versions'[v].status \in Released
                 PROVE  versions'[v].reviewed = versions'[v].content
      BY DEF PublisherSawTheDefinition, Released
    <2>1. v \in DOMAIN versions /\ RowMoves(v)
      BY <1>0 DEF Moves, Appears, Released
    <2> QED
      BY <1>0, <2>1 DEF RowMoves, Untouched, Edited, Advanced, Released,
         PublisherSawTheDefinition
  <1>5. TrailOfLife'
    <2> SUFFICES ASSUME NEW v \in DOMAIN versions'
                 PROVE  /\ PublishedEvents(v)' # {} <=> versions'[v].status \in Released
                        /\ versions'[v].status # "archived" => ArchivedEvents(v)' = {}
                        /\ versions'[v].status = "archived" =>
                             \E e \in trail' : ArchivedEvents(v)' = {e}
      BY DEF TrailOfLife, PublishedEvents, ArchivedEvents
    <2>1. CASE v \notin DOMAIN versions
      BY <1>0, <2>1 DEF Moves, Appears, Released
    <2>2. CASE v \in DOMAIN versions
      <3>1. /\ RowMoves(v) /\ TrailMoves(v)
            /\ PublishedEvents(v) # {} <=> versions[v].status \in Released
            /\ versions[v].status # "archived" => ArchivedEvents(v) = {}
            /\ versions[v].status = "archived" =>
                 \E e \in trail : ArchivedEvents(v) = {e}
        BY <1>0, <2>2 DEF Moves, TrailOfLife
      <3>2. PublishedEvents(v)' # {} <=> versions'[v].status \in Released
        BY <3>1 DEF RowMoves, Untouched, Edited, Advanced, TrailMoves, Released
      <3>3. CASE versions[v].status = "published" /\ versions'[v].status = "archived"
        BY <3>1, <3>2, <3>3 DEF TrailMoves
      <3>4. CASE ~(versions[v].status = "published" /\ versions'[v].status = "archived")
        <4>1. /\ ArchivedEvents(v)' = ArchivedEvents(v)
              /\ versions'[v].status = "archived" <=> versions[v].status = "archived"
          BY <3>1, <3>4 DEF TrailMoves, RowMoves, Untouched, Edited, Advanced
        <4>2. \A e : ArchivedEvents(v)' = {e} => e \in trail'
          BY DEF ArchivedEvents
        <4> QED
          BY <3>1, <3>2, <4>1, <4>2
      <3> QED
        BY <3>3, <3>4
    <2> QED
      BY <2>1, <2>2
  <1>6. SourcesReleased'
    <2> SUFFICES ASSUME NEW v \in DOMAIN versions', v > 1
                 PROVE  /\ versions'[v].from \in DOMAIN versions'
                        /\ versions'[v].from < v
                        /\ versions'[versions'[v].from].status \in Released
                        /\ versions'[v].revision = 1 =>
                             versions'[v].content = versions'[versions'[v].from].content
      BY DEF SourcesReleased
    <2>1. CASE v \notin DOMAIN versions
      <3>1. Appears(v)
        BY <1>0, <2>1 DEF Moves
      <3>2. versions'[v].from < v
        BY <1>0, <3>1 DEF Appears
      <3> QED
        BY <1>0, <3>1, <3>2, ReleasedStays DEF Appears
    <2>2. CASE v \in DOMAIN versions
      <3> DEFINE f == versions[v].from
      <3>1. /\ RowMoves(v) /\ f \in DOMAIN versions /\ f < v
            /\ versions[f].status \in Released
            /\ versions[v].revision = 1 => versions[v].content = versions[f].content
        BY <1>0, <2>2 DEF Moves, SourcesReleased
      <3>2. versions'[v].from = f
        BY <3>1 DEF RowMoves, Untouched, KeepsIdentity
      <3>3. /\ versions'[f].status \in Released
            /\ versions'[f].content = versions[f].content
        BY <1>0, <3>1, ReleasedStays
      <3>4. versions[v].revision \in Nat \ {0}
        BY <1>0, <2>2 DEF Row
      <3>5. versions'[v].revision = 1 =>
              versions[v].revision = 1 /\ versions'[v].content = versions[v].content
        BY <3>1, <3>4 DEF RowMoves, Untouched, Edited, Advanced
      <3> HIDE DEF f
      <3> QED
        BY <1>0, <3>1, <3>2, <3>3, <3>5
    <2> QED
      BY <2>1, <2>2
  <1> QED
    BY <1>1, <1>2, <1>3, <1>4, <1>5, <1>6, ScreensStep,
      TrailStep DEF LifecycleInv

(* The first version is a draft nobody has opened.                         *)
LEMMA LifecycleStarts ==
  ASSUME LifecycleInit, LifecycleConstants
  PROVE  LifecycleInv
  <1> DEFINE row == [status |-> "draft", revision |-> 1,
                     content |-> CHOOSE c \in Contents : TRUE,
                     from |-> 0, token |-> NoToken,
                     tested |-> "none", reviewed |-> "none"]
  <1>1. row \in Row
    <2>1. (CHOOSE c \in Contents : TRUE) \in Contents
      BY DEF LifecycleConstants
    <2> QED
      BY <2>1 DEF Row, Statuses, LifecycleConstants
  <1>2. row.status = "draft"
    OBVIOUS
  <1>3. versions = <<row>>
    BY DEF LifecycleInit
  <1> HIDE DEF row
  <1>4. /\ versions \in Seq(Row) /\ Len(versions) = 1
        /\ DOMAIN versions = {1} /\ versions[1] = row
    BY <1>1, <1>3
  <1>5. /\ activePolicy \in Policies /\ label = 1 /\ trail = {}
        /\ seen = [u \in Users |-> Nothing]
    BY DEF LifecycleInit, LifecycleConstants
  <1>6. LifecycleTypeOK
    <2>1. Len(versions) \in 1..MaxVersions
      BY <1>4 DEF LifecycleConstants
    <2> QED
      BY <1>4, <1>5, <2>1 DEF LifecycleTypeOK, Row
  <1>7. OnePublished /\ TestedIsWhatRuns /\ PublisherSawTheDefinition /\ SourcesReleased
    BY <1>2, <1>4 DEF OnePublished, TestedIsWhatRuns,
      PublisherSawTheDefinition,
       SourcesReleased
  <1>8. TrailOfVersions /\ TrailOfLife
    BY <1>2, <1>4, <1>5 DEF TrailOfVersions, TrailOfLife, PublishedEvents,
       ArchivedEvents, Released
  <1> QED
    BY <1>5, <1>6, <1>7, <1>8 DEF LifecycleInv, ScreensAreOld

-----------------------------------------------------------------------------
(* Theorems                                                                *)

(* The invariant of drafts, screens and trail holds throughout.            *)
THEOREM LifecycleHolds ==
  ASSUME LifecycleConstants
  PROVE  LifecycleSpec => []LifecycleInv
  <1>1. LifecycleInit => LifecycleInv
    BY LifecycleStarts
  <1>2. LifecycleInv /\ [LifecycleNext]_lifecycleVars => LifecycleInv'
    BY LifecycleStep
  <1> QED
    BY <1>1, <1>2, PTL DEF LifecycleSpec

(* The rows of workflow_versions keep their types, for any number of users,*)
(* definitions, policies and versions.                                     *)
THEOREM LifecycleTyped ==
  ASSUME LifecycleConstants
  PROVE  LifecycleSpec => []LifecycleTypeOK
  <1>1. LifecycleInv => LifecycleTypeOK
    BY DEF LifecycleInv
  <1> QED
    BY <1>1, LifecycleHolds, PTL

(* Whoever edits, returns, submits, publishes, archives and clones in      *)
(* between: one version at most is published, it runs what was tested and  *)
(* what its publisher had opened, the trail tells each publication and     *)
(* each archival once, and a clone starts from what its source ran.        *)
THEOREM PublicationSound ==
  ASSUME LifecycleConstants
  PROVE  LifecycleSpec => []PublicationIsSound
  <1>1. ASSUME LifecycleInv
        PROVE  PublicationIsSound
    <2>1. TrailTellsPublications
      <3> SUFFICES ASSUME NEW v \in DOMAIN versions
                   PROVE  /\ (\E e \in trail : e.event = "published" /\ e.version = v)
                               <=> versions[v].status \in Released
                          /\ Cardinality(ArchivedEvents(v))
                               = (IF versions[v].status = "archived" THEN 1 ELSE 0)
        BY DEF TrailTellsPublications, Released, ArchivedEvents
      <3>1. /\ PublishedEvents(v) # {} <=> versions[v].status \in Released
            /\ versions[v].status # "archived" => ArchivedEvents(v) = {}
            /\ versions[v].status = "archived" => \E e \in trail : ArchivedEvents(v) = {e}
        BY <1>1 DEF LifecycleInv, TrailOfLife
      <3>2. (\E e \in trail : e.event = "published" /\ e.version = v)
              <=> PublishedEvents(v) # {}
        BY DEF PublishedEvents
      <3>3. Cardinality({}) = 0 /\ \A e : Cardinality({e}) = 1
        BY FS_EmptySet, FS_Singleton
      <3> QED
        BY <3>1, <3>2, <3>3
    <2>2. LineageOfDrafts
      <3> SUFFICES ASSUME NEW v \in DOMAIN versions, v > 1
                   PROVE  /\ versions[v].from < v
                          /\ versions[versions[v].from].reviewed # "none"
                          /\ versions[v].revision = 1 =>
                               versions[v].content = versions[versions[v].from].content
        BY DEF LineageOfDrafts
      <3> DEFINE f == versions[v].from
      <3>1. /\ f \in DOMAIN versions /\ f < v /\ versions[f].status \in Released
            /\ versions[v].revision = 1 => versions[v].content = versions[f].content
        BY <1>1 DEF LifecycleInv, SourcesReleased
      <3>2. versions[f].reviewed = versions[f].content
        BY <1>1, <3>1 DEF LifecycleInv, PublisherSawTheDefinition, Released
      <3>3. versions[f].content \in Contents
        BY <1>1, <3>1, RowsType DEF LifecycleInv, Row
      <3> HIDE DEF f
      <3> QED
        BY <3>1, <3>2, <3>3 DEF LifecycleConstants, f
    <2> QED
      BY <1>1, <2>1, <2>2 DEF LifecycleInv, PublicationIsSound
  <1> QED
    BY <1>1, LifecycleHolds, PTL
=============================================================================
