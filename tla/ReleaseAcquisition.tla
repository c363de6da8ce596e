--------------------------- MODULE ReleaseAcquisition ---------------------------
(***************************************************************************)
(* How a Runner fetches a signed release into its local cache:             *)
(* LocalRunnerReleaseAcquisitionService.acquire, the FileReleaseCacheStore *)
(* it works on, the resume rules of runner-acquisition and the signature   *)
(* and checksum rules of runner-release.  Several processes of one host    *)
(* (a CLI command and the update controller) may acquire the same release; *)
(* a process may crash at every write; the source may replace the          *)
(* published object, break a response off, or answer it badly.             *)
(*                                                                         *)
(* One byte stands for one chunk.  A byte is the number of the remote      *)
(* object it was read from; object 1 is the one the manifest signs.  The   *)
(* source is assumed to give two objects two strong entity tags.           *)
(***************************************************************************)
EXTENDS Integers, Sequences, FiniteSets

CONSTANTS
  Processes,   \* the processes of the host that call acquire
  Objects,     \* the objects the source may serve under the artifact's URL
  SizeBytes    \* the signed size of the artifact, in chunks

\* Object 1 is the signed one; 0 stands for no entity tag.
ASSUME AcquisitionAssumption ==
  /\ {"free", "stale"} \cap Processes = {}
  /\ Objects \subseteq Nat \ {0} /\ 1 \in Objects
  /\ SizeBytes \in Nat

VARIABLES
  remote,      \* the object the source serves now
  lock,        \* the lock directory of the release: free, a process, stale
  partial,     \* the release's directory under partial/
  verified,    \* the release's directory under verified/
  proc,        \* per process, the acquire call it is in
  outcome      \* how the call that ended in the last step ended, or none

acquisitionVars == <<remote, lock, partial, verified, proc, outcome>>

NoEtag == 0

(* The signed bytes.                                                       *)
Signed == [i \in 1 .. SizeBytes |-> 1]

-----------------------------------------------------------------------------
(* Signatures and checksums                                                *)

(* Manifest and signature as the source may serve them: right, or wrong in *)
(* one of the ways verification tells apart.                               *)
Metadata ==
  LET good == [parses |-> TRUE, signingKeyId |-> "trusted",
               keyId |-> "trusted", digestMatches |-> TRUE, signed |-> TRUE,
               reference |-> TRUE, target |-> TRUE, tooLarge |-> FALSE] IN
  {good, [good EXCEPT !.parses = FALSE], [good EXCEPT !.keyId = "other"],
   [good EXCEPT !.keyId = "other", !.signingKeyId = "other"],
   [good EXCEPT !.digestMatches = FALSE], [good EXCEPT !.signed = FALSE],
   [good EXCEPT !.reference = FALSE], [good EXCEPT !.target = FALSE],
   [good EXCEPT !.tooLarge = TRUE]}

verifyReleaseManifest(m) ==
  /\ m.parses
  /\ m.signingKeyId = m.keyId
  /\ m.keyId = "trusted"
  /\ m.digestMatches
  /\ m.signed

(* The checks of acquire on the metadata before it touches the cache.      *)
MetadataAccepted(m) ==
  /\ verifyReleaseManifest(m)
  /\ m.reference
  /\ m.target
  /\ ~m.tooLarge

(* sha256 of a file against the signed descriptor.                         *)
DigestMatches(bytes) == bytes = Signed

(* verifyReleaseFiles on the files of a cache directory.                   *)
verifyReleaseFiles(dir) == dir.proof /\ DigestMatches(dir.bytes)

-----------------------------------------------------------------------------
(* The cache directories                                                   *)

NoPartial ==
  [dir |-> FALSE, proof |-> FALSE, file |-> FALSE, state |-> FALSE,
   named |-> FALSE, record |-> FALSE, bytes |-> <<>>, etag |-> NoEtag,
   ranges |-> FALSE, counted |-> 0]

NoVerified == [dir |-> FALSE, proof |-> FALSE, record |-> FALSE, bytes |-> <<>>]

NoCall ==
  [pc |-> "idle", offset |-> 0, etag |-> NoEtag, serving |-> 0, got |-> 0]

(* A crash, or a failed unlink, in the middle of the recursive removal     *)
(* leaves some of the directory's files.                                   *)
HalfRemoved ==
  {[partial EXCEPT !.proof = @ /\ "proof" \notin gone,
                   !.file = @ /\ "file" \notin gone,
                   !.state = @ /\ "state" \notin gone,
                   !.named = @ /\ "named" \notin gone,
                   !.record = @ /\ "record" \notin gone,
                   !.bytes = IF {"file", "named"} \subseteq gone
                             THEN <<>> ELSE @]
     : gone \in SUBSET {"proof", "file", "state", "named", "record"}}

findVerified ==
  IF ~verified.dir THEN "missing"
  ELSE IF verified.record /\ verifyReleaseFiles(verified) THEN "found"
  ELSE "invalid"

(* observePartial: a directory without state file or artifact is invalid.  *)
observePartial ==
  IF ~partial.dir THEN "missing"
  ELSE IF partial.state /\ partial.file THEN "partial"
  ELSE "invalid"

decidePartialDownload ==
  IF observePartial = "missing" THEN "start_new"
  ELSE IF partial.counted # Len(partial.bytes) THEN "discard_restart"
  ELSE IF Len(partial.bytes) = SizeBytes THEN "verify_complete"
  ELSE IF Len(partial.bytes) = 0 THEN "start_new"
  ELSE IF partial.ranges /\ partial.etag # NoEtag THEN "resume"
  ELSE "discard_restart"

-----------------------------------------------------------------------------
(* acquire                                                                 *)

CallAt(p, pc) == proc[p].pc = pc

CallGoto(p, pc) == proc' = [proc EXCEPT ![p].pc = pc]

(* The call ends; the finally block gives the lock back.                   *)
End(p, how) ==
  /\ proc' = [proc EXCEPT ![p] = NoCall]
  /\ outcome' = how
  /\ lock' = IF lock = p THEN "free" ELSE lock

(* The metadata is fetched and verified.                                   *)
FetchMetadata(p, m) ==
  /\ CallAt(p, "idle")
  /\ IF MetadataAccepted(m)
     THEN /\ CallGoto(p, "find")
          /\ outcome' = "none"
          /\ UNCHANGED lock
     ELSE End(p, "refused")
  /\ UNCHANGED <<remote, partial, verified>>

Find(p) ==
  /\ CallAt(p, "find")
  /\ IF findVerified = "missing"
     THEN CallGoto(p, "lock") /\ UNCHANGED lock /\ outcome' = "none"
     ELSE End(p, findVerified)
  /\ UNCHANGED <<remote, partial, verified>>

(* FileReleaseCacheStore.acquire: no retry.                                *)
AcquireLock(p) ==
  /\ CallAt(p, "lock")
  /\ IF lock = "free"
     THEN /\ lock' = p
          /\ CallGoto(p, "afterLock")
          /\ outcome' = "none"
     ELSE End(p, "conflict")
  /\ UNCHANGED <<remote, partial, verified>>

FindAfterLock(p) ==
  /\ CallAt(p, "afterLock")
  /\ IF findVerified = "missing"
     THEN CallGoto(p, "observe") /\ UNCHANGED lock /\ outcome' = "none"
     ELSE End(p, findVerified)
  /\ UNCHANGED <<remote, partial, verified>>

Decide(p) ==
  CASE decidePartialDownload = "verify_complete" -> CallGoto(p, "verify")
    [] decidePartialDownload = "resume" ->
         proc' = [proc EXCEPT ![p] =
           [NoCall EXCEPT !.pc = "request", !.etag = partial.etag,
                        !.offset = Len(partial.bytes)]]
    [] OTHER -> CallGoto(p, "remove")

(* acquireArtifact looks at what an earlier call left and decides; before  *)
(* it uses the leftover, replacePartialProof writes the fetched proof.     *)
Observe(p) ==
  /\ CallAt(p, "observe")
  /\ IF observePartial = "invalid"
     THEN CallGoto(p, "remove") /\ UNCHANGED partial
     ELSE /\ Decide(p)
          /\ partial' = IF decidePartialDownload \in {"resume", "verify_complete"}
                        THEN [partial EXCEPT !.proof = TRUE] ELSE partial
  /\ UNCHANGED <<remote, lock, verified>> /\ outcome' = "none"

(* removePartial, before a download from the start.                        *)
RemovePartial(p) ==
  /\ CallAt(p, "remove")
  /\ partial' = NoPartial
  /\ CallGoto(p, "mkdir")
  /\ UNCHANGED <<remote, lock, verified>> /\ outcome' = "none"

(* initializePartial: directory, proof, empty artifact, state file.        *)
Initialize(p) ==
  /\ \/ /\ CallAt(p, "mkdir")
        /\ IF partial.dir
           THEN End(p, "leftover") /\ UNCHANGED partial
           ELSE /\ partial' = [partial EXCEPT !.dir = TRUE]
                /\ CallGoto(p, "proof")
                /\ UNCHANGED lock /\ outcome' = "none"
     \/ /\ CallAt(p, "proof")
        /\ partial' = [partial EXCEPT !.proof = TRUE]
        /\ CallGoto(p, "artifact")
        /\ UNCHANGED lock /\ outcome' = "none"
     \/ /\ CallAt(p, "artifact")
        /\ partial' = [partial EXCEPT !.file = TRUE]
        /\ CallGoto(p, "state")
        /\ UNCHANGED lock /\ outcome' = "none"
     \/ /\ CallAt(p, "state")
        /\ partial' = [partial EXCEPT !.state = TRUE]
        /\ CallGoto(p, "request")
        /\ UNCHANGED lock /\ outcome' = "none"
  /\ UNCHANGED <<remote, verified>>

-----------------------------------------------------------------------------
(* downloadArtifact                                                        *)

(* A full response: its tag and range support go into the state file.      *)
FullResponse(p, tagged, ranges) ==
  /\ CallAt(p, "request") /\ proc[p].etag = NoEtag
  /\ partial' = [partial EXCEPT !.etag = IF tagged THEN remote ELSE NoEtag,
                                !.ranges = ranges, !.bytes = <<>>]
  /\ proc' = [proc EXCEPT ![p].pc = "body", ![p].serving = remote]
  /\ UNCHANGED <<remote, lock, verified>> /\ outcome' = "none"

(* Mutant: any partial content is accepted.                                *)
AnyPartialContent(p) ==
  /\ CallAt(p, "request") /\ proc[p].etag # NoEtag
  /\ proc' = [proc EXCEPT ![p].pc = "body", ![p].serving = remote,
                          ![p].got = proc[p].offset]
  /\ UNCHANGED <<remote, lock, partial, verified>> /\ outcome' = "none"

(* assertResumeResponse accepts: the object is still the recorded one, and *)
(* the range is the missing tail.                                          *)
ResumeResponse(p) ==
  /\ CallAt(p, "request") /\ proc[p].etag # NoEtag
  /\ remote = proc[p].etag
  /\ proc' = [proc EXCEPT ![p].pc = "body", ![p].serving = remote,
                          ![p].got = proc[p].offset]
  /\ UNCHANGED <<remote, lock, partial, verified>> /\ outcome' = "none"

(* A changed object or a wrong range: the call starts again from zero.     *)
ResumeRefused(p) ==
  /\ CallAt(p, "request") /\ proc[p].etag # NoEtag
  /\ proc' = [proc EXCEPT ![p] = [NoCall EXCEPT !.pc = "remove"]]
  /\ UNCHANGED <<remote, lock, partial, verified>> /\ outcome' = "none"

(* onChunk writes behind the bytes already counted.                        *)
Chunk(p) ==
  /\ CallAt(p, "body") /\ proc[p].got < SizeBytes
  /\ partial' = [partial EXCEPT !.bytes =
       Append(SubSeq(@, 1, proc[p].got), proc[p].serving)]
  /\ proc' = [proc EXCEPT ![p].got = @ + 1]
  /\ UNCHANGED <<remote, lock, verified>> /\ outcome' = "none"

(* A timeout, a broken or bad response, or one byte too many.  A write in  *)
(* flight may reach the file uncounted; the final state write may fail.    *)
RequestFails(p, late, saved) ==
  /\ CallAt(p, "request") \/ CallAt(p, "body")
  /\ late => CallAt(p, "body") /\ proc[p].got < SizeBytes
  /\ LET got == IF CallAt(p, "request") THEN proc[p].offset ELSE proc[p].got IN
     partial' = [partial EXCEPT
       !.counted = IF saved THEN got ELSE @,
       !.bytes = IF late THEN Append(SubSeq(@, 1, got), proc[p].serving) ELSE @]
  /\ End(p, "failed")
  /\ UNCHANGED <<remote, verified>>

(* The body is complete: the count is saved and the digest compared.       *)
BodyEnds(p) ==
  /\ CallAt(p, "body") /\ proc[p].got = SizeBytes
  /\ IF DigestMatches(partial.bytes)
     THEN /\ partial' = [partial EXCEPT !.counted = SizeBytes]
          /\ CallGoto(p, "verify")
          /\ UNCHANGED lock /\ outcome' = "none"
     ELSE /\ partial' = NoPartial
          /\ End(p, "checksum")
  /\ UNCHANGED <<remote, verified>>

-----------------------------------------------------------------------------
(* verifyAndPromote                                                        *)

Verify(p) ==
  /\ CallAt(p, "verify")
  /\ IF DigestMatches(partial.bytes)
     THEN /\ CallGoto(p, "rename")
          /\ UNCHANGED <<lock, partial>> /\ outcome' = "none"
     ELSE /\ partial' = NoPartial
          /\ End(p, "checksum")
  /\ UNCHANGED <<remote, verified>>

(* promote: unless the release was published meanwhile, the artifact takes *)
(* its signed name.                                                        *)
RenameArtifact(p) ==
  /\ CallAt(p, "rename")
  /\ IF findVerified = "missing"
     THEN /\ partial' = [partial EXCEPT !.file = FALSE, !.named = TRUE]
          /\ CallGoto(p, "record")
          /\ UNCHANGED lock /\ outcome' = "none"
     ELSE /\ partial' = NoPartial
          /\ End(p, findVerified)
  /\ UNCHANGED <<remote, verified>>

WriteRecord(p) ==
  /\ CallAt(p, "record")
  /\ partial' = [partial EXCEPT !.record = TRUE]
  /\ CallGoto(p, "check")
  /\ UNCHANGED <<remote, lock, verified>> /\ outcome' = "none"

(* The files are verified once more from disk, the state file removed.     *)
CheckFiles(p) ==
  /\ CallAt(p, "check")
  /\ IF partial.named /\ verifyReleaseFiles(partial)
     THEN /\ partial' = [partial EXCEPT !.state = FALSE]
          /\ CallGoto(p, "publish")
          /\ UNCHANGED lock /\ outcome' = "none"
     ELSE End(p, "checksum") /\ UNCHANGED partial
  /\ UNCHANGED <<remote, verified>>

(* The directory is renamed into verified/.                                *)
Publish(p) ==
  /\ CallAt(p, "publish")
  /\ verified' = [dir |-> TRUE, proof |-> partial.proof,
                  record |-> partial.record, bytes |-> partial.bytes]
  /\ partial' = NoPartial
  /\ End(p, "acquired")
  /\ UNCHANGED remote

(* The rename fails and no other process published the release.            *)
PublishFails(p) ==
  /\ CallAt(p, "publish")
  /\ End(p, "promotion_failed")
  /\ UNCHANGED <<remote, partial, verified>>

-----------------------------------------------------------------------------
(* The environment                                                         *)

(* The process dies; its lock directory stays until it is stale.           *)
CallCrashes(p) ==
  /\ ~CallAt(p, "idle")
  /\ partial' \in {partial} \cup
       (IF CallAt(p, "remove") THEN HalfRemoved ELSE {})
  /\ proc' = [proc EXCEPT ![p] = NoCall]
  /\ outcome' = "none"
  /\ lock' = IF lock = p THEN "stale" ELSE lock
  /\ UNCHANGED <<remote, verified>>

LockExpires ==
  /\ lock = "stale"
  /\ lock' = "free"
  /\ UNCHANGED <<remote, partial, verified, proc>> /\ outcome' = "none"

Republish(o) ==
  /\ remote # o
  /\ remote' = o
  /\ UNCHANGED <<lock, partial, verified, proc>> /\ outcome' = "none"

AcquisitionInit ==
  /\ remote = 1
  /\ lock = "free"
  /\ partial = NoPartial
  /\ verified = NoVerified
  /\ proc = [p \in Processes |-> NoCall]
  /\ outcome = "none"

AcquisitionNext ==
  \/ LockExpires
  \/ \E o \in Objects : Republish(o)
  \/ \E p \in Processes :
       \/ \E m \in Metadata : FetchMetadata(p, m)
       \/ Find(p)
       \/ AcquireLock(p)
       \/ FindAfterLock(p)
       \/ Observe(p)
       \/ RemovePartial(p)
       \/ Initialize(p)
       \/ \E tagged, ranges \in BOOLEAN : FullResponse(p, tagged, ranges)
       \/ ResumeResponse(p)
       \/ ResumeRefused(p)
       \/ Chunk(p)
       \/ \E late, saved \in BOOLEAN : RequestFails(p, late, saved)
       \/ BodyEnds(p)
       \/ Verify(p)
       \/ RenameArtifact(p)
       \/ WriteRecord(p)
       \/ CheckFiles(p)
       \/ Publish(p)
       \/ PublishFails(p)
       \/ CallCrashes(p)

AcquisitionSpec == AcquisitionInit /\ [][AcquisitionNext]_acquisitionVars

-----------------------------------------------------------------------------
(* Properties                                                              *)

AcquisitionTypeOK ==
  /\ remote \in Objects
  /\ lock \in {"free", "stale"} \cup Processes
  /\ Len(partial.bytes) <= SizeBytes
  /\ partial.counted \in 0 .. SizeBytes
  /\ partial.etag \in Objects \cup {NoEtag}
  /\ Len(verified.bytes) <= SizeBytes
  /\ outcome \in {"none", "refused", "found", "invalid", "conflict", "leftover",
                  "failed", "checksum", "acquired", "promotion_failed"}
  /\ \A p \in Processes :
       /\ proc[p].got \in 0 .. SizeBytes
       /\ proc[p].offset \in 0 .. SizeBytes

(* Whatever crashed or was replaced on the way, a release directory that   *)
(* findVerified can see holds the signed bytes, their proof and their      *)
(* record (promote renames a finished directory only).                     *)
CachedReleaseIsWhole ==
  verified.dir =>
    /\ verified.bytes = Signed
    /\ verified.proof
    /\ verified.record

(* A partial artifact is never spliced from two objects: an interrupted    *)
(* download is resumed only behind bytes of the same remote object (the    *)
(* If-Range tag of assertResumeResponse and the byte count of              *)
(* decidePartialDownload).                                                 *)
NeverSpliced ==
  Cardinality({partial.bytes[i] : i \in DOMAIN partial.bytes}) <= 1

(* Nothing an earlier call left, by a crash at any write or by a           *)
(* failed request, makes the next acquire fail on it (the catch around     *)
(* observePartial and the removal before initializePartial).               *)
LeftoverNeverBlocks ==
  outcome \notin {"leftover", "invalid"}

(* A release that is already cached is not downloaded again: the second    *)
(* look under the lock sees what another process published in between.     *)
CachedIsNotFetched ==
  verified.dir => \A p \in Processes : proc[p].pc \notin {"request", "body"}

(* A call that reports a checksum failure leaves no bytes behind that the  *)
(* next call would take for a complete artifact and fail on again          *)
(* (removePartial in downloadArtifact and verifyAndPromote).               *)
ChecksumFailureIsNotSticky ==
  outcome = "checksum" => ~partial.dir

(* The cache of acquire as a whole: what it holds is whole and of one      *)
(* object, and neither a crash nor a failure leaves it in the way.         *)
CacheIsSound ==
  /\ CachedReleaseIsWhole
  /\ NeverSpliced
  /\ LeftoverNeverBlocks
  /\ CachedIsNotFetched
  /\ ChecksumFailureIsNotSticky
=============================================================================
