------------------------------- MODULE Services -------------------------------
(***************************************************************************)
(* Four services of a node that share no state here: the upload sessions,  *)
(* the observers of pushes, the pull-through and the retention sweep.  The *)
(* first is extended and the others instantiated; variables that share a   *)
(* name are renamed.                                                       *)
(***************************************************************************)
EXTENDS UploadSession

CONSTANTS Images, Layers, Children, Targets, QueueSize, Pushers, None, Setups,
          Pulls, NoDigest, Digests, Bases, Threshold, Scenarios,
          Manifests, TagNames, Parts, Subject, Clients, Policies

VARIABLES
  local, localTag, push, queue, worker, session, copies, dropped, scanQueue, scan,
  pushHistory, pushBudget,
  config, locked, remote, breaker, token, challenge, flights, pull, repo, manifests, tag, blob,
  pullHistory, pullBudget,
  kept, old, tagList, aged, repush, sweep, tomb, published, reused, crossed, cut, named, withdrawn,
  policy

O == INSTANCE ManifestObservers WITH budget <- pushBudget, history <- pushHistory, remote <- copies
P == INSTANCE PullThrough WITH budget <- pullBudget, history <- pullHistory
R == INSTANCE Retention WITH rows <- kept, tags <- tagList, push <- repush, gc <- sweep
-----------------------------------------------------------------------------
\* See PullThrough: a pull waits only for one that is at work on the token, the
\* challenge or the index.
NobodyStranded == P!NobodyStranded

\* See PullThrough: without a fault no pull of what upstream gives fails.
FaultlessServed == P!FaultlessServed

\* See PullThrough: IsRepoPrivate marks a repository that needs credentials
\* before its manifests can be read.
PrivateBeforeReadable == P!PrivateBeforeReadable

\* See ManifestObservers: replicate leaves no manifest at a target without what
\* it refers to.
TargetComplete == O!TargetComplete

\* See ManifestObservers: the tag at the targets follows the tag here.
TagFollows == O!TagFollows

\* See ManifestObservers: the scanner attaches one report to an image.
OneReport == O!OneReport

\* See Retention: retentionSweep and PruneUntaggedManifests leave no tag and no
\* index without its manifests.
NothingDangles == R!NothingDangles

\* See Retention: applyRetentionToPackage keeps keepLastN unpinned tags.
LastNKept == R!LastNKept

\* See Retention: what is published of the owner's manifests is what is stored.
PublishedAsStored == R!PublishedAsStored
=============================================================================
