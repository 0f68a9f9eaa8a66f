------------------------------- MODULE Packages -------------------------------
(***************************************************************************)
(* One package of one of the formats npm, cargo, pypi, nuget and goproxy   *)
(* (internal/registry), on the node that publishes it and on a follower:   *)
(* the publish handlers, dist-tags, yanks and deletes, the cache of the    *)
(* public indexes, the activities and their ingestion, over the tables of  *)
(* internal/database/packages.go.                                          *)
(*                                                                         *)
(* A handler is the sequence of its steps, each one call of the database   *)
(* or one publication; a step that refuses ends the handler.  What one     *)
(* publisher uploads, bytes and metadata, is named after the request.      *)
(* Activities reach the follower at most once, in any order.               *)
(***************************************************************************)
EXTENDS Naturals, Sequences, FiniteSets, Bags

CONSTANTS
  Formats,        \* the formats looked at
  Versions,
  Contents,       \* what the publishers upload
  Publisher, Follower,
  Procs,          \* goroutines: requests of either node, the follower's inbox tasks
  Budgets         \* bounds: how many publications, other requests and failures

Upstream == "upstream"     \* upstreamOwner, and what the public index serves
None     == "none"
Nodes    == {Publisher, Follower}
Actors   == Nodes \union {Upstream}
AllFormats == {"npm", "cargo", "pypi", "nuget", "goproxy"}

ASSUME PackagesAssumption ==
  /\ Formats \subseteq AllFormats
  /\ Publisher # Follower /\ Nodes \intersect {Upstream, None} = {} /\ None \notin Contents
  /\ Budgets \subseteq [publish : Nat, other : Nat, fail : Nat]

VARIABLES
  fmt,      \* the format
  pkg,      \* owner of the packages row of each node, None without a row
  ver,      \* package_versions: the row of each version
  lastId,   \* ids are never reused
  files,    \* package_files: [id, name, content, by]
  tag,      \* package_tags: the version an npm dist-tag names
  proc,     \* the goroutines
  net,      \* activities on their way to the follower
  acked,    \* history: publications answered with success and not deleted since
  lost,     \* history: a handler or a publication failed
  left

tables == <<pkg, ver, lastId, files, tag>>
vars   == <<fmt, tables, proc, net, acked, lost, left>>

NoRow == [id |-> 0, content |-> None, yanked |-> FALSE, by |-> None]
Idle  == [todo |-> <<>>, node |-> Publisher, owner |-> None, version |-> None,
          content |-> None, yanked |-> FALSE, decodes |-> TRUE, row |-> NoRow, acks |-> FALSE]

\* The shape of the state, as the tables and the goroutines have it.
TypeOK ==
  /\ fmt \in Formats
  /\ pkg \in [Nodes -> Actors \union {None}]
  /\ \A n \in Nodes, v \in Versions :
       /\ ver[n][v].id \in 0..lastId[n]
       /\ ver[n][v].content \in Contents \union {Upstream, None}
       /\ ver[n][v].id # 0 => pkg[n] # None
  /\ \A n \in Nodes : \A f, g \in files[n] : f.id = g.id /\ f.name = g.name => f = g
  /\ tag \in [Nodes -> Versions \union {None}]
  /\ IsABag(net)
  /\ lost \in BOOLEAN

Init ==
  /\ fmt \in Formats
  /\ pkg = [n \in Nodes |-> None]
  /\ ver = [n \in Nodes |-> [v \in Versions |-> NoRow]]
  /\ lastId = [n \in Nodes |-> 0]
  /\ files = [n \in Nodes |-> {}]
  /\ tag = [n \in Nodes |-> None]
  /\ proc = [p \in Procs |-> Idle]
  /\ net = EmptyBag
  /\ acked = {} /\ lost = FALSE
  /\ left \in Budgets
-----------------------------------------------------------------------------
(***************************************************************************)
(* The handlers.  Storing the bytes, which comes first or before the       *)
(* version row, is module BlobLifecycle's.                                 *)
(***************************************************************************)
\* npm: handlePublish, handleDistTagPut, handleDistTagDelete
NpmPublish ==
  <<"GetOrCreatePackage", "InsertPackageVersionIfNew", "PutPackageFile", "PutPackageTag",
    "PublishVersion", "PublishTag">>
\* Mutant: the version need not exist.
NpmDistTagPutUnchecked == <<"GetPackage", "PutPackageTag", "PublishTag">>
NpmDistTagPut == <<"GetPackage", "RequireVersion", "PutPackageTag", "PublishTag">>
NpmDistTagDelete == <<"GetPackage", "DeletePackageTag", "PublishTagDelete">>

\* cargo: handlePublish, setYanked
\* Mutant: the activity goes out before the version is claimed.
CargoPublishEarly ==
  <<"GetOrCreatePackage", "PublishVersion", "InsertPackageVersionIfNew", "PutPackageFile">>
CargoPublish ==
  <<"GetOrCreatePackage", "InsertPackageVersionIfNew", "PutPackageFile", "PublishVersion">>
CargoSetYanked == <<"GetPackage", "RequireVersion", "SkipIfYanked", "WriteYank", "PublishYank">>

\* pypi: handleUpload, cacheFromUpstream
PypiUpload ==
  <<"GetOrCreatePackage", "GetPackageVersion", "PutVersionIfNil", "RefuseExistingFile",
    "PutPackageFile", "PublishVersion">>
PypiCache == <<"GetOrCreatePackage", "GetPackageVersion", "PutVersionIfNil", "PutPackageFile">>

\* nuget: handlePush, handleDelete
NugetPush ==
  <<"GetOrCreatePackage", "RefuseExisting", "PutPackageVersion", "PutPackageFile",
    "PublishVersion">>
NugetDelete == <<"GetPackage", "DeletePackageVersion">>

\* goproxy: handleUpload, cacheFromUpstream
GoUpload ==
  <<"GetOrCreatePackage", "RefuseExisting", "PutPackageVersion", "PutPackageFile",
    "PutModFile", "PublishVersion">>
GoCache == <<"GetOrCreatePackage", "PutPackageVersion", "PutPackageFile", "PutModFile">>

\* the Ingest of each format's federationAdapter
NpmIngestVersion   == <<"GetOrCreatePackage", "PutPackageVersion", "PutPackageFile">>
NpmUpsertTag       == <<"LookupOwnedPackage", "PutPackageTag">>
NpmDeleteTag       == <<"LookupOwnedPackage", "DeletePackageTag">>
CargoIngestVersion == <<"GetOrCreatePackage", "PutPackageVersion", "PutPackageFile">>
CargoApplyYank     == <<"LookupOwnedPackage", "RequireVersion", "WriteYank">>
PypiIngestFile     ==
  <<"GetOrCreatePackage", "GetPackageVersion", "PutVersionIfNil", "PutPackageFile">>
NugetIngestPackage ==
  <<"GetOrCreatePackage", "GetPackageVersion", "DecodeMeta", "PutVersionIfNil",
    "PutPackageFile">>
GoIngestModule     ==
  <<"GetOrCreatePackage", "GetPackageVersion", "PutVersionIfNil", "PutPackageFile">>

PublishHandler ==
  CASE fmt = "npm" -> NpmPublish [] fmt = "cargo" -> CargoPublish
    [] fmt = "pypi" -> PypiUpload [] fmt = "nuget" -> NugetPush [] OTHER -> GoUpload

IngestHandler ==
  CASE fmt = "npm" -> NpmIngestVersion [] fmt = "cargo" -> CargoIngestVersion
    [] fmt = "pypi" -> PypiIngestFile [] fmt = "nuget" -> NugetIngestPackage
    [] OTHER -> GoIngestModule
-----------------------------------------------------------------------------
\* What a handler finds.
Row(n, v) == ver[n][v]
FileOf(n, id, name) ==
  IF \E f \in files[n] : f.id = id /\ f.name = name
    THEN (CHOOSE f \in files[n] : f.id = id /\ f.name = name).content
    ELSE None

\* A file of the version, from the local store or, by a redirect, from the peer
\* that announced it.
Stored(n, v, name) == IF Row(n, v).id = 0 THEN None ELSE FileOf(n, Row(n, v).id, name)

\* handleDownload of pypi and resolveVersion of goproxy fill the cache; the
\* public index has every version.
Public(n)      == pkg[n] \in {None, Upstream}
PypiMiss(n, v) == Stored(n, v, "main") = None /\ Public(n)
GoMiss(n, v)   == Row(n, v).id = 0

\* The download handlers.
NpmTarball(n, v)    == Stored(n, v, "main")
CargoDownload(n, v) == Stored(n, v, "main")
PypiDownload(n, v)  == IF PypiMiss(n, v) THEN Upstream ELSE Stored(n, v, "main")
NugetDownload(n, v) == Stored(n, v, "main")
GoServeFile(n, v)   == IF GoMiss(n, v) /\ Public(n) THEN Upstream ELSE Stored(n, v, "main")

Download(n, v) ==
  CASE fmt = "npm" -> NpmTarball(n, v) [] fmt = "cargo" -> CargoDownload(n, v)
    [] fmt = "pypi" -> PypiDownload(n, v) [] fmt = "nuget" -> NugetDownload(n, v)
    [] OTHER -> GoServeFile(n, v)

\* The indexes: the versions a client is offered.  pypi lists files, the others
\* version rows, whose file may not be there yet; a project of the public index
\* is listed as upstream lists it, a module once it has versions here as here.
ListPackageVersions(n) == {v \in Versions : Row(n, v).id # 0}
NpmPackument(n)     == ListPackageVersions(n)
CargoIndex(n)       == ListPackageVersions(n)
PypiSimple(n)       == IF Public(n) THEN Versions
                       ELSE {v \in ListPackageVersions(n) : Stored(n, v, "main") # None}
NugetVersionList(n) == ListPackageVersions(n)
GoList(n)           == IF ListPackageVersions(n) = {} THEN Versions ELSE ListPackageVersions(n)

Index(n) ==
  CASE fmt = "npm" -> NpmPackument(n) [] fmt = "cargo" -> CargoIndex(n)
    [] fmt = "pypi" -> PypiSimple(n) [] fmt = "nuget" -> NugetVersionList(n)
    [] OTHER -> GoList(n)

FilePut(n, id, name, p) ==
  [files EXCEPT ![n] = {f \in @ : f.id # id \/ f.name # name} \union
     {[id |-> id, name |-> name, content |-> proc[p].content, by |-> proc[p].owner]}]

\* An upsert of package_versions keeps the row's id.
Upsert(n, v, row) ==
  LET id == IF Row(n, v).id # 0 THEN Row(n, v).id ELSE lastId[n] + 1 IN
    /\ ver' = [ver EXCEPT ![n][v] = [row EXCEPT !.id = id]]
    /\ lastId' = [lastId EXCEPT ![n] = IF id > @ THEN id ELSE @]

NewRow(p) == [id |-> 0, content |-> proc[p].content, yanked |-> FALSE, by |-> proc[p].owner]
-----------------------------------------------------------------------------
Spend(kind) == left[kind] > 0 /\ left' = [left EXCEPT ![kind] = @ - 1]

Begin(p, kind, n, owner, v, c, y, todo, acks) ==
  /\ proc[p] = Idle /\ Spend(kind)
  /\ proc' = [proc EXCEPT ![p] =
       [todo |-> todo, node |-> n, owner |-> owner, version |-> v, content |-> c,
        yanked |-> y, decodes |-> TRUE, row |-> NoRow, acks |-> acks]]
  /\ UNCHANGED <<fmt, tables, net, acked, lost>>

\* Every publisher uploads something else.
Publish(p, n, v, c) ==
  /\ \A q \in Procs : proc[q].content # c
  /\ \A a \in acked : a.content # c
  /\ Begin(p, "publish", n, n, v, c, FALSE, PublishHandler, TRUE)

DistTag(p, n, v) ==
  /\ fmt = "npm"
  /\ \E todo \in {NpmDistTagPut, NpmDistTagDelete} :
       Begin(p, "other", n, n, v, None, FALSE, todo, FALSE)

SetYanked(p, n, v, y) ==
  /\ fmt = "cargo"
  /\ Begin(p, "other", n, n, v, None, y, CargoSetYanked, FALSE)

Delete(p, n, v) ==
  /\ fmt = "nuget"
  /\ Begin(p, "other", n, n, v, None, FALSE, NugetDelete, FALSE)

CacheFromUpstream(p, n, v) ==
  \/ /\ fmt = "pypi" /\ PypiMiss(n, v)
     /\ Begin(p, "other", n, Upstream, v, Upstream, FALSE, PypiCache, FALSE)
  \/ /\ fmt = "goproxy" /\ GoMiss(n, v)
     /\ Begin(p, "other", n, Upstream, v, Upstream, FALSE, GoCache, FALSE)

\* The inbox hands an activity to Ingest.
Ingest(p) ==
  /\ proc[p] = Idle
  /\ \E a \in BagToSet(net) :
       /\ net' = net (-) SetToBag({a})
       /\ proc' = [proc EXCEPT ![p] = [Idle EXCEPT
            !.node = Follower, !.owner = Publisher, !.version = a.version,
            !.content = a.content, !.yanked = a.yanked, !.decodes = a.decodes,
            !.todo = CASE a.type = "Version"   -> IngestHandler
                       [] a.type = "Tag"       -> NpmUpsertTag
                       [] a.type = "TagDelete" -> NpmDeleteTag
                       [] OTHER                -> CargoApplyYank]]
  /\ UNCHANGED <<fmt, tables, acked, lost, left>>
-----------------------------------------------------------------------------
At(p, step) == proc[p].todo # <<>> /\ Head(proc[p].todo) = step

\* The handler goes on, with the row it has read or written.
Continue(p, row) ==
  IF Tail(proc[p].todo) # <<>>
    THEN /\ proc' = [proc EXCEPT ![p].todo = Tail(@), ![p].row = row]
         /\ UNCHANGED acked
    ELSE /\ proc' = [proc EXCEPT ![p] = Idle]
         /\ acked' = IF ~proc[p].acks THEN acked
                     ELSE acked \union {[node |-> proc[p].node, version |-> proc[p].version,
                                         content |-> proc[p].content]}

Refuse(p) == proc' = [proc EXCEPT ![p] = Idle] /\ UNCHANGED acked

Guard(p, ok, row) == IF ok THEN Continue(p, row) ELSE Refuse(p)

\* Mutant: whoever owns the package.
GetOrCreatePackageUnchecked(p) ==
  /\ At(p, "GetOrCreatePackage")
  /\ pkg' = [pkg EXCEPT ![proc[p].node] = IF @ = None THEN proc[p].owner ELSE @]
  /\ Continue(p, NoRow)
  /\ UNCHANGED <<fmt, ver, lastId, files, tag, net, lost, left>>

GetOrCreatePackage(p) ==
  /\ At(p, "GetOrCreatePackage")
  /\ pkg' = [pkg EXCEPT ![proc[p].node] = IF @ = None THEN proc[p].owner ELSE @]
  /\ Guard(p, pkg'[proc[p].node] = proc[p].owner, NoRow)
  /\ UNCHANGED <<fmt, ver, lastId, files, tag, net, lost, left>>

GetPackage(p)         == pkg[proc[p].node] # None
LookupOwnedPackage(p) == pkg[proc[p].node] = proc[p].owner

\* The lookups: GetPackage, LookupOwnedPackage, GetPackageVersion, GetPackageFile.
Read(p) ==
  LET n == proc[p].node
      row == Row(n, proc[p].version)
  IN /\ \/ At(p, "GetPackage") /\ Guard(p, GetPackage(p), NoRow)
        \/ At(p, "LookupOwnedPackage") /\ Guard(p, LookupOwnedPackage(p), NoRow)
        \/ At(p, "GetPackageVersion") /\ Continue(p, row)
        \/ At(p, "RequireVersion") /\ Guard(p, row.id # 0, row)
        \/ At(p, "RefuseExisting") /\ Guard(p, row.id = 0, NoRow)
        \/ At(p, "SkipIfYanked") /\ Guard(p, proc[p].row.yanked # proc[p].yanked, proc[p].row)
        \/ At(p, "RefuseExistingFile")
           /\ Guard(p, FileOf(n, proc[p].row.id, "main") = None, proc[p].row)
     /\ UNCHANGED <<fmt, tables, net, lost, left>>

\* RemarshalInto of the metadata, for a version that is new here.
DecodeMeta(p) ==
  /\ At(p, "DecodeMeta")
  /\ Guard(p, proc[p].row.id # 0 \/ proc[p].decodes, proc[p].row)
  /\ UNCHANGED <<fmt, tables, net, lost, left>>

\* Mutant: the insert overwrites the row it meets.
InsertOrOverwrite(p) ==
  /\ At(p, "InsertPackageVersionIfNew")
  /\ Upsert(proc[p].node, proc[p].version, NewRow(p))
  /\ Continue(p, ver'[proc[p].node][proc[p].version])
  /\ UNCHANGED <<fmt, pkg, files, tag, net, lost, left>>

InsertPackageVersionIfNew(p) ==
  LET n == proc[p].node  v == proc[p].version IN
  /\ At(p, "InsertPackageVersionIfNew")
  /\ IF Row(n, v).id = 0 THEN Upsert(n, v, NewRow(p)) ELSE UNCHANGED <<ver, lastId>>
  /\ Guard(p, Row(n, v).id = 0, ver'[n][v])
  /\ UNCHANGED <<fmt, pkg, files, tag, net, lost, left>>

\* putPackageVersion, also when the handler found no row before.
PutPackageVersion(p) ==
  LET n == proc[p].node  v == proc[p].version IN
  /\ \/ At(p, "PutPackageVersion") /\ Upsert(n, v, NewRow(p)) /\ Continue(p, ver'[n][v])
     \/ /\ At(p, "PutVersionIfNil")
        /\ IF proc[p].row.id = 0
             THEN Upsert(n, v, NewRow(p)) /\ Continue(p, ver'[n][v])
             ELSE UNCHANGED <<ver, lastId>> /\ Continue(p, proc[p].row)
     \/ /\ At(p, "WriteYank")
        /\ Upsert(n, v, [proc[p].row EXCEPT !.yanked = proc[p].yanked])
        /\ Continue(p, NoRow)
  /\ UNCHANGED <<fmt, pkg, files, tag, net, lost, left>>

PutPackageFile(p) ==
  LET n == proc[p].node IN
  /\ \/ At(p, "PutPackageFile") /\ files' = FilePut(n, proc[p].row.id, "main", p)
     \/ At(p, "PutModFile") /\ files' = FilePut(n, proc[p].row.id, "mod", p)
  /\ Continue(p, proc[p].row)
  /\ UNCHANGED <<fmt, pkg, ver, lastId, tag, net, lost, left>>

PutPackageTag(p) ==
  /\ At(p, "PutPackageTag")
  /\ tag' = [tag EXCEPT ![proc[p].node] = proc[p].version]
  /\ Continue(p, proc[p].row)
  /\ UNCHANGED <<fmt, pkg, ver, lastId, files, net, lost, left>>

DeletePackageTag(p) ==
  /\ At(p, "DeletePackageTag")
  /\ tag' = [tag EXCEPT ![proc[p].node] = None]
  /\ Continue(p, NoRow)
  /\ UNCHANGED <<fmt, pkg, ver, lastId, files, net, lost, left>>

\* The row, its tags and its files.
DeletePackageVersion(p) ==
  LET n == proc[p].node  v == proc[p].version IN
  /\ At(p, "DeletePackageVersion")
  /\ ver' = [ver EXCEPT ![n][v] = NoRow]
  /\ files' = [files EXCEPT ![n] = {f \in @ : f.id # Row(n, v).id}]
  /\ tag' = [tag EXCEPT ![n] = IF @ = v THEN None ELSE @]
  /\ acked' = {a \in acked : a.node # n \/ a.version # v}
  /\ proc' = [proc EXCEPT ![p] = Idle]
  /\ UNCHANGED <<fmt, pkg, lastId, net, lost, left>>

\* What the publishers send.  nuget's metadata is a []byte, which JSON turns into
\* a base64 string; goproxy sends the .zip and not the .mod.
Object(p, type, decodes) ==
  [type |-> type, version |-> proc[p].version, content |-> proc[p].content,
   yanked |-> proc[p].yanked, decodes |-> decodes]

NpmPublishVersion(p)   == Object(p, "Version", TRUE)
NpmPublishTag(p, type) == Object(p, type, TRUE)
CargoPublishVersion(p) == Object(p, "Version", TRUE)
CargoPublishYank(p)    == Object(p, "Yank", TRUE)
PypiPublishFile(p)     == Object(p, "Version", TRUE)
NugetPublishPackage(p) == Object(p, "Version", FALSE)
GoPublishModule(p)     == Object(p, "Version", TRUE)

PublishedVersion(p) ==
  CASE fmt = "npm" -> NpmPublishVersion(p) [] fmt = "cargo" -> CargoPublishVersion(p)
    [] fmt = "pypi" -> PypiPublishFile(p) [] fmt = "nuget" -> NugetPublishPackage(p)
    [] OTHER -> GoPublishModule(p)

\* A failure is logged and loses the activity.  The follower's own activities go
\* to others.
Send(p, a) ==
  /\ \/ /\ net' = IF proc[p].node = Publisher THEN net (+) SetToBag({a}) ELSE net
        /\ UNCHANGED <<lost, left>>
     \/ Spend("fail") /\ lost' = TRUE /\ UNCHANGED net
  /\ Continue(p, proc[p].row)
  /\ UNCHANGED <<fmt, tables>>

PublishStep(p) ==
  \/ At(p, "PublishVersion") /\ Send(p, PublishedVersion(p))
  \/ At(p, "PublishTag") /\ Send(p, NpmPublishTag(p, "Tag"))
  \/ At(p, "PublishTagDelete") /\ Send(p, NpmPublishTag(p, "TagDelete"))
  \/ At(p, "PublishYank") /\ Send(p, CargoPublishYank(p))

\* A statement fails, or the process crashes, in the middle of a handler.
Fail(p) ==
  /\ proc[p] # Idle /\ Spend("fail")
  /\ Refuse(p)
  /\ lost' = TRUE
  /\ UNCHANGED <<fmt, tables, net>>
-----------------------------------------------------------------------------
Request(p) ==
  \E n \in Nodes, v \in Versions :
    \/ \E c \in Contents : Publish(p, n, v, c)
    \/ DistTag(p, n, v)
    \/ \E y \in BOOLEAN : SetYanked(p, n, v, y)
    \/ Delete(p, n, v)
    \/ CacheFromUpstream(p, n, v)

DatabaseStep(p) ==
  \/ GetOrCreatePackage(p) \/ Read(p) \/ DecodeMeta(p)
  \/ InsertPackageVersionIfNew(p) \/ PutPackageVersion(p) \/ PutPackageFile(p)
  \/ PutPackageTag(p) \/ DeletePackageTag(p) \/ DeletePackageVersion(p)

Next == \E p \in Procs : Request(p) \/ Ingest(p) \/ DatabaseStep(p) \/ PublishStep(p) \/ Fail(p)

Spec == Init /\ [][Next]_vars
-----------------------------------------------------------------------------
(***************************************************************************)
(* npm and cargo: a publication answered with success is what a client of  *)
(* that node downloads, and is never overwritten by another publication of *)
(* the same version, however the two and the ingestion of a peer's version *)
(* of that name interleave.  The other formats check first and write       *)
(* later, and two publications may both succeed.                           *)
(***************************************************************************)
AckedImmutable ==
  fmt \in {"npm", "cargo"} => \A a \in acked : Download(a.node, a.version) = a.content

(***************************************************************************)
(* docs/federation.md, "A peer can only act on packages it owns": whatever *)
(* a node stores of a package was put there on behalf of the package's     *)
(* owner, be it the node itself, the peer or the public index, even when   *)
(* the first of each arrive together.                                      *)
(***************************************************************************)
OwnedContent ==
  \A n \in Nodes :
    /\ \A v \in Versions : Row(n, v).id # 0 => Row(n, v).by = pkg[n]
    /\ \A f \in files[n] : f.by = pkg[n]

Quiet == net = EmptyBag /\ \A p \in Procs : proc[p] = Idle

\* Publications of v the publisher has answered with success.
Accepted(v) == {a \in acked : a.node = Publisher /\ a.version = v}

(***************************************************************************)
(* When everything published has been ingested and nothing has failed, the *)
(* indexes of both list the version and a download from the follower gives *)
(* what the publisher serves: also when two publications of the version    *)
(* raced and one was refused.  Exempt are packages the follower knows from *)
(* elsewhere, versions of which the formats that check first and write     *)
(* later accepted two publications, and nuget, whose activities the        *)
(* follower cannot decode.                                                 *)
(***************************************************************************)
MirrorAgrees ==
  Quiet /\ ~lost /\ fmt # "nuget" /\ pkg[Publisher] = Publisher /\ pkg[Follower] = Publisher =>
    \A v \in Versions :
      Cardinality(Accepted(v)) = 1 =>
        /\ v \in Index(Publisher) \intersect Index(Follower)
        /\ Download(Follower, v) = Download(Publisher, v)

(***************************************************************************)
(* npm: "npm install" of a dist-tag finds a version.  On the publisher a   *)
(* dist-tag always names a version that exists; on the follower, where a   *)
(* tag may be ingested before its version, it does once all is ingested.   *)
(***************************************************************************)
TagsResolve ==
  \A n \in Nodes :
    tag[n] # None /\ (n = Publisher \/ (Quiet /\ ~lost)) => Row(n, tag[n]).id # 0
=============================================================================
