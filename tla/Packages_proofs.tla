--------------------------- MODULE Packages_proofs ---------------------------
(***************************************************************************)
(* Proofs about one package on the node that publishes it and on its       *)
(* follower, for any versions and contents, any number of requests and     *)
(* ingestions at the same time, and any failures in the middle of them.    *)
(***************************************************************************)
EXTENDS Packages, FiniteSetTheorems, TLAPS

(***************************************************************************)
(* What the argument needs of a handler is the order of its steps.         *)
(***************************************************************************)
Steps ==
  {"GetOrCreatePackage", "LookupOwnedPackage", "GetPackage", "GetPackageVersion",
   "RequireVersion", "RefuseExisting", "SkipIfYanked", "RefuseExistingFile", "DecodeMeta",
   "InsertPackageVersionIfNew", "PutPackageVersion", "PutVersionIfNil", "WriteYank",
   "PutPackageFile", "PutModFile", "PutPackageTag", "DeletePackageTag",
   "DeletePackageVersion", "PublishVersion", "PublishTag", "PublishTagDelete", "PublishYank"}

\* Every step of Y has a step of X before it.
Follows(s, X, Y) == \A i \in 1..Len(s) : s[i] \in Y => \E j \in 1..(i - 1) : s[j] \in X

\* No step of Z at all, and none after a step of X.
Free(s, Z)         == \A i \in 1..Len(s) : s[i] \notin Z
NoneAfter(s, X, Z) == \A i, j \in 1..Len(s) : i < j /\ s[i] \in X => s[j] \notin Z

\* The steps that compare the owner, and those that write on behalf of one.
OwnerChecks == {"GetOrCreatePackage", "LookupOwnedPackage"}
Writes ==
  {"InsertPackageVersionIfNew", "PutPackageVersion", "PutVersionIfNil", "PutPackageFile",
   "PutModFile"}

\* The steps after which a handler may have no version row in its hands.
Clears ==
  {"GetOrCreatePackage", "LookupOwnedPackage", "GetPackage", "GetPackageVersion",
   "RefuseExisting", "DeletePackageTag"}

Ordered(s) ==
  /\ s \in Seq(Steps) /\ s # <<>>
  /\ Follows(s, OwnerChecks, Writes)
  /\ Follows(s, {"RequireVersion"}, {"WriteYank"})
  /\ NoneAfter(s, {"RequireVersion"}, Clears)
  /\ NoneAfter(s, {"WriteYank"}, {"WriteYank"})

\* The rest of a sequence, index by index.
LEMMA TailOf ==
  ASSUME NEW s \in Seq(Steps), s # <<>>
  PROVE  /\ Tail(s) \in Seq(Steps) /\ Len(s) \in Nat \ {0} /\ Len(Tail(s)) = Len(s) - 1
         /\ Head(s) = s[1] /\ \A i \in 1..Len(s) - 1 : Tail(s)[i] = s[i + 1]
OBVIOUS

LEMMA LastStep ==
  ASSUME NEW s \in Seq(Steps), s # <<>>, Tail(s) = <<>>
  PROVE  Len(s) = 1
<1>1. Tail(s) \in Seq(Steps) /\ Len(s) \in Nat \ {0} /\ Len(Tail(s)) = Len(s) - 1
  BY TailOf
<1>2. Len(Tail(s)) = Len(<<>>)
  BY Zenon
<1>3. Len(<<>>) = 0
  OBVIOUS
<1>4. Len(Tail(s)) = 0
  BY ONLY <1>2, <1>3, Zenon
<1>5. \A n \in Nat : \A m : m = n - 1 /\ m = 0 => n = 1
  OBVIOUS
<1> QED BY ONLY <1>1, <1>4, <1>5, Zenon

(***************************************************************************)
(* A handler that takes a step keeps the order of the others: a step that  *)
(* had to come first either was this one or is still to come.              *)
(***************************************************************************)
LEMMA FollowsTail ==
  ASSUME NEW s \in Seq(Steps), s # <<>>, NEW X, NEW Y, Follows(s, X, Y)
  PROVE  /\ Head(s) \notin Y
         /\ Head(s) \notin X => Follows(Tail(s), X, Y)
<1> DEFINE t == Tail(s)
<1>1. /\ Len(s) \in Nat \ {0} /\ Len(t) = Len(s) - 1
      /\ Head(s) = s[1] /\ \A i \in 1..Len(s) - 1 : t[i] = s[i + 1]
  BY TailOf
<1>2. Head(s) \notin Y
  BY <1>1 DEF Follows
<1>3. ASSUME Head(s) \notin X, NEW i \in 1..Len(t), t[i] \in Y
      PROVE  \E j \in 1..(i - 1) : t[j] \in X
  <2>1. i + 1 \in 1..Len(s) /\ s[i + 1] \in Y
    BY <1>1, <1>3
  <2>2. PICK j \in 1..i : s[j] \in X
    BY <2>1 DEF Follows
  <2>3. j # 1 /\ j - 1 \in 1..(i - 1) /\ t[j - 1] = s[j]
    BY <1>1, <1>3, <2>1, <2>2
  <2> QED BY <2>2, <2>3
<1> QED BY <1>2, <1>3 DEF Follows

LEMMA FreeTail ==
  ASSUME NEW s \in Seq(Steps), s # <<>>, NEW Z, Free(s, Z)
  PROVE  Head(s) \notin Z /\ Free(Tail(s), Z)
BY TailOf DEF Free

LEMMA NoneAfterTail ==
  ASSUME NEW s \in Seq(Steps), s # <<>>, NEW X, NEW Z, NoneAfter(s, X, Z)
  PROVE  /\ NoneAfter(Tail(s), X, Z)
         /\ Head(s) \in X => Free(Tail(s), Z)
<1> DEFINE t == Tail(s)
<1>1. /\ Len(s) \in Nat \ {0} /\ Len(t) = Len(s) - 1
      /\ Head(s) = s[1] /\ \A i \in 1..Len(s) - 1 : t[i] = s[i + 1]
  BY TailOf
<1>2. NoneAfter(t, X, Z)
  <2>1. ASSUME NEW i \in 1..Len(t), NEW j \in 1..Len(t), i < j, t[i] \in X PROVE t[j] \notin Z
    BY <1>1, <2>1 DEF NoneAfter
  <2> QED BY <2>1 DEF NoneAfter
<1>3. ASSUME Head(s) \in X PROVE Free(t, Z)
  <2>1. ASSUME NEW i \in 1..Len(t) PROVE t[i] \notin Z
    BY <1>1, <1>3 DEF NoneAfter
  <2> QED BY <2>1 DEF Free
<1> QED BY <1>2, <1>3

\* Nothing is ordered wrongly where nothing is left.
LEMMA EmptyOrdered ==
  /\ <<>> \in Seq(Steps)
  /\ \A X, Y : Follows(<<>>, X, Y) /\ NoneAfter(<<>>, X, Y) /\ Free(<<>>, X)
BY DEF Follows, NoneAfter, Free

(***************************************************************************)
(* All handlers, of requests and of ingestions, are in order.              *)
(***************************************************************************)
LEMMA HandlersOrdered ==
  /\ Ordered(NpmPublish) /\ Ordered(NpmDistTagPut) /\ Ordered(NpmDistTagDelete)
  /\ Ordered(CargoPublish) /\ Ordered(CargoSetYanked)
  /\ Ordered(PypiUpload) /\ Ordered(PypiCache)
  /\ Ordered(NugetPush) /\ Ordered(NugetDelete)
  /\ Ordered(GoUpload) /\ Ordered(GoCache)
  /\ Ordered(NpmIngestVersion) /\ Ordered(NpmUpsertTag) /\ Ordered(NpmDeleteTag)
  /\ Ordered(CargoIngestVersion) /\ Ordered(CargoApplyYank)
  /\ Ordered(PypiIngestFile) /\ Ordered(NugetIngestPackage) /\ Ordered(GoIngestModule)
<1> USE DEF Ordered, Steps, Follows, NoneAfter, OwnerChecks, Writes, Clears
<1>1. Ordered(NpmPublish) /\ Ordered(NpmDistTagPut) /\ Ordered(NpmDistTagDelete)
  BY DEF NpmPublish, NpmDistTagPut, NpmDistTagDelete
<1>2. Ordered(CargoPublish) /\ Ordered(CargoSetYanked)
  BY DEF CargoPublish, CargoSetYanked
<1>3. Ordered(PypiUpload) /\ Ordered(PypiCache)
  BY DEF PypiUpload, PypiCache
<1>4. Ordered(NugetPush) /\ Ordered(NugetDelete)
  BY DEF NugetPush, NugetDelete
<1>5. Ordered(GoUpload) /\ Ordered(GoCache)
  BY DEF GoUpload, GoCache
<1>6. Ordered(NpmIngestVersion) /\ Ordered(NpmUpsertTag) /\ Ordered(NpmDeleteTag)
  BY DEF NpmIngestVersion, NpmUpsertTag, NpmDeleteTag
<1>7. Ordered(CargoIngestVersion) /\ Ordered(CargoApplyYank)
  BY DEF CargoIngestVersion, CargoApplyYank
<1>8. Ordered(PypiIngestFile) /\ Ordered(NugetIngestPackage) /\ Ordered(GoIngestModule)
  BY DEF PypiIngestFile, NugetIngestPackage, GoIngestModule
<1> QED BY ONLY <1>1, <1>2, <1>3, <1>4, <1>5, <1>6, <1>7, <1>8
-----------------------------------------------------------------------------
Stuff    == Contents \union {Upstream, None}
RowType  == [id : Nat, content : Stuff, yanked : BOOLEAN, by : Actors \union {None}]
FileType == [id : Nat, name : {"main", "mod"}, content : Stuff, by : Actors \union {None}]

HandlerType ==
  [todo : Seq(Steps), node : Nodes, owner : Actors \union {None},
   version : Versions \union {None}, content : Stuff, yanked : BOOLEAN, decodes : BOOLEAN,
   row : RowType, acks : BOOLEAN]

ActivityType ==
  [type : {"Version", "Tag", "TagDelete", "Yank"}, version : Versions, content : Stuff,
   yanked : BOOLEAN, decodes : BOOLEAN]

Tables ==
  /\ fmt \in Formats
  /\ pkg \in [Nodes -> Actors \union {None}]
  /\ ver \in [Nodes -> [Versions -> RowType]]
  /\ lastId \in [Nodes -> Nat]
  /\ files \in [Nodes -> SUBSET FileType]
  /\ tag \in [Nodes -> Versions \union {None}]
  /\ IsABag(net) /\ BagToSet(net) \subseteq ActivityType
  /\ lost \in BOOLEAN

Handlers ==
  /\ proc \in [Procs -> HandlerType]
  /\ \A p \in Procs :
       proc[p].todo # <<>> => proc[p].version \in Versions /\ proc[p].owner \in Actors

\* The keys of the tables: the ids of the versions and what identifies a file.
Keys ==
  \A n \in Nodes :
    /\ \A v \in Versions : ver[n][v].id <= lastId[n]
    /\ \A v, w \in Versions : ver[n][v].id = ver[n][w].id /\ ver[n][v].id # 0 => v = w
    /\ \A f, g \in files[n] : f.id = g.id /\ f.name = g.name => f = g

(***************************************************************************)
(* What is stored belongs to the owner of the package, who is known from   *)
(* the first row on, and so does the row a handler has in its hands.  A    *)
(* handler that is still to write has compared its owner or will do so     *)
(* first; one that is to rewrite a row has it or will read it first.       *)
(***************************************************************************)
Owned ==
  \A n \in Nodes :
    /\ \A v \in Versions : ver[n][v].id # 0 => pkg[n] # None /\ ver[n][v].by = pkg[n]
    /\ \A f \in files[n] : pkg[n] # None /\ f.by = pkg[n]

Owns(h) == h.owner # None /\ h.owner = pkg[h.node]

OwnSound(h) ==
  /\ Follows(h.todo, OwnerChecks, Writes) \/ Owns(h)
  /\ Follows(h.todo, {"RequireVersion"}, {"WriteYank"})
     \/ (h.row.id # 0 /\ Free(h.todo, Clears))
  /\ NoneAfter(h.todo, {"RequireVersion"}, Clears)
  /\ NoneAfter(h.todo, {"WriteYank"}, {"WriteYank"})
  /\ h.row.id # 0 => pkg[h.node] # None /\ h.row.by = pkg[h.node]

OwnInv ==
  /\ Tables /\ Handlers /\ Keys /\ Owned
  /\ \A p \in Procs : OwnSound(proc[p])

\* The row of a package never changes.
Steady == \A n \in Nodes : pkg[n] # None => pkg'[n] = pkg[n]

Later(h, row) == [h EXCEPT !.todo = Tail(@), !.row = row]

LEMMA IdleType ==
  /\ Idle \in HandlerType /\ NoRow \in RowType /\ Idle.todo = <<>> /\ Idle.row = NoRow
  /\ NoRow.id = 0
BY EmptyOrdered DEF Idle, NoRow, HandlerType, RowType, Stuff, Nodes

\* What a handler that takes a step becomes.
LEMMA Advance ==
  ASSUME Handlers, NEW p \in Procs, proc[p].todo # <<>>, NEW row \in RowType,
         Continue(p, row) \/ Refuse(p)
  PROVE  /\ Handlers'
         /\ \A q \in Procs \ {p} : proc'[q] = proc[q]
         /\ proc'[p] = Idle \/ proc'[p] = Later(proc[p], row)
<1>1. /\ Later(proc[p], row) \in HandlerType /\ Later(proc[p], row).version = proc[p].version
      /\ Later(proc[p], row).owner = proc[p].owner
  BY TailOf DEF Later, Handlers, HandlerType
<1>2. CASE proc' = [proc EXCEPT ![p] = Idle]
  BY <1>2, IdleType DEF Handlers
<1>3. CASE proc' = [proc EXCEPT ![p] = Later(proc[p], row)]
  BY <1>1, <1>3 DEF Handlers
<1>4. ASSUME Continue(p, row)
      PROVE  \/ proc' = [proc EXCEPT ![p] = Idle]
             \/ proc' = [proc EXCEPT ![p] = Later(proc[p], row)]
  BY <1>4 DEF Continue, Later, Handlers, HandlerType
<1>5. Refuse(p) => proc' = [proc EXCEPT ![p] = Idle]
  BY DEF Refuse
<1> QED BY <1>2, <1>3, <1>4, <1>5

(***************************************************************************)
(* A handler stays sound when it takes a step, if a comparison of owners   *)
(* that lets it go on makes it an owner's, and a lookup of a version gives *)
(* it a row that belongs to the owner.                                     *)
(***************************************************************************)
LEMMA OwnLater ==
  ASSUME NEW h \in HandlerType, h.todo # <<>>, OwnSound(h), NEW row \in RowType,
         Steady, h.owner # None /\ h.owner = pkg[h.node] => pkg'[h.node] = pkg[h.node],
         Head(h.todo) \in OwnerChecks => h.owner # None /\ h.owner = pkg'[h.node],
         Head(h.todo) = "RequireVersion" => row.id # 0,
         Head(h.todo) \notin Clears \union {"WriteYank"} => (h.row.id # 0 => row.id # 0),
         row.id # 0 => pkg'[h.node] # None /\ row.by = pkg'[h.node]
  PROVE  OwnSound(Later(h, row))'
<1> DEFINE g == Later(h, row)
           s == h.todo
<1>1. /\ g.todo = Tail(s) /\ g.row = row /\ g.owner = h.owner /\ g.node = h.node
      /\ s \in Seq(Steps) /\ s # <<>>
  BY DEF Later, HandlerType
<1> HIDE DEF g
<1>2. Follows(g.todo, OwnerChecks, Writes) \/ (g.owner # None /\ g.owner = pkg'[g.node])
  BY <1>1, FollowsTail DEF OwnSound, Owns
<1>3. /\ NoneAfter(g.todo, {"RequireVersion"}, Clears)
      /\ NoneAfter(g.todo, {"WriteYank"}, {"WriteYank"})
  BY <1>1, NoneAfterTail DEF OwnSound
<1>4. Follows(g.todo, {"RequireVersion"}, {"WriteYank"})
      \/ (g.row.id # 0 /\ Free(g.todo, Clears))
  <2>1. CASE Head(s) = "RequireVersion"
    BY <1>1, <2>1, NoneAfterTail DEF OwnSound
  <2>2. CASE Head(s) = "WriteYank"
    <3>1. Free(g.todo, {"WriteYank"})
      BY <1>1, <2>2, NoneAfterTail DEF OwnSound
    <3> QED BY <3>1 DEF Free, Follows
  <2>3. CASE Head(s) \notin {"RequireVersion", "WriteYank"}
    <3>1. CASE Follows(s, {"RequireVersion"}, {"WriteYank"})
      BY <1>1, <2>3, <3>1, FollowsTail
    <3>2. CASE h.row.id # 0 /\ Free(s, Clears)
      <4>1. Head(s) \notin Clears /\ Free(g.todo, Clears)
        BY <1>1, <3>2, FreeTail
      <4> QED BY <1>1, <2>3, <3>2, <4>1
    <3> QED BY <3>1, <3>2 DEF OwnSound
  <2> QED BY <2>1, <2>2, <2>3
<1> QED BY <1>1, <1>2, <1>3, <1>4 DEF OwnSound, Owns, g

\* A handler that does not move stays sound, and so is one that has ended.
LEMMA OwnFrame ==
  ASSUME NEW h \in HandlerType, OwnSound(h), Steady
  PROVE  OwnSound(h)'
BY DEF OwnSound, Owns, Steady, HandlerType

LEMMA OwnIdle ==
  OwnSound(Idle)'
BY EmptyOrdered, IdleType DEF OwnSound

\* All handlers, when one takes a step.
LEMMA OwnAdvance ==
  ASSUME OwnInv, Steady, NEW p \in Procs, proc[p].todo # <<>>, NEW row \in RowType,
         \/ Refuse(p)
         \/ /\ Continue(p, row)
            /\ Head(proc[p].todo) \in OwnerChecks =>
                 proc[p].owner # None /\ proc[p].owner = pkg'[proc[p].node]
            /\ Head(proc[p].todo) = "RequireVersion" => row.id # 0
            /\ Head(proc[p].todo) \notin Clears \union {"WriteYank"} =>
                 (proc[p].row.id # 0 => row.id # 0)
            /\ row.id # 0 => pkg'[proc[p].node] # None /\ row.by = pkg'[proc[p].node]
  PROVE  Handlers' /\ \A q \in Procs : OwnSound(proc[q])'
<1>0. /\ Handlers /\ proc \in [Procs -> HandlerType] /\ \A q \in Procs : OwnSound(proc[q])
  BY DEF OwnInv, Handlers
<1>1. /\ Handlers'
      /\ \A q \in Procs \ {p} : proc'[q] = proc[q]
      /\ proc'[p] = Idle \/ proc'[p] = Later(proc[p], row)
  BY <1>0, Advance
<1>2. ASSUME NEW q \in Procs, q # p PROVE OwnSound(proc[q])'
  <2>1. \A h \in {proc[q]} : OwnSound(h)'
    BY <1>0, OwnFrame
  <2> QED BY <1>1, <1>2, <2>1 DEF OwnSound, Owns
<1>3. CASE proc'[p] = Idle
  <2>1. OwnSound(proc[p])'
    BY <1>3, OwnIdle, IdleType DEF OwnSound, Owns
  <2> QED BY <1>1, <1>2, <2>1
<1>4. CASE ~Refuse(p) /\ proc'[p] = Later(proc[p], row)
  <2> DEFINE g == proc[p]
  <2>1. g \in HandlerType /\ OwnSound(g) /\ g.node \in Nodes
    BY <1>0 DEF HandlerType
  <2>2. \A h \in {g} : OwnSound(Later(h, row))'
    BY <1>4, <2>1, OwnLater DEF Steady
  <2>3. OwnSound(proc[p])'
    BY <1>4, <2>2 DEF OwnSound, Owns, Later
  <2> QED BY <1>1, <1>2, <2>3
<1>5. Refuse(p) => proc'[p] = Idle
  BY <1>0 DEF Refuse
<1> QED BY <1>1, <1>3, <1>4, <1>5

\* A step that leaves the tables alone.
LEMMA TablesFrame ==
  ASSUME OwnInv, UNCHANGED <<fmt, tables, net, lost>>
  PROVE  Tables' /\ Keys' /\ Owned' /\ Steady
BY DEF OwnInv, Tables, Keys, Owned, Steady, tables

LEMMA OwnersKnown == None \notin Actors
BY PackagesAssumption DEF Actors, Nodes, Upstream, None

\* A handler that begins, in order and with no row in its hands.
LEMMA OwnBegin ==
  ASSUME OwnInv, Tables', Keys', Owned', Steady, NEW p \in Procs, NEW h \in HandlerType,
         proc' = [proc EXCEPT ![p] = h],
         Ordered(h.todo), h.row = NoRow, h.version \in Versions, h.owner \in Actors
  PROVE  OwnInv'
<1>1. proc \in [Procs -> HandlerType] /\ \A q \in Procs : OwnSound(proc[q])
  BY DEF OwnInv, Handlers
<1>2. Handlers'
  BY DEF OwnInv, Handlers
<1>3. OwnSound(h)'
  BY IdleType DEF OwnSound, Ordered
<1>4. ASSUME NEW q \in Procs PROVE OwnSound(proc[q])'
  <2>1. CASE q = p
    <3>1. proc'[q] = h
      BY <1>1, <2>1
    <3> QED BY <1>3, <3>1 DEF OwnSound, Owns
  <2>2. CASE q # p
    <3>1. \A g \in {proc[q]} : OwnSound(g)'
      BY <1>1, OwnFrame
    <3>2. proc'[q] = proc[q]
      BY <1>1, <2>2
    <3> QED BY <3>1, <3>2 DEF OwnSound, Owns
  <2> QED BY <2>1, <2>2
<1> QED BY <1>2, <1>4 DEF OwnInv

Starts(p, h) ==
  /\ proc[p] = Idle /\ proc' = [proc EXCEPT ![p] = h]
  /\ h.row = NoRow /\ h.version \in Versions
  /\ UNCHANGED <<fmt, tables, net, acked, lost>>

Requested(h) ==
  \/ h.owner = h.node /\ h.acks /\ h.todo = PublishHandler /\ h.content \in Contents
  \/ /\ h.owner = h.node /\ ~h.acks
     /\ \/ fmt = "npm" /\ (h.todo = NpmDistTagPut \/ h.todo = NpmDistTagDelete)
        \/ fmt = "cargo" /\ h.todo = CargoSetYanked
        \/ fmt = "nuget" /\ h.todo = NugetDelete
  \/ /\ h.owner = Upstream /\ ~h.acks
     /\ \/ fmt = "pypi" /\ h.todo = PypiCache
        \/ fmt = "goproxy" /\ h.todo = GoCache

\* Which handlers a request begins, and on whose behalf.
LEMMA RequestHandler ==
  ASSUME NEW p \in Procs, Request(p)
  PROVE  \E h \in HandlerType : Starts(p, h) /\ Requested(h)
<1>0. /\ PublishHandler \in Seq(Steps) /\ NpmDistTagPut \in Seq(Steps)
      /\ NpmDistTagDelete \in Seq(Steps) /\ CargoSetYanked \in Seq(Steps)
      /\ NugetDelete \in Seq(Steps) /\ PypiCache \in Seq(Steps) /\ GoCache \in Seq(Steps)
  BY HandlersOrdered DEF Ordered, PublishHandler
<1>1. PICK n \in Nodes, v \in Versions :
        \/ \E c \in Contents : Publish(p, n, v, c)
        \/ DistTag(p, n, v)
        \/ \E y \in BOOLEAN : SetYanked(p, n, v, y)
        \/ Delete(p, n, v)
        \/ CacheFromUpstream(p, n, v)
  BY DEF Request
<1> DEFINE H(owner, c, y, todo, acks) ==
             [todo |-> todo, node |-> n, owner |-> owner, version |-> v, content |-> c,
              yanked |-> y, decodes |-> TRUE, row |-> NoRow, acks |-> acks]
<1>2. CASE \E c \in Contents : Publish(p, n, v, c)
  <2>1. PICK c \in Contents : Begin(p, "publish", n, n, v, c, FALSE, PublishHandler, TRUE)
    BY <1>2 DEF Publish
  <2> DEFINE h == H(n, c, FALSE, PublishHandler, TRUE)
  <2>2. h \in HandlerType
    BY <1>0, IdleType DEF HandlerType, Actors, Stuff
  <2>3. Starts(p, h)
    BY <2>1 DEF Begin, Starts
  <2>4. Requested(h)
    BY DEF Requested
  <2> QED BY <2>2, <2>3, <2>4
<1>3. CASE DistTag(p, n, v)
  <2>1. PICK todo \in {NpmDistTagPut, NpmDistTagDelete} :
          fmt = "npm" /\ Begin(p, "other", n, n, v, None, FALSE, todo, FALSE)
    BY <1>3 DEF DistTag
  <2> DEFINE h == H(n, None, FALSE, todo, FALSE)
  <2>2. h \in HandlerType
    BY <1>0, IdleType DEF HandlerType, Actors, Stuff
  <2>3. Starts(p, h)
    BY <2>1 DEF Begin, Starts
  <2>4. Requested(h)
    BY <2>1 DEF Requested
  <2> QED BY <2>2, <2>3, <2>4
<1>4. CASE \E y \in BOOLEAN : SetYanked(p, n, v, y)
  <2>1. PICK y \in BOOLEAN :
          fmt = "cargo" /\ Begin(p, "other", n, n, v, None, y, CargoSetYanked, FALSE)
    BY <1>4 DEF SetYanked
  <2> DEFINE h == H(n, None, y, CargoSetYanked, FALSE)
  <2>2. h \in HandlerType
    BY <1>0, IdleType DEF HandlerType, Actors, Stuff
  <2>3. Starts(p, h)
    BY <2>1 DEF Begin, Starts
  <2>4. Requested(h)
    BY <2>1 DEF Requested
  <2> QED BY <2>2, <2>3, <2>4
<1>5. CASE Delete(p, n, v)
  <2>1. fmt = "nuget" /\ Begin(p, "other", n, n, v, None, FALSE, NugetDelete, FALSE)
    BY <1>5 DEF Delete
  <2> DEFINE h == H(n, None, FALSE, NugetDelete, FALSE)
  <2>2. h \in HandlerType
    BY <1>0, IdleType DEF HandlerType, Actors, Stuff
  <2>3. Starts(p, h)
    BY <2>1 DEF Begin, Starts
  <2>4. Requested(h)
    BY <2>1 DEF Requested
  <2> QED BY <2>2, <2>3, <2>4
<1>6. CASE CacheFromUpstream(p, n, v)
  <2>1. PICK todo \in {PypiCache, GoCache} :
          /\ (fmt = "pypi" /\ todo = PypiCache) \/ (fmt = "goproxy" /\ todo = GoCache)
          /\ Begin(p, "other", n, Upstream, v, Upstream, FALSE, todo, FALSE)
    BY <1>6 DEF CacheFromUpstream
  <2> DEFINE h == H(Upstream, Upstream, FALSE, todo, FALSE)
  <2>2. h \in HandlerType
    BY <1>0, IdleType DEF HandlerType, Actors, Stuff
  <2>3. Starts(p, h)
    BY <2>1 DEF Begin, Starts
  <2>4. Requested(h)
    BY <2>1 DEF Requested
  <2> QED BY <2>2, <2>3, <2>4
<1> QED BY <1>1, <1>2, <1>3, <1>4, <1>5, <1>6

LEMMA OwnRequest ==
  ASSUME OwnInv, NEW p \in Procs, Request(p)
  PROVE  OwnInv'
<1>1. PICK h \in HandlerType : Starts(p, h) /\ Requested(h)
  BY RequestHandler
<1>2. Ordered(PublishHandler)
  BY HandlersOrdered DEF PublishHandler
<1>3. Ordered(h.todo)
  BY <1>1, <1>2, HandlersOrdered DEF Requested
<1>4. h.owner \in Actors
  BY <1>1 DEF HandlerType, Actors, Requested
<1>5. Tables' /\ Keys' /\ Owned' /\ Steady
  BY <1>1, TablesFrame DEF Starts
<1> QED BY <1>1, <1>3, <1>4, <1>5, OwnBegin DEF Starts

(***************************************************************************)
(* An activity that is taken from the network, and one that is put there.  *)
(***************************************************************************)
LEMMA BagOfOne ==
  ASSUME NEW B, IsABag(B), NEW a
  PROVE  /\ IsABag(B (+) SetToBag({a}))
         /\ BagToSet(B (+) SetToBag({a})) = BagToSet(B) \union {a}
         /\ IsABag(B (-) SetToBag({a}))
         /\ BagToSet(B (-) SetToBag({a})) \subseteq BagToSet(B)
         /\ BagToSet(B) \ {a} \subseteq BagToSet(B (-) SetToBag({a}))
<1>1. /\ IsABag(SetToBag({a}))
      /\ DOMAIN SetToBag({a}) = {a} /\ SetToBag({a})[a] = 1
  BY DEF IsABag, SetToBag
<1> DEFINE C == SetToBag({a})
<1> HIDE DEF C
<1>2. /\ IsABag(B (+) C) /\ DOMAIN (B (+) C) = DOMAIN B \union {a}
  BY <1>1 DEF IsABag, (+), C
<1>3. /\ IsABag(B (-) C)
      /\ DOMAIN (B (-) C) \subseteq DOMAIN B /\ DOMAIN B \ {a} \subseteq DOMAIN (B (-) C)
  BY <1>1 DEF IsABag, (-), C
<1> QED BY <1>2, <1>3 DEF BagToSet, C

Ingested(a, h) ==
  /\ h.node = Follower /\ h.owner = Publisher /\ h.version = a.version
  /\ h.content = a.content /\ ~h.acks /\ h.row = NoRow
  /\ \/ a.type = "Version" /\ h.todo = IngestHandler
     \/ a.type = "Tag" /\ h.todo = NpmUpsertTag
     \/ a.type = "TagDelete" /\ h.todo = NpmDeleteTag
     \/ a.type = "Yank" /\ h.todo = CargoApplyYank

LEMMA IngestHandlerOf ==
  ASSUME Tables, NEW p \in Procs, Ingest(p)
  PROVE  \E a \in BagToSet(net), h \in HandlerType :
           /\ Ingested(a, h) /\ a \in ActivityType
           /\ proc[p] = Idle /\ proc' = [proc EXCEPT ![p] = h]
           /\ net' = net (-) SetToBag({a})
           /\ UNCHANGED <<fmt, tables, acked, lost>>
<1>1. PICK a \in BagToSet(net) :
        /\ net' = net (-) SetToBag({a})
        /\ proc' = [proc EXCEPT ![p] = [Idle EXCEPT
             !.node = Follower, !.owner = Publisher, !.version = a.version,
             !.content = a.content, !.yanked = a.yanked, !.decodes = a.decodes,
             !.todo = CASE a.type = "Version"   -> IngestHandler
                        [] a.type = "Tag"       -> NpmUpsertTag
                        [] a.type = "TagDelete" -> NpmDeleteTag
                        [] OTHER                -> CargoApplyYank]]
  BY DEF Ingest
<1> DEFINE t == CASE a.type = "Version"   -> IngestHandler
                  [] a.type = "Tag"       -> NpmUpsertTag
                  [] a.type = "TagDelete" -> NpmDeleteTag
                  [] OTHER                -> CargoApplyYank
           h == [Idle EXCEPT !.node = Follower, !.owner = Publisher, !.version = a.version,
                   !.content = a.content, !.yanked = a.yanked, !.decodes = a.decodes, !.todo = t]
<1>2. a \in ActivityType
  BY DEF Tables
<1>3. /\ IngestHandler \in Seq(Steps) /\ NpmUpsertTag \in Seq(Steps)
      /\ NpmDeleteTag \in Seq(Steps) /\ CargoApplyYank \in Seq(Steps)
  BY HandlersOrdered DEF Ordered, IngestHandler
<1>4. /\ t \in Seq(Steps)
      /\ \/ a.type = "Version" /\ t = IngestHandler
         \/ a.type = "Tag" /\ t = NpmUpsertTag
         \/ a.type = "TagDelete" /\ t = NpmDeleteTag
         \/ a.type = "Yank" /\ t = CargoApplyYank
  BY <1>2, <1>3 DEF ActivityType
<1> HIDE DEF t
<1>5. h \in HandlerType
  BY <1>2, <1>4, IdleType DEF HandlerType, ActivityType, Actors, Nodes, Idle
<1>6. Ingested(a, h)
  BY <1>4, IdleType DEF Ingested, Idle
<1>7. /\ proc[p] = Idle /\ proc' = [proc EXCEPT ![p] = h]
      /\ UNCHANGED <<fmt, tables, acked, lost>>
  BY <1>1 DEF Ingest, t
<1> QED BY <1>1, <1>2, <1>5, <1>6, <1>7

LEMMA OwnIngest ==
  ASSUME OwnInv, NEW p \in Procs, Ingest(p)
  PROVE  OwnInv'
<1>1. PICK a \in BagToSet(net), h \in HandlerType :
        /\ Ingested(a, h) /\ a \in ActivityType
        /\ proc[p] = Idle /\ proc' = [proc EXCEPT ![p] = h]
        /\ net' = net (-) SetToBag({a})
        /\ UNCHANGED <<fmt, tables, acked, lost>>
  BY IngestHandlerOf DEF OwnInv
<1>2. Ordered(IngestHandler)
  BY HandlersOrdered DEF IngestHandler
<1>3. Ordered(h.todo) /\ h.row = NoRow
  BY <1>1, <1>2, HandlersOrdered DEF Ingested
<1>4. h.owner \in Actors /\ h.version \in Versions
  BY <1>1 DEF Ingested, ActivityType, Actors, Nodes
<1>5. IsABag(net') /\ BagToSet(net') \subseteq BagToSet(net)
  BY <1>1, BagOfOne DEF OwnInv, Tables
<1>6. Tables' /\ Keys' /\ Owned' /\ Steady
  BY <1>1, <1>5 DEF OwnInv, Tables, Keys, Owned, Steady, tables
<1> QED BY <1>1, <1>3, <1>4, <1>6, OwnBegin
-----------------------------------------------------------------------------
\* What a handler is when it is at a step.
LEMMA AtStep ==
  ASSUME OwnInv, NEW p \in Procs, NEW x, At(p, x)
  PROVE  /\ proc[p] \in HandlerType /\ proc[p].todo # <<>> /\ Head(proc[p].todo) = x
         /\ proc[p].node \in Nodes /\ proc[p].version \in Versions
         /\ proc[p].owner \in Actors /\ proc[p].owner # None
         /\ proc[p].row \in RowType
         /\ OwnSound(proc[p])
BY OwnersKnown DEF At, OwnInv, Handlers, HandlerType

\* getOrCreatePackage: the first row decides whose package it is.
LEMMA OwnGetOrCreatePackage ==
  ASSUME OwnInv, NEW p \in Procs, GetOrCreatePackage(p)
  PROVE  OwnInv' /\ Steady
<1>1. /\ proc[p] \in HandlerType /\ proc[p].todo # <<>>
      /\ Head(proc[p].todo) = "GetOrCreatePackage"
      /\ proc[p].node \in Nodes /\ proc[p].owner \in Actors /\ proc[p].owner # None
  BY AtStep DEF GetOrCreatePackage
<1> DEFINE n == proc[p].node
<1>2. /\ pkg' = [pkg EXCEPT ![n] = IF @ = None THEN proc[p].owner ELSE @]
      /\ UNCHANGED <<fmt, ver, lastId, files, tag, net, lost>>
      /\ Refuse(p) \/ (Continue(p, NoRow) /\ pkg'[n] = proc[p].owner)
  BY DEF GetOrCreatePackage, Guard
<1>3. Steady /\ Tables' /\ Keys'
  BY <1>1, <1>2 DEF Steady, OwnInv, Tables, Keys
<1>4. Owned'
  BY <1>2, <1>3 DEF OwnInv, Owned, Steady
<1>5. NoRow \in RowType /\ NoRow.id = 0 /\ "GetOrCreatePackage" \in Clears
  BY IdleType DEF Clears
<1>6. Handlers' /\ \A q \in Procs : OwnSound(proc[q])'
  BY <1>1, <1>2, <1>3, <1>5, OwnAdvance
<1> QED BY <1>3, <1>4, <1>6 DEF OwnInv

\* The lookups.
LEMMA OwnRead ==
  ASSUME OwnInv, NEW p \in Procs, Read(p) \/ DecodeMeta(p)
  PROVE  OwnInv' /\ Steady
<1> DEFINE n == proc[p].node
           row == Row(n, proc[p].version)
           x == Head(proc[p].todo)
<1>1. UNCHANGED <<fmt, tables, net, lost>>
  BY DEF Read, DecodeMeta
<1>2. Tables' /\ Keys' /\ Owned' /\ Steady /\ UNCHANGED pkg
  BY <1>1, TablesFrame DEF tables
<1>3. /\ \E y : At(p, y)
      /\ Refuse(p)
         \/ (Continue(p, NoRow) /\ x = "LookupOwnedPackage" /\ pkg[n] = proc[p].owner)
         \/ (Continue(p, NoRow) /\ x \in {"GetPackage", "RefuseExisting"})
         \/ (Continue(p, row) /\ x = "GetPackageVersion")
         \/ (Continue(p, row) /\ x = "RequireVersion" /\ row.id # 0)
         \/ (Continue(p, proc[p].row) /\ x \in {"SkipIfYanked", "RefuseExistingFile", "DecodeMeta"})
  <2>1. CASE Read(p)
    BY <2>1 DEF Read, Guard, At, LookupOwnedPackage
  <2>2. CASE DecodeMeta(p)
    BY <2>2 DEF DecodeMeta, Guard, At
  <2> QED BY <2>1, <2>2
<1>4. /\ proc[p] \in HandlerType /\ proc[p].todo # <<>>
      /\ n \in Nodes /\ proc[p].version \in Versions /\ proc[p].owner # None
      /\ proc[p].row \in RowType /\ OwnSound(proc[p])
  BY <1>3, AtStep
<1>5. /\ row \in RowType /\ (row.id # 0 => pkg[n] # None /\ row.by = pkg[n])
      /\ proc[p].row.id # 0 => pkg[n] # None /\ proc[p].row.by = pkg[n]
      /\ NoRow \in RowType /\ NoRow.id = 0
  BY <1>4, IdleType DEF OwnInv, Tables, Owned, Row, OwnSound
<1> HIDE DEF row
<1>6. PICK r \in {NoRow, row, proc[p].row} :
        \/ Refuse(p)
        \/ /\ Continue(p, r)
           /\ x \in OwnerChecks => pkg[n] = proc[p].owner
           /\ x = "RequireVersion" => r.id # 0
           /\ x \notin Clears \union {"WriteYank"} => (proc[p].row.id # 0 => r.id # 0)
  BY <1>3 DEF OwnerChecks, Clears
<1>7. Handlers' /\ \A q \in Procs : OwnSound(proc[q])'
  BY <1>2, <1>4, <1>5, <1>6, OwnAdvance
<1> QED BY <1>2, <1>7 DEF OwnInv

\* An upsert keeps the id of the row it meets, and a new row has a new id.
LEMMA UpsertEffect ==
  ASSUME Tables, Keys, NEW n \in Nodes, NEW v \in Versions, NEW row \in RowType,
         Upsert(n, v, row)
  PROVE  /\ ver' \in [Nodes -> [Versions -> RowType]] /\ lastId' \in [Nodes -> Nat]
         /\ ver'[n][v].id # 0 /\ ver'[n][v].by = row.by
         /\ ver[n][v].id # 0 => ver'[n][v].id = ver[n][v].id
         /\ ver[n][v].id = 0 => ver'[n][v].id > lastId[n]
         /\ \A m \in Nodes, w \in Versions : m # n \/ w # v => ver'[m][w] = ver[m][w]
         /\ \A m \in Nodes :
              /\ lastId[m] <= lastId'[m]
              /\ \A w \in Versions : ver'[m][w].id <= lastId'[m]
              /\ \A w, u \in Versions :
                   ver'[m][w].id = ver'[m][u].id /\ ver'[m][w].id # 0 => w = u
<1> DEFINE id == IF ver[n][v].id # 0 THEN ver[n][v].id ELSE lastId[n] + 1
           new == [row EXCEPT !.id = id]
<1>1. /\ ver \in [Nodes -> [Versions -> RowType]] /\ lastId \in [Nodes -> Nat]
      /\ ver[n][v] \in RowType /\ ver[n][v].id \in Nat
  BY DEF Tables, RowType
<1>2. /\ ver' = [ver EXCEPT ![n][v] = new]
      /\ lastId' = [lastId EXCEPT ![n] = IF id > @ THEN id ELSE @]
  BY DEF Upsert, Row
<1>3. /\ id \in Nat \ {0} /\ (ver[n][v].id # 0 => id = ver[n][v].id)
      /\ ver[n][v].id = 0 => id = lastId[n] + 1
  BY <1>1
<1>4. new \in RowType /\ new.id = id /\ new.by = row.by
  BY <1>3 DEF RowType
<1> HIDE DEF id, new
<1>5. /\ ver' \in [Nodes -> [Versions -> RowType]] /\ lastId' \in [Nodes -> Nat]
      /\ ver'[n][v] = new
      /\ \A m \in Nodes, w \in Versions : m # n \/ w # v => ver'[m][w] = ver[m][w]
      /\ \A m \in Nodes : m # n => lastId'[m] = lastId[m]
      /\ lastId'[n] >= lastId[n] /\ lastId'[n] >= id
  BY <1>1, <1>2, <1>3, <1>4
<1>6. ASSUME NEW m \in Nodes, NEW w \in Versions PROVE ver'[m][w].id <= lastId'[m]
  <2>1. ver[m][w].id <= lastId[m] /\ ver[m][w].id \in Nat /\ lastId[m] \in Nat /\ lastId'[m] \in Nat
    BY <1>1, <1>5 DEF Keys, RowType
  <2> QED BY <1>3, <1>4, <1>5, <2>1
<1>7. ASSUME NEW m \in Nodes, NEW w \in Versions, NEW u \in Versions,
             ver'[m][w].id = ver'[m][u].id, ver'[m][w].id # 0
      PROVE  w = u
  <2>1. /\ ver[m][w].id <= lastId[m] /\ ver[m][u].id <= lastId[m]
        /\ ver[m][w].id \in Nat /\ ver[m][u].id \in Nat /\ lastId[m] \in Nat
        /\ ver[m][w].id = ver[m][u].id /\ ver[m][w].id # 0 => w = u
    BY <1>1 DEF Keys, RowType
  <2> QED BY <1>3, <1>4, <1>5, <1>7, <2>1
<1>8. \A m \in Nodes : lastId[m] <= lastId'[m]
  BY <1>1, <1>5
<1>9. ver[n][v].id = 0 => ver'[n][v].id > lastId[n]
  BY <1>1, <1>3, <1>4, <1>5
<1> QED BY <1>3, <1>4, <1>5, <1>6, <1>7, <1>8, <1>9

\* InsertPackageVersionIfNew and putPackageVersion, under any of its names.
LEMMA OwnVersion ==
  ASSUME OwnInv, NEW p \in Procs, InsertPackageVersionIfNew(p) \/ PutPackageVersion(p)
  PROVE  OwnInv' /\ Steady
<1> DEFINE n == proc[p].node
           v == proc[p].version
           x == Head(proc[p].todo)
           yank == [proc[p].row EXCEPT !.yanked = proc[p].yanked]
<1>1. /\ UNCHANGED <<fmt, pkg, files, tag, net, lost>>
      /\ \E y : At(p, y)
      /\ x \in {"InsertPackageVersionIfNew", "PutPackageVersion", "PutVersionIfNil", "WriteYank"}
      /\ \/ Upsert(n, v, NewRow(p)) /\ x # "WriteYank" /\ (Continue(p, ver'[n][v]) \/ Refuse(p))
         \/ UNCHANGED <<ver, lastId>> /\ (Refuse(p) \/ (Continue(p, proc[p].row) /\ x = "PutVersionIfNil"))
         \/ Upsert(n, v, yank) /\ x = "WriteYank" /\ Continue(p, NoRow)
  <2>1. CASE InsertPackageVersionIfNew(p)
    BY <2>1 DEF InsertPackageVersionIfNew, Guard, At
  <2>2. CASE PutPackageVersion(p)
    BY <2>2 DEF PutPackageVersion, At
  <2> QED BY <2>1, <2>2
<1>2. /\ proc[p] \in HandlerType /\ proc[p].todo # <<>>
      /\ n \in Nodes /\ v \in Versions /\ proc[p].owner # None
      /\ proc[p].row \in RowType /\ OwnSound(proc[p])
  BY <1>1, AtStep
<1>3. Tables /\ Keys /\ Owned /\ pkg' = pkg /\ Steady
  BY <1>1 DEF OwnInv, Steady
<1>4. x # "WriteYank" => proc[p].owner = pkg[n]
  <2>1. ASSUME x # "WriteYank" PROVE x \in Writes
    BY <1>1, <2>1 DEF Writes
  <2> QED BY <1>2, <2>1, FollowsTail DEF OwnSound, Owns, HandlerType
<1>5. x = "WriteYank" => proc[p].row.id # 0 /\ pkg[n] # None /\ proc[p].row.by = pkg[n]
  BY <1>2, FollowsTail DEF OwnSound, HandlerType
<1>6. /\ NewRow(p) \in RowType /\ NewRow(p).by = proc[p].owner
      /\ yank \in RowType /\ yank.by = proc[p].row.by
  BY <1>2 DEF NewRow, RowType, HandlerType
<1>7. x \notin OwnerChecks /\ x # "RequireVersion" /\ NoRow \in RowType /\ NoRow.id = 0
  BY <1>1, IdleType DEF OwnerChecks
<1> HIDE DEF yank
<1>8. ASSUME NEW row \in RowType, Upsert(n, v, row), row.by = pkg[n], pkg[n] # None
      PROVE  /\ Tables' /\ Keys' /\ Owned'
             /\ ver'[n][v] \in RowType /\ ver'[n][v].id # 0 /\ ver'[n][v].by = pkg[n]
  <2>1. /\ ver' \in [Nodes -> [Versions -> RowType]] /\ lastId' \in [Nodes -> Nat]
        /\ ver'[n][v].id # 0 /\ ver'[n][v].by = row.by
        /\ \A m \in Nodes, w \in Versions : m # n \/ w # v => ver'[m][w] = ver[m][w]
        /\ \A m \in Nodes :
             /\ \A w \in Versions : ver'[m][w].id <= lastId'[m]
             /\ \A w, u \in Versions :
                  ver'[m][w].id = ver'[m][u].id /\ ver'[m][w].id # 0 => w = u
    BY <1>2, <1>3, <1>8, UpsertEffect
  <2>2. Tables'
    BY <1>1, <1>3, <2>1 DEF Tables
  <2>3. Keys'
    BY <1>1, <1>3, <2>1 DEF Keys
  <2>4. Owned'
    <3>1. ASSUME NEW m \in Nodes, NEW w \in Versions, ver'[m][w].id # 0
          PROVE  pkg'[m] # None /\ ver'[m][w].by = pkg'[m]
      <4>1. CASE m = n /\ w = v
        BY <1>3, <1>8, <2>1, <4>1
      <4>2. CASE m # n \/ w # v
        BY <1>3, <2>1, <3>1, <4>2 DEF Owned
      <4> QED BY <4>1, <4>2
    <3>2. \A m \in Nodes : \A f \in files'[m] : pkg'[m] # None /\ f.by = pkg'[m]
      BY <1>1, <1>3 DEF Owned
    <3> QED BY <3>1, <3>2 DEF Owned
  <2> QED BY <1>2, <1>8, <2>1, <2>2, <2>3, <2>4
<1>9. CASE UNCHANGED <<ver, lastId>> /\ (Refuse(p) \/ (Continue(p, proc[p].row) /\ x = "PutVersionIfNil"))
  <2>1. Tables' /\ Keys' /\ Owned'
    BY <1>1, <1>3, <1>9 DEF Tables, Keys, Owned
  <2>2. Handlers' /\ \A q \in Procs : OwnSound(proc[q])'
    <3>1. proc[p].row.id # 0 => pkg[n] # None /\ proc[p].row.by = pkg[n]
      BY <1>2 DEF OwnSound
    <3> QED BY <1>2, <1>3, <1>7, <1>9, <3>1, OwnAdvance
  <2> QED BY <1>3, <2>1, <2>2 DEF OwnInv
<1>10. CASE Upsert(n, v, NewRow(p)) /\ x # "WriteYank" /\ (Continue(p, ver'[n][v]) \/ Refuse(p))
  <2>1. /\ Tables' /\ Keys' /\ Owned'
        /\ ver'[n][v] \in RowType /\ ver'[n][v].id # 0 /\ ver'[n][v].by = pkg[n]
        /\ pkg[n] # None
    BY <1>2, <1>4, <1>6, <1>8, <1>10
  <2>2. Handlers' /\ \A q \in Procs : OwnSound(proc[q])'
    BY <1>2, <1>3, <1>7, <1>10, <2>1, OwnAdvance
  <2> QED BY <1>3, <2>1, <2>2 DEF OwnInv
<1>11. CASE Upsert(n, v, yank) /\ x = "WriteYank" /\ Continue(p, NoRow)
  <2>1. Tables' /\ Keys' /\ Owned'
    BY <1>5, <1>6, <1>8, <1>11
  <2>2. Handlers' /\ \A q \in Procs : OwnSound(proc[q])'
    BY <1>2, <1>3, <1>7, <1>11, OwnAdvance
  <2> QED BY <1>3, <2>1, <2>2 DEF OwnInv
<1> QED BY <1>1, <1>9, <1>10, <1>11

\* PutPackageFile replaces the file of that id and name.
LEMMA OwnFile ==
  ASSUME OwnInv, NEW p \in Procs, PutPackageFile(p)
  PROVE  OwnInv' /\ Steady
<1> DEFINE n == proc[p].node
           x == Head(proc[p].todo)
<1>1. /\ UNCHANGED <<fmt, pkg, ver, lastId, tag, net, lost>>
      /\ \E y : At(p, y)
      /\ x \in {"PutPackageFile", "PutModFile"} /\ Continue(p, proc[p].row)
      /\ \E name \in {"main", "mod"} : files' = FilePut(n, proc[p].row.id, name, p)
  BY DEF PutPackageFile, At
<1>2. /\ proc[p] \in HandlerType /\ proc[p].todo # <<>>
      /\ n \in Nodes /\ proc[p].owner \in Actors /\ proc[p].owner # None
      /\ proc[p].row \in RowType /\ OwnSound(proc[p])
  BY <1>1, AtStep
<1>3. Tables /\ Keys /\ Owned /\ pkg' = pkg /\ Steady
  BY <1>1 DEF OwnInv, Steady
<1>4. x \in Writes /\ x \notin OwnerChecks /\ x # "RequireVersion"
  BY <1>1 DEF Writes, OwnerChecks
<1>5. proc[p].owner = pkg[n]
  BY <1>2, <1>4, FollowsTail DEF OwnSound, Owns, HandlerType
<1>6. PICK name \in {"main", "mod"} : files' = FilePut(n, proc[p].row.id, name, p)
  BY <1>1
<1> DEFINE new == [id |-> proc[p].row.id, name |-> name, content |-> proc[p].content,
                   by |-> proc[p].owner]
<1>7. new \in FileType /\ new.id = proc[p].row.id /\ new.name = name /\ new.by = proc[p].owner
  BY <1>2 DEF FileType, HandlerType, RowType
<1>8. /\ files' = [files EXCEPT ![n] = {f \in @ : f.id # new.id \/ f.name # new.name} \union {new}]
  BY <1>6, <1>7 DEF FilePut
<1> HIDE DEF new
<1>9. /\ files' \in [Nodes -> SUBSET FileType]
      /\ files'[n] = {f \in files[n] : f.id # new.id \/ f.name # new.name} \union {new}
      /\ \A m \in Nodes : m # n => files'[m] = files[m]
  BY <1>2, <1>3, <1>7, <1>8 DEF Tables
<1>10. Tables'
  BY <1>1, <1>3, <1>9 DEF Tables
<1>11. Keys'
  BY <1>1, <1>3, <1>9 DEF Keys
<1>12. Owned'
  BY <1>1, <1>2, <1>3, <1>5, <1>7, <1>9 DEF Owned
<1>13. Handlers' /\ \A q \in Procs : OwnSound(proc[q])'
  <2>1. proc[p].row.id # 0 => pkg[n] # None /\ proc[p].row.by = pkg[n]
    BY <1>2 DEF OwnSound
  <2> QED BY <1>1, <1>2, <1>3, <1>4, <2>1, OwnAdvance
<1> QED BY <1>3, <1>10, <1>11, <1>12, <1>13 DEF OwnInv

\* The dist-tags.
LEMMA OwnTag ==
  ASSUME OwnInv, NEW p \in Procs, PutPackageTag(p) \/ DeletePackageTag(p)
  PROVE  OwnInv' /\ Steady
<1> DEFINE n == proc[p].node
           x == Head(proc[p].todo)
<1>1. /\ UNCHANGED <<fmt, pkg, ver, lastId, files, net, lost>>
      /\ \E y : At(p, y)
      /\ \/ x = "PutPackageTag" /\ Continue(p, proc[p].row)
         \/ x = "DeletePackageTag" /\ Continue(p, NoRow)
      /\ tag' = [tag EXCEPT ![n] = proc[p].version] \/ tag' = [tag EXCEPT ![n] = None]
  BY DEF PutPackageTag, DeletePackageTag, At
<1>2. /\ proc[p].todo # <<>> /\ n \in Nodes /\ proc[p].version \in Versions
      /\ proc[p].row \in RowType /\ OwnSound(proc[p])
  BY <1>1, AtStep
<1>3. Tables' /\ Keys' /\ Owned' /\ pkg' = pkg /\ Steady
  BY <1>1, <1>2 DEF OwnInv, Steady, Tables, Keys, Owned
<1>4. /\ x \notin OwnerChecks /\ x # "RequireVersion"
      /\ x = "DeletePackageTag" => x \in Clears
      /\ proc[p].row.id # 0 => pkg[n] # None /\ proc[p].row.by = pkg[n]
      /\ NoRow \in RowType /\ NoRow.id = 0
  BY <1>1, <1>2, IdleType DEF OwnerChecks, Clears, OwnSound
<1>5. Handlers' /\ \A q \in Procs : OwnSound(proc[q])'
  BY <1>1, <1>2, <1>3, <1>4, OwnAdvance
<1> QED BY <1>3, <1>5 DEF OwnInv

\* DeletePackageVersion of a nuget package.
LEMMA OwnDelete ==
  ASSUME OwnInv, NEW p \in Procs, DeletePackageVersion(p)
  PROVE  OwnInv' /\ Steady
<1> DEFINE n == proc[p].node
           v == proc[p].version
<1>1. /\ UNCHANGED <<fmt, pkg, lastId, net, lost>>
      /\ At(p, "DeletePackageVersion")
      /\ ver' = [ver EXCEPT ![n][v] = NoRow]
      /\ files' = [files EXCEPT ![n] = {f \in @ : f.id # ver[n][v].id}]
      /\ tag' = [tag EXCEPT ![n] = IF @ = v THEN None ELSE @]
      /\ proc' = [proc EXCEPT ![p] = Idle]
  BY DEF DeletePackageVersion, Row
<1>2. n \in Nodes /\ v \in Versions
  BY <1>1, AtStep
<1>3. Tables /\ Keys /\ Owned /\ Handlers /\ pkg' = pkg /\ Steady
  BY <1>1 DEF OwnInv, Steady
<1>4. /\ ver' \in [Nodes -> [Versions -> RowType]] /\ ver'[n][v] = NoRow
      /\ \A m \in Nodes, w \in Versions : m # n \/ w # v => ver'[m][w] = ver[m][w]
      /\ files' \in [Nodes -> SUBSET FileType] /\ \A m \in Nodes : files'[m] \subseteq files[m]
  BY <1>1, <1>2, <1>3, IdleType DEF Tables
<1>5. Tables'
  BY <1>1, <1>2, <1>3, <1>4 DEF Tables
<1>6. Keys'
  <2>1. \A m \in Nodes, w \in Versions :
          /\ ver'[m][w] = ver[m][w] \/ ver'[m][w].id = 0
          /\ lastId'[m] = lastId[m] /\ lastId[m] \in Nat
    BY <1>1, <1>3, <1>4, IdleType DEF Tables
  <2>2. ASSUME NEW m \in Nodes
        PROVE  /\ \A w \in Versions : ver'[m][w].id <= lastId'[m]
               /\ \A w, u \in Versions :
                    ver'[m][w].id = ver'[m][u].id /\ ver'[m][w].id # 0 => w = u
               /\ \A f, g \in files'[m] : f.id = g.id /\ f.name = g.name => f = g
    <3>1. ASSUME NEW w \in Versions PROVE ver'[m][w].id <= lastId'[m]
      BY <1>3, <2>1 DEF Keys
    <3>2. ASSUME NEW w \in Versions, NEW u \in Versions,
                 ver'[m][w].id = ver'[m][u].id, ver'[m][w].id # 0
          PROVE  w = u
      <4>1. ver'[m][w] = ver[m][w] /\ ver'[m][u] = ver[m][u]
        BY <2>1, <3>2
      <4> QED BY <1>3, <3>2, <4>1 DEF Keys
    <3>3. \A f, g \in files'[m] : f.id = g.id /\ f.name = g.name => f = g
      BY <1>3, <1>4 DEF Keys
    <3> QED BY <3>1, <3>2, <3>3
  <2> QED BY <2>2 DEF Keys
<1>7. Owned'
  <2>1. \A m \in Nodes, w \in Versions : ver'[m][w] = ver[m][w] \/ ver'[m][w].id = 0
    BY <1>4, IdleType
  <2> QED BY <1>3, <1>4, <2>1 DEF Owned
<1>8. Handlers' /\ \A q \in Procs : OwnSound(proc[q])'
  <2>2. Handlers'
    BY <1>1, <1>3, IdleType DEF Handlers
  <2>3. ASSUME NEW q \in Procs PROVE OwnSound(proc[q])'
    <3>1. \A h \in {proc[q]} : OwnSound(h)'
      BY <1>3, OwnFrame DEF OwnInv, Handlers
    <3>2. proc'[q] = proc[q] \/ proc'[q] = Idle
      BY <1>1, <1>3 DEF Handlers
    <3> QED BY <3>1, <3>2, OwnIdle, IdleType DEF OwnSound, Owns
  <2> QED BY <2>2, <2>3
<1> QED BY <1>3, <1>5, <1>6, <1>7, <1>8 DEF OwnInv

\* A publication, which may fail.
LEMMA OwnPublish ==
  ASSUME OwnInv, NEW p \in Procs, PublishStep(p)
  PROVE  OwnInv' /\ Steady
<1> DEFINE x == Head(proc[p].todo)
           n == proc[p].node
<1>1. /\ \E y : At(p, y)
      /\ x \in {"PublishVersion", "PublishTag", "PublishTagDelete", "PublishYank"}
      /\ \E type \in {"Version", "Tag", "TagDelete", "Yank"}, dec \in BOOLEAN :
           Send(p, Object(p, type, dec))
  BY DEF PublishStep, At, PublishedVersion, NpmPublishVersion, NpmPublishTag,
         CargoPublishVersion, CargoPublishYank, PypiPublishFile, NugetPublishPackage,
         GoPublishModule
<1>2. PICK type \in {"Version", "Tag", "TagDelete", "Yank"}, dec \in BOOLEAN :
        Send(p, Object(p, type, dec))
  BY <1>1
<1>3. /\ proc[p] \in HandlerType /\ proc[p].todo # <<>> /\ n \in Nodes
      /\ proc[p].version \in Versions /\ proc[p].row \in RowType /\ OwnSound(proc[p])
  BY <1>1, AtStep
<1> DEFINE a == Object(p, type, dec)
<1>4. a \in ActivityType
  BY <1>3 DEF Object, ActivityType, HandlerType
<1> HIDE DEF a
<1>5. /\ UNCHANGED <<fmt, tables>> /\ Continue(p, proc[p].row)
      /\ lost' \in {lost, TRUE}
      /\ net' = net (+) SetToBag({a}) \/ net' = net
  BY <1>2 DEF Send, a
<1>6. IsABag(net') /\ BagToSet(net') \subseteq ActivityType
  <2>1. IsABag(net) /\ BagToSet(net) \subseteq ActivityType
    BY DEF OwnInv, Tables
  <2>2. CASE net' = net
    BY <2>1, <2>2
  <2>3. CASE net' = net (+) SetToBag({a})
    <3>1. IsABag(net') /\ BagToSet(net') = BagToSet(net) \union {a}
      BY <2>1, <2>3, BagOfOne
    <3> QED BY <1>4, <2>1, <3>1
  <2> QED BY <1>5, <2>2, <2>3
<1>7. lost' \in BOOLEAN
  BY <1>5 DEF OwnInv, Tables
<1>8. Tables' /\ Keys' /\ Owned' /\ Steady /\ pkg' = pkg
  BY <1>5, <1>6, <1>7 DEF OwnInv, Tables, Keys, Owned, Steady, tables
<1>9. x \notin OwnerChecks /\ x # "RequireVersion"
  BY <1>1 DEF OwnerChecks
<1>10. Handlers' /\ \A q \in Procs : OwnSound(proc[q])'
  <2>1. proc[p].row.id # 0 => pkg[n] # None /\ proc[p].row.by = pkg[n]
    BY <1>3 DEF OwnSound
  <2> QED BY <1>3, <1>5, <1>8, <1>9, <2>1, OwnAdvance
<1> QED BY <1>8, <1>10 DEF OwnInv

LEMMA OwnFail ==
  ASSUME OwnInv, NEW p \in Procs, Fail(p)
  PROVE  OwnInv' /\ Steady
<1>1. /\ UNCHANGED <<fmt, tables, net>> /\ lost' = TRUE /\ proc' = [proc EXCEPT ![p] = Idle]
  BY DEF Fail, Refuse
<1>2. Tables' /\ Keys' /\ Owned' /\ Steady
  BY <1>1 DEF OwnInv, Tables, Keys, Owned, Steady, tables
<1>3. Handlers /\ proc \in [Procs -> HandlerType]
  BY DEF OwnInv, Handlers
<1>4. Handlers'
  BY <1>1, <1>3, IdleType DEF Handlers
<1>5. ASSUME NEW q \in Procs PROVE OwnSound(proc[q])'
  <2>1. \A h \in {proc[q]} : OwnSound(h)'
    BY <1>2, <1>3, OwnFrame DEF OwnInv
  <2>2. proc'[q] = proc[q] \/ proc'[q] = Idle
    BY <1>1, <1>3
  <2> QED BY <2>1, <2>2, OwnIdle, IdleType DEF OwnSound, Owns
<1> QED BY <1>2, <1>4, <1>5 DEF OwnInv

LEMMA OwnInit ==
  ASSUME Init
  PROVE  OwnInv
<1>1. Tables
  <2>1. IsABag(net) /\ BagToSet(net) = {}
    BY DEF Init, EmptyBag, SetToBag, IsABag, BagToSet
  <2> QED BY <2>1, IdleType DEF Init, Tables
<1>2. Keys /\ Owned
  BY IdleType DEF Init, Keys, Owned
<1>3. Handlers
  BY IdleType DEF Init, Handlers
<1>4. OwnSound(Idle)
  BY EmptyOrdered, IdleType DEF OwnSound
<1>5. \A p \in Procs : OwnSound(proc[p])
  BY <1>4 DEF Init
<1> QED BY <1>1, <1>2, <1>3, <1>5 DEF OwnInv

LEMMA OwnInductive ==
  ASSUME OwnInv, [Next]_vars
  PROVE  OwnInv'
<1>1. ASSUME NEW p \in Procs, DatabaseStep(p) PROVE OwnInv'
  BY <1>1, OwnGetOrCreatePackage, OwnRead, OwnVersion, OwnFile, OwnTag, OwnDelete
     DEF DatabaseStep
<1>2. CASE Next
  BY <1>1, <1>2, OwnRequest, OwnIngest, OwnPublish, OwnFail DEF Next
<1>3. CASE UNCHANGED vars
  BY <1>3 DEF vars, tables, OwnInv, Tables, Handlers, Keys, Owned, OwnSound, Owns
<1> QED BY <1>2, <1>3

(***************************************************************************)
(* The tables and the goroutines keep their shape, and the tables their    *)
(* keys (package_versions, package_files of internal/database).            *)
(***************************************************************************)
THEOREM TypeCorrect == Spec => []TypeOK
<1>1. OwnInv => TypeOK
  <2>1. ASSUME OwnInv, NEW n \in Nodes, NEW v \in Versions
        PROVE  /\ ver[n][v].id \in 0..lastId[n] /\ ver[n][v].content \in Stuff
               /\ ver[n][v].id # 0 => pkg[n] # None
    BY <2>1 DEF OwnInv, Tables, Keys, Owned, RowType
  <2>2. OwnInv => \A n \in Nodes : \A f, g \in files[n] : f.id = g.id /\ f.name = g.name => f = g
    BY DEF OwnInv, Keys
  <2> QED BY <2>1, <2>2 DEF TypeOK, OwnInv, Tables, Stuff
<1> QED BY <1>1, OwnInit, OwnInductive, PTL DEF Spec

(***************************************************************************)
(* docs/federation.md, "A peer can only act on packages it owns": whatever *)
(* a node stores of a package was put there for the package's owner,       *)
(* however many publications, cache fills and ingestions run at once and   *)
(* wherever they fail.                                                     *)
(***************************************************************************)
THEOREM ContentIsOwned == Spec => []OwnedContent
<1>1. OwnInv => OwnedContent
  BY DEF OwnInv, Owned, OwnedContent, Row
<1> QED BY <1>1, OwnInit, OwnInductive, PTL DEF Spec
-----------------------------------------------------------------------------
(***************************************************************************)
(* npm and cargo claim the version before they write anything of it.       *)
(***************************************************************************)
Claiming == fmt \in {"npm", "cargo"}

HasFile(n, id, c) == \E f \in files[n] : f.id = id /\ f.name = "main" /\ f.content = c

\* What was answered with success is there, on a node that owns the package.
AckedSafe(a) ==
  /\ pkg[a.node] = a.node /\ ver[a.node][a.version].id # 0
  /\ HasFile(a.node, ver[a.node][a.version].id, a.content)

PublishSteps ==
  {"GetOrCreatePackage", "InsertPackageVersionIfNew", "PutPackageFile", "PutPackageTag",
   "PublishVersion", "PublishTag"}
Sends == {"PublishVersion", "PublishTag"}

(***************************************************************************)
(* A handler works for its own node, and writes files only for a           *)
(* publication, or it ingests on the follower what the publisher sent, and *)
(* claims nothing.                                                         *)
(***************************************************************************)
RoleOK(h) ==
  /\ Free(h.todo, {"DeletePackageVersion"})
  /\ h.todo # <<>> =>
       \/ /\ h.owner = h.node /\ Free(h.todo, {"PutPackageVersion"})
          /\ h.acks \/ Free(h.todo, {"InsertPackageVersionIfNew", "PutPackageFile", "PutModFile"})
       \/ /\ h.node = Follower /\ h.owner = Publisher /\ ~h.acks
          /\ Free(h.todo, {"InsertPackageVersionIfNew"})

(***************************************************************************)
(* A publication first claims the version, then writes the file, and only  *)
(* then sends and answers.  The row in its hands is the claim.             *)
(***************************************************************************)
Claimed(h) ==
  /\ h.row.id # 0 /\ ver[h.node][h.version].id = h.row.id /\ pkg[h.node] = h.node

PublicationOK(h) ==
  /\ h.todo # <<>> /\ h.todo[Len(h.todo)] \in Sends
  /\ Free(h.todo, Steps \ PublishSteps)
  /\ NoneAfter(h.todo, {"InsertPackageVersionIfNew"},
               {"GetOrCreatePackage", "InsertPackageVersionIfNew"})
  /\ \/ /\ h.row.id = 0
        /\ Follows(h.todo, {"InsertPackageVersionIfNew"}, {"PutPackageFile", "PutPackageTag"} \union Sends)
        /\ Follows(h.todo, {"PutPackageFile"}, Sends)
        /\ ~Free(h.todo, {"PublishVersion"})
     \/ /\ Claimed(h)
        /\ Free(h.todo, {"GetOrCreatePackage", "InsertPackageVersionIfNew"})
        /\ \/ Follows(h.todo, {"PutPackageFile"}, Sends)
           \/ HasFile(h.node, h.row.id, h.content)

Claimer(h) == h.acks /\ h.row.id # 0

ClaimInv ==
  /\ acked \subseteq [node : Nodes, version : Versions, content : Stuff]
  /\ \A a \in acked : AckedSafe(a)
  /\ \A p \in Procs : RoleOK(proc[p]) /\ (proc[p].acks => PublicationOK(proc[p]))
  /\ \A p, q \in Procs :
       p # q /\ Claimer(proc[p]) /\ Claimer(proc[q]) =>
         proc[p].node # proc[q].node \/ proc[p].version # proc[q].version
  /\ \A a \in acked, p \in Procs :
       Claimer(proc[p]) => a.node # proc[p].node \/ a.version # proc[p].version

\* A version row, once there, keeps its id.
KeepIds ==
  \A n \in Nodes, v \in Versions : ver[n][v].id # 0 => ver'[n][v].id = ver[n][v].id

\* One that is new has an id that was never given out.
FreshIds ==
  \A n \in Nodes :
    /\ lastId[n] <= lastId'[n]
    /\ \A v \in Versions : ver'[n][v].id = ver[n][v].id \/ ver'[n][v].id > lastId[n]

LEMMA NodesKnown ==
  \A n \in Nodes : n # None
BY PackagesAssumption

\* A publication that does not move.
LEMMA PublicationFrame ==
  ASSUME NEW h \in HandlerType, h.version \in Versions, PublicationOK(h), Steady, KeepIds,
         HasFile(h.node, h.row.id, h.content) => HasFile(h.node, h.row.id, h.content)'
  PROVE  PublicationOK(h)'
<1>1. h.node \in Nodes /\ h.node # None
  BY NodesKnown DEF HandlerType
<1>2. Claimed(h) => Claimed(h)'
  BY <1>1 DEF Claimed, Steady, KeepIds
<1> QED BY <1>2 DEF PublicationOK

\* A publication that takes a step and has more to do.
LEMMA PublicationLater ==
  ASSUME NEW h \in HandlerType, h.todo # <<>>, Tail(h.todo) # <<>>, h.version \in Versions,
         PublicationOK(h), NEW row \in RowType, Steady, KeepIds,
         Head(h.todo) = "GetOrCreatePackage" => row.id = 0,
         Head(h.todo) = "InsertPackageVersionIfNew" =>
           row.id # 0 /\ ver'[h.node][h.version].id = row.id /\ pkg'[h.node] = h.node,
         Head(h.todo) \in {"PutPackageFile", "PutPackageTag"} \union Sends => row = h.row,
         Head(h.todo) = "PutPackageFile" \/ HasFile(h.node, h.row.id, h.content) =>
           HasFile(h.node, h.row.id, h.content)'
  PROVE  PublicationOK(Later(h, row))'
<1> DEFINE g == Later(h, row)
           s == h.todo
           x == Head(h.todo)
           Ins == {"InsertPackageVersionIfNew"}
           Rest == {"PutPackageFile", "PutPackageTag"} \union Sends
           Early == {"GetOrCreatePackage", "InsertPackageVersionIfNew"}
<1>1. /\ g.todo = Tail(s) /\ g.row = row /\ g.node = h.node /\ g.version = h.version
      /\ g.content = h.content /\ s \in Seq(Steps) /\ s # <<>> /\ h.node \in Nodes
      /\ h.node # None
  BY NodesKnown DEF Later, HandlerType
<1> HIDE DEF g
<1>2. g.todo # <<>> /\ g.todo[Len(g.todo)] \in Sends
  <2>1. /\ Tail(s) \in Seq(Steps) /\ Len(s) \in Nat \ {0} /\ Len(Tail(s)) = Len(s) - 1
        /\ \A i \in 1..Len(s) - 1 : Tail(s)[i] = s[i + 1]
    BY <1>1, TailOf
  <2>2. Len(Tail(s)) # 0
    BY <2>1, TailOf
  <2>3. Tail(s)[Len(s) - 1] = s[Len(s)]
    BY <2>1, <2>2
  <2> QED BY <1>1, <2>1, <2>3 DEF PublicationOK
<1>3. Free(g.todo, Steps \ PublishSteps) /\ x \in PublishSteps
  <2>1. x \in Steps
    BY <1>1, TailOf
  <2> QED BY <1>1, <2>1, FreeTail DEF PublicationOK
<1>4. NoneAfter(g.todo, Ins, Early) /\ (x \in Ins => Free(g.todo, Early))
  BY <1>1, NoneAfterTail DEF PublicationOK
<1>5. Claimed(h) => pkg'[h.node] = h.node /\ ver'[h.node][h.version].id = h.row.id
  BY <1>1 DEF Claimed, Steady, KeepIds
<1>6. x \in Early \union Rest
  BY <1>3 DEF PublishSteps, Sends
<1>7. CASE /\ h.row.id = 0 /\ Follows(s, Ins, Rest)
           /\ Follows(s, {"PutPackageFile"}, Sends) /\ ~Free(s, {"PublishVersion"})
  <2>1. x \notin Rest /\ Follows(g.todo, {"PutPackageFile"}, Sends)
    <3>1. x \notin Rest
      BY <1>1, <1>7, FollowsTail
    <3> QED BY <1>1, <1>7, <3>1, FollowsTail
  <2>2. CASE x = "GetOrCreatePackage"
    <3>1. row.id = 0 /\ Follows(g.todo, Ins, Rest)
      BY <1>1, <1>7, <2>2, FollowsTail
    <3>2. ~Free(g.todo, {"PublishVersion"})
      <4>1. PICK i \in 1..Len(s) : s[i] = "PublishVersion"
        BY <1>7 DEF Free
      <4>2. i # 1 /\ i - 1 \in 1..Len(g.todo) /\ g.todo[i - 1] = s[i]
        BY <1>1, <2>2, <4>1, TailOf
      <4> QED BY <4>1, <4>2 DEF Free
    <3> QED BY <1>1, <1>2, <1>3, <1>4, <2>1, <3>1, <3>2 DEF PublicationOK, g
  <2>3. CASE x = "InsertPackageVersionIfNew"
    <3>1. Claimed(g)' /\ Free(g.todo, Early)
      BY <1>1, <1>4, <2>3 DEF Claimed, g
    <3> QED BY <1>1, <1>2, <1>3, <1>4, <2>1, <3>1 DEF PublicationOK, g
  <2> QED BY <1>6, <2>1, <2>2, <2>3
<1>8. CASE /\ Claimed(h) /\ Free(s, Early)
           /\ Follows(s, {"PutPackageFile"}, Sends) \/ HasFile(h.node, h.row.id, h.content)
  <2>1. x \notin Early /\ Free(g.todo, Early)
    BY <1>1, <1>8, FreeTail
  <2>2. row = h.row
    BY <1>6, <2>1
  <2>3. Claimed(g)'
    BY <1>1, <1>5, <1>8, <2>2 DEF Claimed, g
  <2>4. Follows(g.todo, {"PutPackageFile"}, Sends) \/ HasFile(g.node, g.row.id, g.content)'
    BY <1>1, <1>8, <2>2, FollowsTail DEF g
  <2> QED BY <1>1, <1>2, <1>3, <1>4, <2>1, <2>3, <2>4 DEF PublicationOK, g
<1> QED BY <1>7, <1>8 DEF PublicationOK

\* What a publication has done when it reaches its last step.
LEMMA PublicationEnds ==
  ASSUME NEW h \in HandlerType, h.todo # <<>>, PublicationOK(h), Head(h.todo) \in Sends
  PROVE  Claimed(h) /\ HasFile(h.node, h.row.id, h.content)
<1>1. h.todo \in Seq(Steps)
  BY DEF HandlerType
<1>2. /\ ~Follows(h.todo, {"PutPackageFile"}, Sends)
  BY <1>1, FollowsTail
<1> QED BY <1>2 DEF PublicationOK

(***************************************************************************)
(* A handler takes a step that replaces no file but, when it is at         *)
(* PutPackageFile, the one of the row in its hands.  That one is of nobody *)
(* else: another publication has another row, and a peer's version is only *)
(* written where the peer owns the package.                                *)
(***************************************************************************)
LEMMA ReplacesOwnFile ==
  ASSUME OwnInv, ClaimInv, NEW p \in Procs, At(p, "PutPackageFile")
  PROVE  /\ \A a \in acked :
              a.node = proc[p].node => ver[a.node][a.version].id # proc[p].row.id
         /\ \A q \in Procs :
              q # p /\ proc[q].acks /\ Claimed(proc[q]) /\ proc[q].node = proc[p].node =>
                proc[q].row.id # proc[p].row.id
<1> DEFINE h == proc[p]
<1>1. /\ h \in HandlerType /\ h.todo # <<>> /\ Head(h.todo) = "PutPackageFile"
      /\ h.node \in Nodes /\ h.version \in Versions /\ OwnSound(h) /\ h.todo \in Seq(Steps)
  BY AtStep DEF HandlerType
<1>2. RoleOK(h) /\ (h.acks => PublicationOK(h)) /\ Keys
  BY DEF ClaimInv, OwnInv
<1>3. ~Free(h.todo, {"InsertPackageVersionIfNew", "PutPackageFile", "PutModFile"})
  BY <1>1, FreeTail
<1>4. ASSUME NEW n \in Nodes, NEW v \in Versions, NEW w \in Versions,
             ver[n][v].id = ver[n][w].id, ver[n][v].id # 0
      PROVE  v = w
  BY <1>2, <1>4 DEF Keys
<1>5. CASE h.acks
  <2>1. Claimed(h)
    <3>1. ~Follows(h.todo, {"InsertPackageVersionIfNew"}, {"PutPackageFile", "PutPackageTag"} \union Sends)
      BY <1>1, FollowsTail
    <3> QED BY <1>2, <1>5, <3>1 DEF PublicationOK
  <2>2. Claimer(h)
    BY <1>5, <2>1 DEF Claimer, Claimed
  <2>3. ASSUME NEW a \in acked, a.node = h.node PROVE ver[a.node][a.version].id # h.row.id
    <3>1. a.version \in Versions /\ a.version # h.version
      BY <2>2, <2>3 DEF ClaimInv
    <3> QED BY <1>1, <1>4, <2>1, <2>3, <3>1 DEF Claimed
  <2>4. ASSUME NEW q \in Procs, q # p, proc[q].acks, Claimed(proc[q]), proc[q].node = h.node
        PROVE  proc[q].row.id # h.row.id
    <3>1. Claimer(proc[q])
      BY <2>4 DEF Claimer, Claimed
    <3>2. proc[q].version # h.version
      BY <2>2, <2>4, <3>1 DEF ClaimInv
    <3>3. proc[q].version \in Versions
      BY <2>4 DEF ClaimInv, OwnInv, Handlers, PublicationOK
    <3> QED BY <1>1, <1>4, <2>1, <2>4, <3>2, <3>3 DEF Claimed
  <2> QED BY <2>3, <2>4
<1>6. CASE ~h.acks
  <2>1. h.node = Follower /\ h.owner = Publisher
    BY <1>1, <1>2, <1>3, <1>6 DEF RoleOK
  <2>2. pkg[Follower] = Publisher
    BY <1>1, <2>1, FollowsTail DEF OwnSound, Owns, Writes
  <2> QED BY <2>1, <2>2, PackagesAssumption DEF ClaimInv, AckedSafe, Claimed
<1> QED BY <1>5, <1>6

LEMMA RoleLater ==
  ASSUME NEW h \in HandlerType, h.todo # <<>>, RoleOK(h), NEW row
  PROVE  RoleOK(Later(h, row))
<1> DEFINE g == Later(h, row)
<1>1. /\ g.todo = Tail(h.todo) /\ g.owner = h.owner /\ g.node = h.node /\ g.acks = h.acks
      /\ h.todo \in Seq(Steps)
  BY DEF Later, HandlerType
<1>2. \A Z : Free(h.todo, Z) => Free(g.todo, Z)
  BY <1>1, FreeTail
<1> HIDE DEF g
<1>3. RoleOK(g)
  BY <1>1, <1>2 DEF RoleOK
<1> QED BY <1>3 DEF g

LEMMA ClaimStep ==
  ASSUME OwnInv, ClaimInv, Steady, KeepIds, NEW p \in Procs, NEW x, At(p, x), NEW row \in RowType,
         \/ Refuse(p)
         \/ /\ Continue(p, row)
            /\ proc[p].acks =>
                 /\ x = "GetOrCreatePackage" => row.id = 0
                 /\ x = "InsertPackageVersionIfNew" =>
                      /\ ver[proc[p].node][proc[p].version].id = 0
                      /\ row.id # 0 /\ ver'[proc[p].node][proc[p].version].id = row.id
                 /\ x \in {"PutPackageFile", "PutPackageTag"} \union Sends => row = proc[p].row
                 /\ x = "PutPackageFile" =>
                      \A g \in {proc[p]} : HasFile(g.node, g.row.id, g.content)',
         \A n \in Nodes, id \in Nat, c \in Stuff :
           HasFile(n, id, c) =>
             HasFile(n, id, c)' \/ (x = "PutPackageFile" /\ n = proc[p].node /\ id = proc[p].row.id)
  PROVE  ClaimInv'
<1> DEFINE h == proc[p]
<1>1. /\ h \in HandlerType /\ h.todo # <<>> /\ Head(h.todo) = x /\ h.todo \in Seq(Steps)
      /\ h.node \in Nodes /\ h.node # None /\ h.version \in Versions /\ h.content \in Stuff
      /\ h.row \in RowType /\ h.row.id \in Nat /\ OwnSound(h)
  BY AtStep, NodesKnown DEF HandlerType, RowType
<1>2. /\ Handlers /\ proc \in [Procs -> HandlerType] /\ Tables /\ Keys
      /\ RoleOK(h) /\ (h.acks => PublicationOK(h))
  BY DEF OwnInv, Handlers, ClaimInv
<1>3. /\ Handlers'
      /\ \A q \in Procs \ {p} : proc'[q] = proc[q]
      /\ proc'[p] = Idle \/ proc'[p] = Later(h, row)
  BY <1>1, <1>2, Advance
<1> DEFINE new == [node |-> h.node, version |-> h.version, content |-> h.content]
<1>4. /\ acked' = acked \/ (h.acks /\ Tail(h.todo) = <<>> /\ acked' = acked \union {new})
      /\ acked' # acked => proc'[p] = Idle
  BY <1>1, <1>2 DEF Continue, Refuse, Handlers
<1>5. ~Refuse(p) /\ Tail(h.todo) # <<>> => proc'[p] = Later(h, row)
  BY <1>1, <1>2 DEF Continue, Later, Handlers, HandlerType
<1>6. Tail(h.todo) = <<>> \/ Refuse(p) => proc'[p] = Idle
  BY <1>1, <1>2 DEF Continue, Refuse, Handlers
<1>7. Idle.acks = FALSE /\ RoleOK(Idle)
  BY EmptyOrdered, IdleType DEF Idle, RoleOK
\* What was answered before.
<1>8. ASSUME NEW a \in acked PROVE AckedSafe(a)'
  <2>1. /\ a.node \in Nodes /\ a.node # None /\ a.version \in Versions /\ a.content \in Stuff
        /\ AckedSafe(a) /\ ver[a.node][a.version].id \in Nat
    BY <1>2, NodesKnown DEF ClaimInv, Tables, RowType
  <2>2. pkg'[a.node] = a.node /\ ver'[a.node][a.version].id = ver[a.node][a.version].id
    BY <2>1 DEF AckedSafe, Steady, KeepIds
  <2>3. ~(x = "PutPackageFile" /\ a.node = h.node /\ ver[a.node][a.version].id = h.row.id)
    BY ReplacesOwnFile
  <2>4. HasFile(a.node, ver[a.node][a.version].id, a.content)
    BY <2>1 DEF AckedSafe
  <2>5. \A id \in {ver[a.node][a.version].id} : HasFile(a.node, id, a.content)'
    BY <2>1, <2>3, <2>4
  <2>6. HasFile(a.node, ver[a.node][a.version].id, a.content)'
    BY <2>2, <2>5
  <2> QED BY <2>1, <2>2, <2>6 DEF AckedSafe
\* The other publications.
<1>9. ASSUME NEW q \in Procs, q # p, proc[q].acks PROVE PublicationOK(proc[q])'
  <2> DEFINE g == proc[q]
  <2>1. /\ g \in HandlerType /\ PublicationOK(g) /\ g.version \in Versions /\ g.node \in Nodes
        /\ g.row.id \in Nat /\ g.content \in Stuff
    BY <1>2, <1>9 DEF ClaimInv, Handlers, PublicationOK, HandlerType, RowType
  <2>2. CASE Claimed(g)
    <3>1. ~(x = "PutPackageFile" /\ g.node = h.node /\ g.row.id = h.row.id)
      BY <1>9, <2>2, ReplacesOwnFile
    <3>2. \A k \in {g} : HasFile(k.node, k.row.id, k.content) => HasFile(k.node, k.row.id, k.content)'
      BY <2>1, <3>1
    <3>3. \A k \in {g} : PublicationOK(k)'
      BY <2>1, <3>2, PublicationFrame
    <3> QED BY <1>3, <1>9, <3>3 DEF PublicationOK, Claimed, HasFile
  <2>3. CASE ~Claimed(g)
    <3>1. \A k \in {g} : PublicationOK(k)'
      BY <2>1, <2>3 DEF PublicationOK
    <3> QED BY <1>3, <1>9, <3>1 DEF PublicationOK, Claimed, HasFile
  <2> QED BY <2>2, <2>3
\* This publication, if it has more to do.
<1>10. ASSUME h.acks, proc'[p] # Idle PROVE PublicationOK(proc[p])'
  <2>1. ~Refuse(p) /\ Tail(h.todo) # <<>> /\ proc'[p] = Later(h, row)
    BY <1>5, <1>6, <1>10
  <2>2. x = "InsertPackageVersionIfNew" => pkg'[h.node] = h.node
    <3>1. ASSUME x = "InsertPackageVersionIfNew" PROVE h.owner = pkg[h.node]
      BY <1>1, <3>1, FollowsTail DEF OwnSound, Owns, Writes
    <3>2. h.owner = h.node
      BY <1>1, <1>2, <1>10 DEF RoleOK
    <3> QED BY <1>1, <3>1, <3>2 DEF Steady
  <2>3. \A g \in {h} : x = "PutPackageFile" \/ HasFile(g.node, g.row.id, g.content) =>
                         HasFile(g.node, g.row.id, g.content)'
    BY <1>1, <1>10, <2>1
  <2>4. \A g \in {h} : PublicationOK(Later(g, row))'
    BY <1>1, <1>2, <1>10, <2>1, <2>2, <2>3, PublicationLater
  <2> QED BY <2>1, <2>4 DEF PublicationOK, Claimed, HasFile, Later
\* What is answered now.
<1>11. ASSUME h.acks, Tail(h.todo) = <<>> PROVE Claimer(h) /\ \A a \in {new} : AckedSafe(a)'
  <2>1. Len(h.todo) = 1 /\ x = h.todo[1]
    <3>1. Len(h.todo) \in Nat /\ Len(Tail(h.todo)) = Len(h.todo) - 1 /\ Head(h.todo) = h.todo[1]
      BY <1>1, TailOf
    <3> QED BY <1>1, <1>11, <3>1, LastStep
  <2>2. x \in Sends
    BY <1>2, <1>11, <2>1 DEF PublicationOK
  <2>3. Claimed(h) /\ HasFile(h.node, h.row.id, h.content)
    BY <1>1, <1>2, <1>11, <2>2, PublicationEnds
  <2>4. x # "PutPackageFile"
    BY <2>2 DEF Sends
  <2>5. \A g \in {h} : HasFile(g.node, g.row.id, g.content)'
    BY <1>1, <2>3, <2>4
  <2>6. pkg'[h.node] = h.node /\ ver'[h.node][h.version].id = h.row.id /\ h.row.id # 0
    BY <1>1, <2>3 DEF Claimed, Steady, KeepIds
  <2>7. \A a \in {new} : AckedSafe(a)'
    BY <2>5, <2>6 DEF AckedSafe, HasFile
  <2> QED BY <1>11, <2>3, <2>7 DEF Claimer, Claimed
<1>12. /\ acked' \subseteq [node : Nodes, version : Versions, content : Stuff]
       /\ \A a \in acked' : AckedSafe(a)'
  <2>1. acked \subseteq [node : Nodes, version : Versions, content : Stuff]
    BY DEF ClaimInv
  <2>2. new \in [node : Nodes, version : Versions, content : Stuff]
    BY <1>1
  <2> HIDE DEF new
  <2> QED BY <1>4, <1>8, <1>11, <2>1, <2>2
<1>13. ASSUME NEW q \in Procs PROVE RoleOK(proc[q])' /\ (proc'[q].acks => PublicationOK(proc[q])')
  <2>1. CASE q # p
    BY <1>3, <1>9, <2>1 DEF ClaimInv, RoleOK
  <2>2. CASE q = p /\ proc'[p] = Idle
    BY <1>7, <2>2 DEF RoleOK
  <2>3. CASE q = p /\ proc'[p] # Idle
    <3>1. proc'[p] = Later(h, row) /\ RoleOK(Later(h, row)) /\ proc'[p].acks = h.acks
      BY <1>1, <1>2, <1>3, <2>3, RoleLater DEF Later, HandlerType
    <3> QED BY <1>10, <2>3, <3>1 DEF RoleOK
  <2> QED BY <2>1, <2>2, <2>3
<1>14. ASSUME NEW q \in Procs, Claimer(proc[q])'
       PROVE  /\ proc'[q].node = proc[q].node /\ proc'[q].version = proc[q].version
              /\ proc'[q] # Idle
              /\ Claimer(proc[q]) \/ (q = p /\ ver[h.node][h.version].id = 0)
  <2>1. CASE q # p
    BY <1>3, <1>7, <1>14, <2>1 DEF Claimer
  <2>2. CASE q = p
    <3>1. proc'[p] # Idle
      BY <1>7, <1>14, <2>2 DEF Claimer
    <3>2. /\ proc'[p] = Later(h, row) /\ ~Refuse(p)
      BY <1>3, <1>6, <3>1
    <3>3. /\ proc'[p].node = h.node /\ proc'[p].version = h.version /\ proc'[p].acks = h.acks
          /\ proc'[p].row = row
      BY <1>1, <3>2 DEF Later, HandlerType
    <3>4. h.acks /\ row.id # 0
      BY <1>14, <2>2, <3>3 DEF Claimer
    <3>5. x \in PublishSteps
      <4>1. x \in Steps /\ x \notin Steps \ PublishSteps
        BY <1>1, <1>2, <3>4, TailOf, FreeTail DEF PublicationOK
      <4> QED BY <4>1
    <3>6. h.row.id # 0 \/ ver[h.node][h.version].id = 0
      BY <3>2, <3>4, <3>5 DEF PublishSteps, Sends
    <3> QED BY <2>2, <3>1, <3>3, <3>4, <3>6 DEF Claimer
  <2> QED BY <2>1, <2>2
\* A version that is claimed now was not there, and so nobody's.
<1>15. ASSUME NEW q \in Procs, q # p, Claimer(proc[q])
       PROVE  proc[q].version \in Versions /\ proc[q].node \in Nodes
              /\ ver[proc[q].node][proc[q].version].id # 0
  BY <1>2, <1>15 DEF Claimer, ClaimInv, PublicationOK, Claimed, Handlers, HandlerType
<1>16. ASSUME NEW q \in Procs, NEW r \in Procs, q # r, Claimer(proc[q])', Claimer(proc[r])'
       PROVE  proc'[q].node # proc'[r].node \/ proc'[q].version # proc'[r].version
  <2>1. /\ proc'[q].node = proc[q].node /\ proc'[q].version = proc[q].version
        /\ proc'[r].node = proc[r].node /\ proc'[r].version = proc[r].version
        /\ Claimer(proc[q]) \/ (q = p /\ ver[h.node][h.version].id = 0)
        /\ Claimer(proc[r]) \/ (r = p /\ ver[h.node][h.version].id = 0)
    BY <1>14, <1>16
  <2>2. CASE Claimer(proc[q]) /\ Claimer(proc[r])
    BY <1>16, <2>1, <2>2 DEF ClaimInv
  <2>3. CASE q = p /\ ver[h.node][h.version].id = 0
    BY <1>15, <1>16, <2>1, <2>3
  <2>4. CASE r = p /\ ver[h.node][h.version].id = 0
    BY <1>15, <1>16, <2>1, <2>4
  <2> QED BY <2>1, <2>2, <2>3, <2>4
<1>17. ASSUME NEW a \in acked', NEW q \in Procs, Claimer(proc[q])'
       PROVE  a.node # proc'[q].node \/ a.version # proc'[q].version
  <2>1. /\ proc'[q].node = proc[q].node /\ proc'[q].version = proc[q].version
        /\ proc'[q] # Idle
        /\ Claimer(proc[q]) \/ (q = p /\ ver[h.node][h.version].id = 0)
    BY <1>14, <1>17
  <2>2. CASE a \in acked
    <3>1. ver[a.node][a.version].id # 0
      BY <2>2 DEF ClaimInv, AckedSafe
    <3> QED BY <2>1, <2>2, <3>1 DEF ClaimInv
  <2>3. CASE a \notin acked
    <3>1. a = new /\ proc'[p] = Idle /\ h.acks /\ Tail(h.todo) = <<>>
      BY <1>4, <1>17, <2>3
    <3>2. Claimer(h) /\ q # p /\ Claimer(proc[q])
      BY <1>11, <2>1, <3>1
    <3>3. h.node # proc[q].node \/ h.version # proc[q].version
      BY <3>2 DEF ClaimInv
    <3> QED BY <2>1, <3>1, <3>3
  <2> QED BY <2>2, <2>3
<1> QED BY <1>12, <1>13, <1>16, <1>17 DEF ClaimInv

\* A handler that begins or is broken off.
LEMMA ClaimReplace ==
  ASSUME OwnInv, ClaimInv, UNCHANGED <<pkg, ver, files, acked>>,
         NEW p \in Procs, NEW h \in HandlerType, proc' = [proc EXCEPT ![p] = h],
         RoleOK(h), h.acks => PublicationOK(h), h.row = NoRow
  PROVE  ClaimInv'
<1>1. proc \in [Procs -> HandlerType]
  BY DEF OwnInv, Handlers
<1>2. proc'[p] = h /\ \A q \in Procs \ {p} : proc'[q] = proc[q]
  BY <1>1
<1>3. \A a \in acked' : AckedSafe(a)'
  BY DEF ClaimInv, AckedSafe, HasFile
<1>4. ASSUME NEW q \in Procs PROVE RoleOK(proc[q])' /\ (proc'[q].acks => PublicationOK(proc[q])')
  <2>1. CASE q = p
    <3>1. RoleOK(proc[q])'
      BY <1>2, <2>1 DEF RoleOK
    <3>2. h.acks => PublicationOK(h)'
      BY DEF PublicationOK, Claimed, HasFile
    <3>3. PublicationOK(h)' => PublicationOK(proc[q])'
      BY <1>2, <2>1 DEF PublicationOK, Claimed, HasFile
    <3>4. proc'[q].acks = h.acks
      BY <1>2, <2>1
    <3> QED BY <3>1, <3>2, <3>3, <3>4, Zenon
  <2>2. CASE q # p
    <3>1. RoleOK(proc[q])'
      BY <1>2, <2>2 DEF ClaimInv, RoleOK
    <3>2. PublicationOK(proc[q]) => PublicationOK(proc[q])'
      BY <1>2, <2>2 DEF PublicationOK, Claimed, HasFile
    <3>3. proc[q].acks => PublicationOK(proc[q])
      BY DEF ClaimInv
    <3>4. proc'[q].acks = proc[q].acks
      BY <1>2, <2>2
    <3> QED BY <3>1, <3>2, <3>3, <3>4, Zenon
  <2> QED BY <2>1, <2>2
<1>5. ASSUME NEW q \in Procs, Claimer(proc[q])' PROVE q # p /\ Claimer(proc[q]) /\ proc'[q] = proc[q]
  BY <1>2, <1>5, IdleType DEF Claimer
<1> QED BY <1>3, <1>4, <1>5 DEF ClaimInv

(***************************************************************************)
(* The handlers of npm and cargo: those of a publication claim, write and  *)
(* then send, and the others do not claim.                                 *)
(***************************************************************************)
Publishable(s) ==
  /\ s # <<>> /\ s[Len(s)] \in Sends
  /\ Free(s, Steps \ PublishSteps)
  /\ NoneAfter(s, {"InsertPackageVersionIfNew"},
               {"GetOrCreatePackage", "InsertPackageVersionIfNew"})
  /\ Follows(s, {"InsertPackageVersionIfNew"}, {"PutPackageFile", "PutPackageTag"} \union Sends)
  /\ Follows(s, {"PutPackageFile"}, Sends)
  /\ ~Free(s, {"PublishVersion"})

LEMMA HandlersPublishable ==
  Publishable(NpmPublish) /\ Publishable(CargoPublish)
<1> USE DEF Publishable, Follows, NoneAfter, Free, Sends, PublishSteps
<1>1. Publishable(NpmPublish)
  BY DEF NpmPublish
<1>2. Publishable(CargoPublish)
  BY DEF CargoPublish
<1> QED BY <1>1, <1>2

LocalOnly == {"InsertPackageVersionIfNew", "PutPackageFile", "PutModFile", "PutPackageVersion",
              "DeletePackageVersion"}
PeerNever == {"InsertPackageVersionIfNew", "DeletePackageVersion"}

LEMMA HandlersClaimless ==
  /\ Free(NpmDistTagPut, LocalOnly) /\ Free(NpmDistTagDelete, LocalOnly)
  /\ Free(CargoSetYanked, LocalOnly)
  /\ Free(NpmIngestVersion, PeerNever) /\ Free(NpmUpsertTag, PeerNever)
  /\ Free(NpmDeleteTag, PeerNever)
  /\ Free(CargoIngestVersion, PeerNever) /\ Free(CargoApplyYank, PeerNever)
<1> USE DEF Free, LocalOnly, PeerNever
<1>1. Free(NpmDistTagPut, LocalOnly) /\ Free(NpmDistTagDelete, LocalOnly)
  BY DEF NpmDistTagPut, NpmDistTagDelete
<1>2. Free(CargoSetYanked, LocalOnly)
  BY DEF CargoSetYanked
<1>3. Free(NpmIngestVersion, PeerNever) /\ Free(NpmUpsertTag, PeerNever)
  BY DEF NpmIngestVersion, NpmUpsertTag
<1>4. Free(NpmDeleteTag, PeerNever) /\ Free(CargoIngestVersion, PeerNever)
  BY DEF NpmDeleteTag, CargoIngestVersion
<1>5. Free(CargoApplyYank, PeerNever)
  BY DEF CargoApplyYank
<1> QED BY ONLY <1>1, <1>2, <1>3, <1>4, <1>5

LEMMA FreeSubset ==
  ASSUME NEW s, NEW Y, NEW Z, Free(s, Z), Y \subseteq Z
  PROVE  Free(s, Y)
BY DEF Free

LEMMA ClaimRequest ==
  ASSUME OwnInv, Claiming, ClaimInv, NEW p \in Procs, Request(p)
  PROVE  ClaimInv'
<1>1. PICK h \in HandlerType : Starts(p, h) /\ Requested(h)
  BY RequestHandler
<1>2. \/ h.owner = h.node /\ h.acks /\ Publishable(h.todo)
      \/ h.owner = h.node /\ ~h.acks /\ Free(h.todo, LocalOnly)
  BY <1>1, HandlersPublishable, HandlersClaimless DEF Requested, Claiming, PublishHandler
<1>3. CASE h.owner = h.node /\ h.acks /\ Publishable(h.todo)
  <2>1. PublicationOK(h)
    BY <1>1, <1>3, IdleType DEF PublicationOK, Publishable, Starts
  <2>2. RoleOK(h)
    <3>1. {"DeletePackageVersion"} \subseteq Steps \ PublishSteps
          /\ {"PutPackageVersion"} \subseteq Steps \ PublishSteps
      BY DEF Steps, PublishSteps
    <3>2. Free(h.todo, {"DeletePackageVersion"}) /\ Free(h.todo, {"PutPackageVersion"})
      BY <1>3, <3>1, FreeSubset DEF Publishable
    <3> QED BY <1>3, <3>2 DEF RoleOK
  <2> QED BY <1>1, <2>1, <2>2, ClaimReplace DEF Starts, tables
<1>4. CASE h.owner = h.node /\ ~h.acks /\ Free(h.todo, LocalOnly)
  <2>1. RoleOK(h)
    <3>1. /\ {"DeletePackageVersion"} \subseteq LocalOnly /\ {"PutPackageVersion"} \subseteq LocalOnly
          /\ {"InsertPackageVersionIfNew", "PutPackageFile", "PutModFile"} \subseteq LocalOnly
      BY DEF LocalOnly
    <3>2. /\ Free(h.todo, {"DeletePackageVersion"}) /\ Free(h.todo, {"PutPackageVersion"})
          /\ Free(h.todo, {"InsertPackageVersionIfNew", "PutPackageFile", "PutModFile"})
      BY <1>4, <3>1, FreeSubset
    <3> QED BY <1>4, <3>2 DEF RoleOK
  <2> QED BY <1>1, <1>4, <2>1, ClaimReplace DEF Starts, tables
<1> QED BY <1>2, <1>3, <1>4

LEMMA ClaimIngest ==
  ASSUME OwnInv, Claiming, ClaimInv, NEW p \in Procs, Ingest(p)
  PROVE  ClaimInv'
<1>1. PICK a \in BagToSet(net), h \in HandlerType :
        /\ Ingested(a, h) /\ proc' = [proc EXCEPT ![p] = h]
        /\ UNCHANGED <<fmt, tables, acked, lost>>
  BY IngestHandlerOf DEF OwnInv
<1>2. Free(IngestHandler, PeerNever)
  BY HandlersClaimless DEF IngestHandler, Claiming
<1>3. Free(h.todo, PeerNever)
  BY <1>1, <1>2, HandlersClaimless DEF Ingested
<1>4. RoleOK(h)
  <2>1. /\ {"DeletePackageVersion"} \subseteq PeerNever
        /\ {"InsertPackageVersionIfNew"} \subseteq PeerNever
    BY DEF PeerNever
  <2>2. Free(h.todo, {"DeletePackageVersion"}) /\ Free(h.todo, {"InsertPackageVersionIfNew"})
    BY <1>3, <2>1, FreeSubset
  <2> QED BY <1>1, <2>2 DEF RoleOK, Ingested
<1> QED BY <1>1, <1>4, ClaimReplace DEF Ingested, tables

LEMMA ClaimFail ==
  ASSUME OwnInv, ClaimInv, NEW p \in Procs, Fail(p)
  PROVE  ClaimInv'
<1>1. /\ proc' = [proc EXCEPT ![p] = Idle] /\ UNCHANGED <<pkg, ver, files, acked>>
  BY DEF Fail, Refuse, tables
<1>2. Idle.acks = FALSE /\ RoleOK(Idle) /\ Idle.row = NoRow /\ Idle \in HandlerType
  BY EmptyOrdered, IdleType DEF Idle, RoleOK
<1> QED BY <1>1, <1>2, ClaimReplace

LEMMA FilesUntouched ==
  ASSUME UNCHANGED files
  PROVE  \A n, id, c : HasFile(n, id, c) => HasFile(n, id, c)'
BY DEF HasFile

LEMMA ClaimGetOrCreatePackage ==
  ASSUME OwnInv, ClaimInv, NEW p \in Procs, GetOrCreatePackage(p)
  PROVE  ClaimInv'
<1>1. /\ At(p, "GetOrCreatePackage") /\ UNCHANGED <<ver, files>>
      /\ Refuse(p) \/ Continue(p, NoRow)
  BY DEF GetOrCreatePackage, Guard
<1>2. Steady /\ KeepIds /\ NoRow \in RowType /\ NoRow.id = 0
  BY <1>1, OwnGetOrCreatePackage, IdleType DEF KeepIds
<1>3. "GetOrCreatePackage" \notin {"PutPackageFile", "PutPackageTag"} \union Sends
  BY DEF Sends
<1> QED BY <1>1, <1>2, <1>3, FilesUntouched, ClaimStep

LEMMA ClaimRead ==
  ASSUME OwnInv, ClaimInv, NEW p \in Procs, Read(p) \/ DecodeMeta(p)
  PROVE  ClaimInv'
<1> DEFINE row == Row(proc[p].node, proc[p].version)
           Reads == {"GetPackage", "LookupOwnedPackage", "GetPackageVersion", "RequireVersion",
                     "RefuseExisting", "SkipIfYanked", "RefuseExistingFile", "DecodeMeta"}
<1>1. UNCHANGED <<ver, files>>
  BY DEF Read, DecodeMeta, tables
<1>2. PICK x \in Reads, r \in {NoRow, row, proc[p].row} :
        At(p, x) /\ (Refuse(p) \/ Continue(p, r))
  BY DEF Read, DecodeMeta, Guard
<1>3. /\ proc[p].node \in Nodes /\ proc[p].version \in Versions /\ proc[p].row \in RowType
  BY <1>2, AtStep
<1>4. r \in RowType
  BY <1>2, <1>3, IdleType DEF OwnInv, Tables, Row
<1>5. /\ x \notin {"PutPackageFile", "PutPackageTag"} \union Sends
      /\ x # "GetOrCreatePackage" /\ x # "InsertPackageVersionIfNew" /\ x # "PutPackageFile"
  BY DEF Sends
<1>6. Steady /\ KeepIds
  BY <1>1, OwnRead DEF KeepIds
<1> QED BY <1>1, <1>2, <1>4, <1>5, <1>6, FilesUntouched, ClaimStep

LEMMA VersionKeepsIds ==
  ASSUME OwnInv, NEW p \in Procs, InsertPackageVersionIfNew(p) \/ PutPackageVersion(p)
  PROVE  /\ KeepIds /\ FreshIds /\ UNCHANGED <<fmt, pkg, files, tag, net, lost>>
         /\ \E x \in {"InsertPackageVersionIfNew", "PutPackageVersion", "PutVersionIfNil",
                       "WriteYank"},
               r \in RowType :
              /\ At(p, x)
              /\ \/ Refuse(p) /\ UNCHANGED ver /\ x = "InsertPackageVersionIfNew"
                 \/ /\ Continue(p, r)
                    /\ r \in {ver'[proc[p].node][proc[p].version], proc[p].row, NoRow}
                    /\ x = "PutVersionIfNil" => r.id # 0
                    /\ x \in {"InsertPackageVersionIfNew", "PutPackageVersion"} =>
                         r = ver'[proc[p].node][proc[p].version] /\ r.id # 0
                    /\ x = "InsertPackageVersionIfNew" =>
                         ver[proc[p].node][proc[p].version].id = 0
              /\ \A n \in Nodes, v \in Versions :
                   n # proc[p].node \/ v # proc[p].version => ver'[n][v] = ver[n][v]
<1> DEFINE n == proc[p].node
           v == proc[p].version
           yank == [proc[p].row EXCEPT !.yanked = proc[p].yanked]
           Xs == {"InsertPackageVersionIfNew", "PutPackageVersion", "PutVersionIfNil", "WriteYank"}
<1>1. /\ UNCHANGED <<fmt, pkg, files, tag, net, lost>>
      /\ \E x \in Xs :
           /\ At(p, x)
           /\ \/ /\ Upsert(n, v, NewRow(p)) /\ Continue(p, ver'[n][v])
                 /\ x = "InsertPackageVersionIfNew" => ver[n][v].id = 0
              \/ UNCHANGED <<ver, lastId>> /\ Refuse(p) /\ x = "InsertPackageVersionIfNew"
              \/ /\ UNCHANGED <<ver, lastId>> /\ Continue(p, proc[p].row) /\ x = "PutVersionIfNil"
                 /\ proc[p].row.id # 0
              \/ Upsert(n, v, yank) /\ x = "WriteYank" /\ Continue(p, NoRow)
  <2>1. CASE InsertPackageVersionIfNew(p)
    BY <2>1 DEF InsertPackageVersionIfNew, Guard, Row
  <2>2. CASE PutPackageVersion(p)
    BY <2>2 DEF PutPackageVersion
  <2> QED BY <2>1, <2>2
<1>2. PICK x \in Xs :
           /\ At(p, x)
           /\ \/ /\ Upsert(n, v, NewRow(p)) /\ Continue(p, ver'[n][v])
                 /\ x = "InsertPackageVersionIfNew" => ver[n][v].id = 0
              \/ UNCHANGED <<ver, lastId>> /\ Refuse(p) /\ x = "InsertPackageVersionIfNew"
              \/ /\ UNCHANGED <<ver, lastId>> /\ Continue(p, proc[p].row) /\ x = "PutVersionIfNil"
                 /\ proc[p].row.id # 0
              \/ Upsert(n, v, yank) /\ x = "WriteYank" /\ Continue(p, NoRow)
  BY <1>1
<1>3. /\ proc[p] \in HandlerType /\ n \in Nodes /\ v \in Versions /\ proc[p].row \in RowType
      /\ proc[p].owner \in Actors /\ Tables /\ Keys
  BY <1>2, AtStep DEF OwnInv
<1>4. NewRow(p) \in RowType /\ yank \in RowType /\ NoRow \in RowType
  BY <1>3, IdleType DEF NewRow, RowType, HandlerType
<1> HIDE DEF yank
<1>5. ASSUME NEW row \in RowType, Upsert(n, v, row)
      PROVE  /\ KeepIds /\ FreshIds /\ ver'[n][v] \in RowType /\ ver'[n][v].id # 0
             /\ \A m \in Nodes, w \in Versions : m # n \/ w # v => ver'[m][w] = ver[m][w]
  <2>1. /\ ver' \in [Nodes -> [Versions -> RowType]] /\ ver'[n][v].id # 0
        /\ ver[n][v].id # 0 => ver'[n][v].id = ver[n][v].id
        /\ ver[n][v].id = 0 => ver'[n][v].id > lastId[n]
        /\ \A m \in Nodes : lastId[m] <= lastId'[m]
        /\ \A m \in Nodes, w \in Versions : m # n \/ w # v => ver'[m][w] = ver[m][w]
    BY <1>3, <1>5, UpsertEffect
  <2> QED BY <1>3, <2>1 DEF KeepIds, FreshIds
<1>6. CASE /\ Upsert(n, v, NewRow(p)) /\ Continue(p, ver'[n][v])
           /\ x = "InsertPackageVersionIfNew" => ver[n][v].id = 0
  <2>1. /\ KeepIds /\ FreshIds /\ ver'[n][v] \in RowType /\ ver'[n][v].id # 0
        /\ \A m \in Nodes, w \in Versions : m # n \/ w # v => ver'[m][w] = ver[m][w]
    BY <1>4, <1>5, <1>6
  <2> QED BY <1>1, <1>2, <1>6, <2>1
<1>7. ASSUME UNCHANGED <<ver, lastId>>
      PROVE  KeepIds /\ FreshIds /\ \A m \in Nodes, w \in Versions : ver'[m][w] = ver[m][w]
  BY <1>3, <1>7 DEF KeepIds, FreshIds, Tables
<1>8. CASE Upsert(n, v, yank) /\ x = "WriteYank" /\ Continue(p, NoRow)
  <2>1. /\ KeepIds /\ FreshIds
        /\ \A m \in Nodes, w \in Versions : m # n \/ w # v => ver'[m][w] = ver[m][w]
    BY <1>4, <1>5, <1>8
  <2> QED BY <1>1, <1>2, <1>4, <1>8, <2>1
<1>9. CASE UNCHANGED <<ver, lastId>> /\ Refuse(p) /\ x = "InsertPackageVersionIfNew"
  BY <1>1, <1>2, <1>3, <1>7, <1>9
<1>10. CASE /\ UNCHANGED <<ver, lastId>> /\ Continue(p, proc[p].row) /\ x = "PutVersionIfNil"
            /\ proc[p].row.id # 0
  BY <1>1, <1>2, <1>3, <1>7, <1>10
<1> QED BY <1>2, <1>6, <1>8, <1>9, <1>10

LEMMA ClaimVersion ==
  ASSUME OwnInv, ClaimInv, NEW p \in Procs, InsertPackageVersionIfNew(p) \/ PutPackageVersion(p)
  PROVE  ClaimInv'
<1>1. KeepIds /\ UNCHANGED files
  BY VersionKeepsIds
<1>2. PICK x \in {"InsertPackageVersionIfNew", "PutPackageVersion", "PutVersionIfNil", "WriteYank"},
           r \in RowType :
        /\ At(p, x)
        /\ \/ Refuse(p)
           \/ /\ Continue(p, r)
              /\ x = "InsertPackageVersionIfNew" =>
                   /\ r = ver'[proc[p].node][proc[p].version] /\ r.id # 0
                   /\ ver[proc[p].node][proc[p].version].id = 0
  BY VersionKeepsIds
<1>3. x \notin {"PutPackageFile", "PutPackageTag"} \union Sends /\ x # "GetOrCreatePackage"
      /\ x # "PutPackageFile"
  BY DEF Sends
<1>4. Steady
  BY OwnVersion
<1> QED BY <1>1, <1>2, <1>3, <1>4, FilesUntouched, ClaimStep

LEMMA ClaimFile ==
  ASSUME OwnInv, ClaimInv, NEW p \in Procs, PutPackageFile(p)
  PROVE  ClaimInv'
<1> DEFINE h == proc[p]
<1>1. PICK x \in {"PutPackageFile", "PutModFile"}, name \in {"main", "mod"} :
        /\ At(p, x) /\ Continue(p, h.row) /\ UNCHANGED ver
        /\ files' = FilePut(h.node, h.row.id, name, p)
        /\ (x = "PutPackageFile") <=> (name = "main")
  BY DEF PutPackageFile
<1>2. h.node \in Nodes /\ h.row \in RowType /\ files \in [Nodes -> SUBSET FileType]
  BY <1>1, AtStep DEF OwnInv, Tables
<1> DEFINE new == [id |-> h.row.id, name |-> name, content |-> h.content, by |-> h.owner]
<1>3. /\ files'[h.node] = {f \in files[h.node] : f.id # h.row.id \/ f.name # name} \union {new}
      /\ \A n \in Nodes : n # h.node => files'[n] = files[n]
      /\ new.id = h.row.id /\ new.name = name /\ new.content = h.content
  BY <1>1, <1>2 DEF FilePut
<1> HIDE DEF new
<1>4. ASSUME NEW n \in Nodes, NEW id \in Nat, NEW c \in Stuff, HasFile(n, id, c)
      PROVE  HasFile(n, id, c)' \/ (x = "PutPackageFile" /\ n = h.node /\ id = h.row.id)
  <2>1. PICK f \in files[n] : f.id = id /\ f.name = "main" /\ f.content = c
    BY <1>4 DEF HasFile
  <2>2. CASE n = h.node /\ id = h.row.id /\ name = "main"
    BY <1>1, <2>2
  <2>3. CASE ~(n = h.node /\ id = h.row.id /\ name = "main")
    <3>1. f \in files'[n]
      BY <1>3, <2>1, <2>3
    <3> QED BY <2>1, <3>1 DEF HasFile
  <2> QED BY <2>2, <2>3
<1>5. x = "PutPackageFile" => \A g \in {h} : HasFile(g.node, g.row.id, g.content)'
  BY <1>1, <1>3 DEF HasFile
<1>6. Steady /\ KeepIds /\ x # "GetOrCreatePackage" /\ x # "InsertPackageVersionIfNew"
  BY <1>1, OwnFile DEF KeepIds
<1> QED BY <1>1, <1>2, <1>4, <1>5, <1>6, ClaimStep

LEMMA ClaimTag ==
  ASSUME OwnInv, ClaimInv, NEW p \in Procs, PutPackageTag(p) \/ DeletePackageTag(p)
  PROVE  ClaimInv'
<1>1. PICK x \in {"PutPackageTag", "DeletePackageTag"}, r \in {proc[p].row, NoRow} :
        /\ At(p, x) /\ Continue(p, r) /\ UNCHANGED <<ver, files>>
        /\ x = "PutPackageTag" => r = proc[p].row
  BY DEF PutPackageTag, DeletePackageTag
<1>2. r \in RowType
  BY <1>1, AtStep, IdleType
<1>3. Steady /\ KeepIds
  BY <1>1, OwnTag DEF KeepIds
<1>4. /\ x # "PutPackageFile" /\ x # "GetOrCreatePackage" /\ x # "InsertPackageVersionIfNew"
      /\ x = "DeletePackageTag" => x \notin {"PutPackageFile", "PutPackageTag"} \union Sends
  BY DEF Sends
<1> QED BY <1>1, <1>2, <1>3, <1>4, FilesUntouched, ClaimStep

\* Only nuget deletes versions.
LEMMA NoDelete ==
  ASSUME OwnInv, ClaimInv, NEW p \in Procs
  PROVE  ~DeletePackageVersion(p)
<1>1. SUFFICES ASSUME DeletePackageVersion(p) PROVE FALSE
  OBVIOUS
<1>2. /\ proc[p].todo \in Seq(Steps) /\ proc[p].todo # <<>>
      /\ Head(proc[p].todo) = "DeletePackageVersion"
  BY <1>1, AtStep DEF DeletePackageVersion, HandlerType
<1>3. Free(proc[p].todo, {"DeletePackageVersion"})
  BY DEF ClaimInv, RoleOK
<1> QED BY <1>2, <1>3, FreeTail

LEMMA ClaimPublish ==
  ASSUME OwnInv, ClaimInv, NEW p \in Procs, PublishStep(p)
  PROVE  ClaimInv'
<1>1. PICK x \in {"PublishVersion", "PublishTag", "PublishTagDelete", "PublishYank"} :
        At(p, x) /\ Continue(p, proc[p].row) /\ UNCHANGED <<ver, files>>
  BY DEF PublishStep, Send, tables
<1>2. proc[p].row \in RowType
  BY <1>1, AtStep
<1>3. Steady /\ KeepIds
  BY <1>1, OwnPublish DEF KeepIds
<1>4. x # "PutPackageFile" /\ x # "GetOrCreatePackage" /\ x # "InsertPackageVersionIfNew"
  OBVIOUS
<1> QED BY <1>1, <1>2, <1>3, <1>4, FilesUntouched, ClaimStep

ImmutableInv == OwnInv /\ (Claiming => ClaimInv)

LEMMA ClaimInit ==
  ASSUME Init
  PROVE  ClaimInv
<1>1. Idle.acks = FALSE /\ RoleOK(Idle)
  BY EmptyOrdered, IdleType DEF Idle, RoleOK
<1> QED BY <1>1 DEF Init, ClaimInv, Claimer

LEMMA FormatKept ==
  ASSUME [Next]_vars
  PROVE  fmt' = fmt
<1>1. ASSUME NEW p \in Procs, Request(p) \/ Ingest(p) PROVE fmt' = fmt
  BY <1>1 DEF Request, Publish, DistTag, SetYanked, Delete, CacheFromUpstream, Begin, Ingest
<1>2. ASSUME NEW p \in Procs, GetOrCreatePackage(p) \/ Read(p) \/ DecodeMeta(p) PROVE fmt' = fmt
  BY <1>2 DEF GetOrCreatePackage, Read, DecodeMeta
<1>3. ASSUME NEW p \in Procs,
             InsertPackageVersionIfNew(p) \/ PutPackageVersion(p) \/ PutPackageFile(p)
      PROVE  fmt' = fmt
  BY <1>3 DEF InsertPackageVersionIfNew, PutPackageVersion, PutPackageFile
<1>4. ASSUME NEW p \in Procs,
             PutPackageTag(p) \/ DeletePackageTag(p) \/ DeletePackageVersion(p)
      PROVE  fmt' = fmt
  BY <1>4 DEF PutPackageTag, DeletePackageTag, DeletePackageVersion
<1>5. ASSUME NEW p \in Procs, PublishStep(p) \/ Fail(p) PROVE fmt' = fmt
  BY <1>5 DEF PublishStep, Send, Fail
<1>6. UNCHANGED vars => fmt' = fmt
  BY DEF vars
<1> QED BY <1>1, <1>2, <1>3, <1>4, <1>5, <1>6 DEF Next, DatabaseStep

LEMMA ClaimInductive ==
  ASSUME OwnInv, Claiming, ClaimInv, [Next]_vars
  PROVE  ClaimInv'
<1>1. ASSUME NEW p \in Procs, DatabaseStep(p) PROVE ClaimInv'
  BY <1>1, ClaimGetOrCreatePackage, ClaimRead, ClaimVersion, ClaimFile, ClaimTag, NoDelete
     DEF DatabaseStep
<1>2. CASE Next
  BY <1>1, <1>2, ClaimRequest, ClaimIngest, ClaimPublish, ClaimFail DEF Next
<1>3. CASE UNCHANGED vars
  BY <1>3 DEF vars, tables, ClaimInv, AckedSafe, HasFile, RoleOK, PublicationOK, Claimed, Claimer
<1> QED BY <1>2, <1>3

LEMMA ImmutableInductive ==
  ASSUME ImmutableInv, [Next]_vars
  PROVE  ImmutableInv'
BY OwnInductive, ClaimInductive, FormatKept DEF ImmutableInv, Claiming

\* The one file of an id and a name.
LEMMA FileFound ==
  ASSUME OwnInv, NEW n \in Nodes, NEW id, NEW c, HasFile(n, id, c)
  PROVE  FileOf(n, id, "main") = c
<1>1. PICK f \in files[n] : f.id = id /\ f.name = "main" /\ f.content = c
  BY DEF HasFile
<1> DEFINE g == CHOOSE k \in files[n] : k.id = id /\ k.name = "main"
<1>2. g \in files[n] /\ g.id = id /\ g.name = "main"
  BY <1>1
<1>3. g = f
  BY <1>1, <1>2 DEF OwnInv, Keys
<1> QED BY <1>1, <1>3 DEF FileOf

(***************************************************************************)
(* npm and cargo (handlePublish, InsertPackageVersionIfNew): a publication *)
(* answered with success is what a client of that node downloads from then *)
(* on, however it interleaves with other publications of the version, with *)
(* yanks and with the ingestion of a peer's version of that name.          *)
(***************************************************************************)
THEOREM PublicationImmutable == Spec => []AckedImmutable
<1>1. ImmutableInv => AckedImmutable
  <2> SUFFICES ASSUME OwnInv, Claiming, ClaimInv, NEW a \in acked
                 PROVE  Download(a.node, a.version) = a.content
    BY DEF ImmutableInv, AckedImmutable, Claiming
  <2>2. /\ a.node \in Nodes /\ ver[a.node][a.version].id # 0
        /\ HasFile(a.node, ver[a.node][a.version].id, a.content)
    BY DEF ClaimInv, AckedSafe
  <2>3. FileOf(a.node, ver[a.node][a.version].id, "main") = a.content
    BY <2>2, FileFound
  <2>4. Stored(a.node, a.version, "main") = a.content
    BY <2>2, <2>3 DEF Stored, Row
  <2>5. Download(a.node, a.version) = Stored(a.node, a.version, "main")
    BY DEF Claiming, Download, NpmTarball, CargoDownload
  <2> QED BY <2>4, <2>5
<1>2. Init => ImmutableInv
  BY OwnInit, ClaimInit DEF ImmutableInv
<1> QED BY <1>1, <1>2, ImmutableInductive, PTL DEF Spec
-----------------------------------------------------------------------------
(***************************************************************************)
(* The dist-tags of npm.  Where the publisher has a version, its           *)
(* announcement is on its way to the follower: the publication is still to *)
(* send it, or it is on the network, or being ingested, or it has arrived; *)
(* or it was lost, or the follower has the package from elsewhere.         *)
(***************************************************************************)
Tagging     == {"PutPackageTag", "PublishTag"}
Finds       == {"RequireVersion", "InsertPackageVersionIfNew"}
NotOfNpm    == {"WriteYank", "PutVersionIfNil", "PublishYank"}
IngestSteps == {"GetOrCreatePackage", "PutPackageVersion", "PutPackageFile"}

WillSend(h, v) ==
  /\ Claimer(h) /\ h.node = Publisher /\ h.version = v /\ ~Free(h.todo, {"PublishVersion"})

WillStore(h, v) ==
  /\ h.node = Follower /\ h.owner = Publisher /\ h.version = v
  /\ ~Free(h.todo, {"PutPackageVersion"}) /\ Free(h.todo, Steps \ IngestSteps)

InNet(v) == \E a \in BagToSet(net) : a.type = "Version" /\ a.version = v

Announced(v) ==
  \/ lost \/ InNet(v)
  \/ \E p \in Procs : WillSend(proc[p], v) \/ WillStore(proc[p], v)
  \/ ver[Follower][v].id # 0 \/ pkg[Follower] \notin {None, Publisher}

(***************************************************************************)
(* A request of the node itself tags a version it has found or inserted    *)
(* there; an ingestion tags what the publisher has, and only if the        *)
(* publisher owns the package here.                                        *)
(***************************************************************************)
TagSound(h) ==
  /\ Free(h.todo, NotOfNpm)
  /\ h.owner = h.node => Follows(h.todo, Finds, Tagging) \/ ver[h.node][h.version].id # 0
  /\ h.owner # h.node =>
       /\ Free(h.todo, Tagging) \/ ver[Publisher][h.version].id # 0
       /\ Follows(h.todo, OwnerChecks, Tagging) \/ Owns(h)

TagInv ==
  /\ \A v \in Versions : ver[Publisher][v].id # 0 => Announced(v)
  /\ \A p \in Procs : TagSound(proc[p])
  /\ \A a \in BagToSet(net) :
       a.type # "Yank" /\ (a.type = "Tag" => ver[Publisher][a.version].id # 0)
  /\ tag[Publisher] # None => ver[Publisher][tag[Publisher]].id # 0
  /\ tag[Follower] # None =>
       \/ ver[Follower][tag[Follower]].id # 0
       \/ pkg[Follower] = Publisher /\ ver[Publisher][tag[Follower]].id # 0

LEMMA TheNodes == Publisher \in Nodes /\ Follower \in Nodes /\ Publisher # Follower
                  /\ Publisher # None /\ Follower # None
BY PackagesAssumption DEF Nodes

LEMMA TagIdle ==
  TagSound(Idle) /\ TagSound(Idle)'
<1>1. Idle.todo = <<>>
  BY IdleType
<1>2. \A X, Y : Follows(Idle.todo, X, Y) /\ Free(Idle.todo, X)
  BY <1>1, EmptyOrdered
<1> QED BY <1>2 DEF TagSound

LEMMA TagFrame ==
  ASSUME NEW h \in HandlerType, h.todo # <<>> => h.version \in Versions, TagSound(h), Steady, KeepIds
  PROVE  TagSound(h)'
<1>1. CASE h.todo = <<>>
  <2>1. \A X, Y : Follows(h.todo, X, Y) /\ Free(h.todo, X)
    BY <1>1, EmptyOrdered
  <2> QED BY <2>1 DEF TagSound
<1>2. CASE h.todo # <<>>
  <2>1. /\ h.version \in Versions /\ h.node \in Nodes
        /\ Owns(h) => Owns(h)'
    BY <1>2 DEF HandlerType, Owns, Steady
  <2>2. /\ ver[h.node][h.version].id # 0 => ver'[h.node][h.version].id # 0
        /\ ver[Publisher][h.version].id # 0 => ver'[Publisher][h.version].id # 0
    BY <2>1, TheNodes DEF KeepIds
  <2> QED BY <2>1, <2>2 DEF TagSound
<1> QED BY <1>1, <1>2

LEMMA TagLater ==
  ASSUME NEW h \in HandlerType, h.todo # <<>>, h.version \in Versions, TagSound(h),
         Steady, KeepIds, NEW row,
         Head(h.todo) \in Finds => ver'[h.node][h.version].id # 0,
         Head(h.todo) \in OwnerChecks => h.owner # None /\ h.owner = pkg'[h.node]
  PROVE  TagSound(Later(h, row))'
<1> DEFINE g == Later(h, row)
<1>1. /\ g.todo = Tail(h.todo) /\ g.owner = h.owner /\ g.node = h.node /\ g.version = h.version
      /\ h.todo \in Seq(Steps) /\ h.node \in Nodes
  BY DEF Later, HandlerType
<1>2. \A Z : Free(h.todo, Z) => Free(g.todo, Z)
  BY <1>1, FreeTail
<1>3. /\ ver[h.node][h.version].id # 0 => ver'[h.node][h.version].id # 0
      /\ ver[Publisher][h.version].id # 0 => ver'[Publisher][h.version].id # 0
      /\ h.owner # None /\ h.owner = pkg[h.node] => h.owner = pkg'[h.node]
  BY <1>1, TheNodes DEF KeepIds, Steady
<1>4. Follows(h.todo, Finds, Tagging) =>
        Follows(g.todo, Finds, Tagging) \/ ver'[h.node][h.version].id # 0
  BY <1>1, FollowsTail
<1>5. Follows(h.todo, OwnerChecks, Tagging) =>
        Follows(g.todo, OwnerChecks, Tagging) \/ (h.owner # None /\ h.owner = pkg'[h.node])
  BY <1>1, FollowsTail
<1> HIDE DEF g
<1>6. /\ g.owner = g.node => Follows(g.todo, Finds, Tagging) \/ ver'[g.node][g.version].id # 0
  BY <1>1, <1>3, <1>4 DEF TagSound
<1>7. g.owner # g.node =>
        /\ Free(g.todo, Tagging) \/ ver'[Publisher][g.version].id # 0
        /\ Follows(g.todo, OwnerChecks, Tagging) \/ (g.owner # None /\ g.owner = pkg'[g.node])
  BY <1>1, <1>2, <1>3, <1>5 DEF TagSound, Owns
<1>8. Free(g.todo, NotOfNpm)
  BY <1>1, <1>2 DEF TagSound
<1> QED BY <1>6, <1>7, <1>8 DEF TagSound, Owns, g

\* All handlers, when one takes a step.
LEMMA TagAdvance ==
  ASSUME OwnInv, \A q \in Procs : TagSound(proc[q]), Steady, KeepIds,
         NEW p \in Procs, NEW x, At(p, x), NEW row \in RowType,
         \/ Refuse(p)
         \/ /\ Continue(p, row)
            /\ x \in Finds => ver'[proc[p].node][proc[p].version].id # 0
            /\ x \in OwnerChecks => proc[p].owner = pkg'[proc[p].node]
  PROVE  \A q \in Procs : TagSound(proc[q])'
<1>1. /\ proc[p] \in HandlerType /\ proc[p].todo # <<>> /\ Head(proc[p].todo) = x
      /\ proc[p].version \in Versions /\ proc[p].owner # None
  BY AtStep
<1>2. Handlers /\ proc \in [Procs -> HandlerType]
  BY DEF OwnInv, Handlers
<1>3. /\ \A q \in Procs \ {p} : proc'[q] = proc[q]
      /\ proc'[p] = Idle \/ proc'[p] = Later(proc[p], row)
  BY <1>1, <1>2, Advance
<1>4. Refuse(p) => proc'[p] = Idle
  BY <1>2 DEF Refuse
<1>5. ASSUME NEW q \in Procs, q # p PROVE TagSound(proc[q])'
  <2>1. \A h \in {proc[q]} : TagSound(h)'
    BY <1>2, TagFrame DEF Handlers
  <2> QED BY <1>3, <1>5, <2>1 DEF TagSound, Owns
<1>6. TagSound(proc[p])'
  <2>1. CASE proc'[p] = Idle
    BY <2>1, TagIdle DEF TagSound, Owns
  <2>2. CASE ~Refuse(p) /\ proc'[p] = Later(proc[p], row)
    <3>1. \A h \in {proc[p]} : TagSound(Later(h, row))'
      BY <1>1, <2>2, TagLater
    <3> QED BY <2>2, <3>1 DEF TagSound, Owns, Later
  <2> QED BY <1>3, <1>4, <2>1, <2>2
<1> QED BY <1>5, <1>6

\* A step that is still to come and is not this one is still to come after it.
LEMMA StillToCome ==
  ASSUME NEW s \in Seq(Steps), s # <<>>, NEW Z, ~Free(s, Z), Head(s) \notin Z
  PROVE  ~Free(Tail(s), Z) /\ Tail(s) # <<>>
<1>1. PICK i \in 1..Len(s) : s[i] \in Z
  BY DEF Free
<1>2. i # 1 /\ i - 1 \in 1..Len(Tail(s)) /\ Tail(s)[i - 1] = s[i]
  BY <1>1, TailOf
<1>3. ~Free(Tail(s), Z)
  BY <1>1, <1>2 DEF Free
<1> QED BY <1>3, EmptyOrdered

(***************************************************************************)
(* An announcement on its way goes on: a publication that has claimed its  *)
(* version gets as far as sending it, and an ingestion gets as far as      *)
(* storing it unless the package is somebody else's.                       *)
(***************************************************************************)
LEMMA AnnouncedStep ==
  ASSUME OwnInv, ClaimInv, Steady, KeepIds, lost => lost',
         BagToSet(net) \subseteq BagToSet(net'),
         NEW p \in Procs, NEW x, At(p, x), NEW row \in RowType, Continue(p, row) \/ Refuse(p),
         NEW v \in Versions, Announced(v),
         WillSend(proc[p], v) =>
           IF x = "PublishVersion" THEN lost' \/ InNet(v)'
           ELSE Continue(p, row) /\ row = proc[p].row,
         WillStore(proc[p], v) =>
           IF x = "PutPackageVersion" THEN ver'[Follower][v].id # 0
           ELSE Continue(p, row) \/ pkg'[Follower] \notin {None, Publisher}
  PROVE  Announced(v)'
<1> DEFINE h == proc[p]
<1>1. /\ h \in HandlerType /\ h.todo # <<>> /\ Head(h.todo) = x /\ h.todo \in Seq(Steps)
  BY AtStep DEF HandlerType
<1>2. Handlers /\ proc \in [Procs -> HandlerType]
  BY DEF OwnInv, Handlers
<1>3. \A q \in Procs \ {p} : proc'[q] = proc[q]
  BY <1>1, <1>2, Advance
<1>4. ASSUME Continue(p, row), Tail(h.todo) # <<>> PROVE proc'[p] = Later(h, row)
  BY <1>1, <1>2, <1>4 DEF Continue, Later, Handlers, HandlerType
<1>5. CASE lost
  BY <1>5 DEF Announced
<1>6. CASE InNet(v)
  BY <1>6 DEF Announced, InNet
<1>7. CASE ver[Follower][v].id # 0
  BY <1>7, TheNodes DEF Announced, KeepIds
<1>8. CASE pkg[Follower] \notin {None, Publisher}
  BY <1>8, TheNodes DEF Announced, Steady
<1>9. ASSUME NEW q \in Procs, q # p, WillSend(proc[q], v) \/ WillStore(proc[q], v) PROVE Announced(v)'
  <2>1. WillSend(proc[q], v)' \/ WillStore(proc[q], v)'
    BY <1>3, <1>9 DEF WillSend, WillStore, Claimer
  <2> QED BY <2>1 DEF Announced
<1>10. ASSUME WillSend(h, v) PROVE Announced(v)'
  <2>1. CASE x = "PublishVersion"
    BY <1>10, <2>1 DEF Announced
  <2>2. CASE x # "PublishVersion"
    <3>1. ~Free(Tail(h.todo), {"PublishVersion"}) /\ Tail(h.todo) # <<>>
      BY <1>1, <1>10, <2>2, StillToCome DEF WillSend
    <3>2. proc'[p] = Later(h, row) /\ row = h.row
      BY <1>4, <1>10, <2>2, <3>1
    <3>3. /\ proc'[p].todo = Tail(h.todo) /\ proc'[p].row = h.row /\ proc'[p].acks = h.acks
          /\ proc'[p].node = h.node /\ proc'[p].version = h.version
      BY <1>1, <3>2 DEF Later, HandlerType
    <3>4. WillSend(proc[p], v)'
      BY <1>10, <3>1, <3>3 DEF WillSend, Claimer
    <3> QED BY <3>4 DEF Announced
  <2> QED BY <2>1, <2>2
<1>11. ASSUME WillStore(h, v) PROVE Announced(v)'
  <2>1. CASE x = "PutPackageVersion"
    BY <1>11, <2>1 DEF Announced
  <2>2. CASE x # "PutPackageVersion" /\ pkg'[Follower] \notin {None, Publisher}
    BY <2>2 DEF Announced
  <2>3. CASE x # "PutPackageVersion" /\ Continue(p, row)
    <3>1. ~Free(Tail(h.todo), {"PutPackageVersion"}) /\ Tail(h.todo) # <<>>
      BY <1>1, <1>11, <2>3, StillToCome DEF WillStore
    <3>2. Free(Tail(h.todo), Steps \ IngestSteps)
      BY <1>1, <1>11, FreeTail DEF WillStore
    <3>3. proc'[p] = Later(h, row)
      BY <1>4, <2>3, <3>1
    <3>4. /\ proc'[p].todo = Tail(h.todo) /\ proc'[p].owner = h.owner
          /\ proc'[p].node = h.node /\ proc'[p].version = h.version
      BY <1>1, <3>3 DEF Later, HandlerType
    <3>5. WillStore(proc[p], v)'
      BY <1>11, <3>1, <3>2, <3>4 DEF WillStore
    <3> QED BY <3>5 DEF Announced
  <2> QED BY <1>11, <2>1, <2>2, <2>3
<1> QED BY <1>5, <1>6, <1>7, <1>8, <1>9, <1>10, <1>11 DEF Announced

\* What the steps of a publication that is to send, and of an ingestion that is
\* to store, can be.
LEMMA CarrierSteps ==
  ASSUME OwnInv, ClaimInv, NEW p \in Procs, NEW x, At(p, x), NEW v
  PROVE  /\ WillSend(proc[p], v) => x \in {"PutPackageFile", "PutPackageTag"} \union Sends
         /\ WillStore(proc[p], v) => x \in IngestSteps
<1> DEFINE h == proc[p]
           Early == {"GetOrCreatePackage", "InsertPackageVersionIfNew"}
<1>1. /\ h.todo # <<>> /\ Head(h.todo) = x /\ h.todo \in Seq(Steps)
  BY AtStep DEF HandlerType
<1>2. x \in Steps
  BY <1>1, TailOf
<1>3. ASSUME WillSend(h, v) PROVE x \in {"PutPackageFile", "PutPackageTag"} \union Sends
  <2>1. PublicationOK(h) /\ h.row.id # 0
    BY <1>3 DEF WillSend, Claimer, ClaimInv
  <2>2. Free(h.todo, Early) /\ Free(h.todo, Steps \ PublishSteps)
    BY <2>1 DEF PublicationOK
  <2>3. x \notin Early /\ x \notin Steps \ PublishSteps
    BY <1>1, <2>2, FreeTail
  <2> QED BY <1>2, <2>3 DEF PublishSteps, Sends
<1>4. ASSUME WillStore(h, v) PROVE x \in IngestSteps
  <2>1. x \notin Steps \ IngestSteps
    BY <1>1, <1>4, FreeTail DEF WillStore
  <2> QED BY <1>2, <2>1
<1> QED BY <1>3, <1>4

(***************************************************************************)
(* A step of a handler keeps the dist-tags, if a version that is new on    *)
(* the publisher is announced, and a tag that is new names a version.      *)
(***************************************************************************)
LEMMA TagStep ==
  ASSUME OwnInv, ClaimInv, TagInv, Steady, KeepIds, lost => lost',
         BagToSet(net) \subseteq BagToSet(net'),
         \A a \in BagToSet(net') :
           /\ a \in BagToSet(net) \/ a.type # "Yank"
           /\ a.type = "Tag" => a \in BagToSet(net) \/ ver'[Publisher][a.version].id # 0,
         \/ tag'[Publisher] \in {tag[Publisher], None}
         \/ ver'[Publisher][tag'[Publisher]].id # 0,
         \/ tag'[Follower] \in {tag[Follower], None}
         \/ ver'[Follower][tag'[Follower]].id # 0
         \/ pkg'[Follower] = Publisher /\ ver'[Publisher][tag'[Follower]].id # 0,
         \A v \in Versions :
           ver'[Publisher][v].id # 0 => ver[Publisher][v].id # 0 \/ Announced(v)',
         NEW p \in Procs, NEW x, At(p, x), NEW row \in RowType,
         \/ Refuse(p)
         \/ /\ Continue(p, row)
            /\ x \in Finds => ver'[proc[p].node][proc[p].version].id # 0
            /\ x \in OwnerChecks => proc[p].owner = pkg'[proc[p].node],
         \A v \in Versions :
           /\ WillSend(proc[p], v) =>
                IF x = "PublishVersion" THEN lost' \/ InNet(v)'
                ELSE Continue(p, row) /\ row = proc[p].row
           /\ WillStore(proc[p], v) =>
                IF x = "PutPackageVersion" THEN ver'[Follower][v].id # 0
                ELSE Continue(p, row) \/ pkg'[Follower] \notin {None, Publisher}
  PROVE  TagInv'
<1>1. \A q \in Procs : TagSound(proc[q])'
  BY TagAdvance DEF TagInv
<1>2. ASSUME NEW v \in Versions, ver'[Publisher][v].id # 0 PROVE Announced(v)'
  <2>1. CASE ver[Publisher][v].id # 0
    <3>1. Announced(v)
      BY <2>1 DEF TagInv
    <3> QED BY <3>1, AnnouncedStep
  <2>2. CASE ver[Publisher][v].id = 0
    BY <1>2, <2>2
  <2> QED BY <2>1, <2>2
<1>3. ASSUME NEW n \in Nodes, NEW v \in Versions, ver[n][v].id # 0 PROVE ver'[n][v].id # 0
  BY <1>3 DEF KeepIds
<1>4. ASSUME NEW a \in BagToSet(net'), a.type = "Tag" PROVE ver'[Publisher][a.version].id # 0
  <2>1. CASE a \in BagToSet(net)
    <3>1. a.version \in Versions /\ ver[Publisher][a.version].id # 0
      BY <1>4, <2>1 DEF TagInv, OwnInv, Tables, ActivityType
    <3> QED BY <1>3, <3>1, TheNodes
  <2>2. CASE a \notin BagToSet(net)
    BY <1>4, <2>2
  <2> QED BY <2>1, <2>2
<1>5. tag \in [Nodes -> Versions \union {None}]
  BY DEF OwnInv, Tables
<1>6. tag'[Publisher] # None => ver'[Publisher][tag'[Publisher]].id # 0
  BY <1>3, <1>5, TheNodes DEF TagInv
<1>7. tag'[Follower] # None =>
        \/ ver'[Follower][tag'[Follower]].id # 0
        \/ pkg'[Follower] = Publisher /\ ver'[Publisher][tag'[Follower]].id # 0
  <2>1. pkg[Follower] = Publisher => pkg'[Follower] = Publisher
    BY TheNodes DEF Steady
  <2> QED BY <1>3, <1>5, <2>1, TheNodes DEF TagInv
<1>8. \A a \in BagToSet(net') : a.type # "Yank"
  BY DEF TagInv
<1> QED BY <1>1, <1>2, <1>4, <1>6, <1>7, <1>8 DEF TagInv

LEMMA TagGetOrCreatePackage ==
  ASSUME OwnInv, ClaimInv, TagInv, NEW p \in Procs, GetOrCreatePackage(p)
  PROVE  TagInv'
<1> DEFINE x == "GetOrCreatePackage"
<1>1. /\ At(p, x) /\ UNCHANGED <<ver, tag, net, lost>>
      /\ pkg' = [pkg EXCEPT ![proc[p].node] = IF @ = None THEN proc[p].owner ELSE @]
      /\ \/ Refuse(p) /\ pkg'[proc[p].node] # proc[p].owner
         \/ Continue(p, NoRow) /\ pkg'[proc[p].node] = proc[p].owner
  BY DEF GetOrCreatePackage, Guard
<1>2. Steady /\ KeepIds /\ NoRow \in RowType
  BY <1>1, OwnGetOrCreatePackage, IdleType DEF KeepIds
<1>3. /\ x \notin Finds /\ x # "PutPackageVersion" /\ x # "PublishVersion"
      /\ x \notin {"PutPackageFile", "PutPackageTag"} \union Sends
  BY DEF Finds, Sends
<1>4. \A v \in Versions : ~WillSend(proc[p], v)
  BY <1>1, <1>3, CarrierSteps
<1>5. ASSUME NEW v \in Versions, WillStore(proc[p], v)
      PROVE  Continue(p, NoRow) \/ pkg'[Follower] \notin {None, Publisher}
  <2>1. proc[p].node = Follower /\ proc[p].owner = Publisher
    BY <1>5 DEF WillStore
  <2>2. pkg'[Follower] # None
    BY <1>1, <2>1, TheNodes DEF OwnInv, Tables
  <2> QED BY <1>1, <2>1, <2>2
<1> HIDE DEF x
<1> QED BY <1>1, <1>2, <1>3, <1>4, <1>5, TagStep

LEMMA TagRead ==
  ASSUME OwnInv, ClaimInv, TagInv, NEW p \in Procs, Read(p) \/ DecodeMeta(p)
  PROVE  TagInv'
<1> DEFINE row == Row(proc[p].node, proc[p].version)
           Reads == {"GetPackage", "LookupOwnedPackage", "GetPackageVersion", "RequireVersion",
                     "RefuseExisting", "SkipIfYanked", "RefuseExistingFile", "DecodeMeta"}
<1>1. UNCHANGED <<pkg, ver, tag, net, lost>>
  BY DEF Read, DecodeMeta, tables
<1>2. PICK x \in Reads, r \in {NoRow, row, proc[p].row} :
        /\ At(p, x)
        /\ \/ Refuse(p)
           \/ /\ Continue(p, r)
              /\ x = "RequireVersion" => row.id # 0
              /\ x = "LookupOwnedPackage" => pkg[proc[p].node] = proc[p].owner
  BY DEF Read, DecodeMeta, Guard, LookupOwnedPackage
<1>3. /\ proc[p].node \in Nodes /\ proc[p].version \in Versions /\ proc[p].row \in RowType
  BY <1>2, AtStep
<1>4. r \in RowType
  BY <1>2, <1>3, IdleType DEF OwnInv, Tables, Row
<1>5. /\ x \notin {"PutPackageFile", "PutPackageTag"} \union Sends
      /\ x \notin IngestSteps
      /\ x \in Finds => x = "RequireVersion"
      /\ x \in OwnerChecks => x = "LookupOwnedPackage"
  BY DEF Sends, IngestSteps, Finds, OwnerChecks
<1>6. \A v \in Versions : ~WillSend(proc[p], v) /\ ~WillStore(proc[p], v)
  BY <1>2, <1>5, CarrierSteps
<1>7. Steady /\ KeepIds
  BY <1>1, OwnRead DEF KeepIds
<1>8. x \in Finds /\ ~Refuse(p) => ver'[proc[p].node][proc[p].version].id # 0
  BY <1>1, <1>2, <1>5 DEF Row
<1> QED BY <1>1, <1>2, <1>4, <1>5, <1>6, <1>7, <1>8, TagStep

LEMMA TagFile ==
  ASSUME OwnInv, ClaimInv, TagInv, NEW p \in Procs, PutPackageFile(p)
  PROVE  TagInv'
<1>1. PICK x \in {"PutPackageFile", "PutModFile"} :
        At(p, x) /\ Continue(p, proc[p].row) /\ UNCHANGED <<pkg, ver, tag, net, lost>>
  BY DEF PutPackageFile
<1>2. proc[p].row \in RowType
  BY <1>1, AtStep
<1>3. Steady /\ KeepIds
  BY <1>1, OwnFile DEF KeepIds
<1>4. /\ x \notin Finds /\ x \notin OwnerChecks
      /\ x # "PublishVersion" /\ x # "PutPackageVersion"
  BY DEF Finds, OwnerChecks
<1> QED BY <1>1, <1>2, <1>3, <1>4, TagStep

\* A claim makes a version, which its handler is still to announce; an ingestion
\* makes one on the follower only.
LEMMA TagVersion ==
  ASSUME OwnInv, ClaimInv, TagInv, NEW p \in Procs,
         InsertPackageVersionIfNew(p) \/ PutPackageVersion(p)
  PROVE  TagInv'
<1> DEFINE h == proc[p]
<1>1. KeepIds /\ Steady /\ UNCHANGED <<pkg, tag, net, lost>>
  BY VersionKeepsIds, OwnVersion
<1>2. PICK x \in {"InsertPackageVersionIfNew", "PutPackageVersion", "PutVersionIfNil",
                  "WriteYank"},
           r \in RowType :
        /\ At(p, x)
        /\ \/ Refuse(p) /\ UNCHANGED ver /\ x = "InsertPackageVersionIfNew"
           \/ /\ Continue(p, r)
              /\ x \in {"InsertPackageVersionIfNew", "PutPackageVersion"} =>
                   r = ver'[h.node][h.version] /\ r.id # 0
        /\ \A n \in Nodes, v \in Versions :
             n # h.node \/ v # h.version => ver'[n][v] = ver[n][v]
  BY VersionKeepsIds
<1>3. /\ h \in HandlerType /\ h.todo # <<>> /\ Head(h.todo) = x /\ h.todo \in Seq(Steps)
      /\ h.node \in Nodes /\ h.version \in Versions
  BY <1>2, AtStep DEF HandlerType
<1>4. x \in {"InsertPackageVersionIfNew", "PutPackageVersion"}
  <2>1. Free(h.todo, NotOfNpm)
    BY DEF TagInv, TagSound
  <2> QED BY <1>2, <1>3, <2>1, FreeTail DEF NotOfNpm
<1>5. RoleOK(h)
  BY DEF ClaimInv
<1>6. x = "PutPackageVersion" => h.node = Follower
  <2>1. x = "PutPackageVersion" => ~Free(h.todo, {"PutPackageVersion"})
    BY <1>3, FreeTail
  <2> QED BY <1>3, <1>5, <2>1 DEF RoleOK
<1>7. \A v \in Versions : ~WillSend(h, v)
  <2>1. x \notin {"PutPackageFile", "PutPackageTag"} \union Sends
    BY <1>4 DEF Sends
  <2> QED BY <1>2, <2>1, CarrierSteps
<1>8. ASSUME NEW v \in Versions, WillStore(h, v)
      PROVE  x = "PutPackageVersion" /\ ver'[Follower][v].id # 0
  <2>1. x = "PutPackageVersion"
    BY <1>2, <1>4, <1>8, CarrierSteps DEF IngestSteps
  <2> QED BY <1>2, <1>8, <2>1 DEF WillStore
<1>9. ASSUME NEW v \in Versions, ver'[Publisher][v].id # 0, ver[Publisher][v].id = 0
      PROVE  Announced(v)'
  <2>1. h.node = Publisher /\ v = h.version
    BY <1>2, <1>9, TheNodes
  <2>2. x = "InsertPackageVersionIfNew"
    BY <1>4, <1>6, <2>1, TheNodes
  <2>3. Continue(p, r) /\ r.id # 0
    BY <1>2, <1>9, <2>2
  <2>4. ~Free(h.todo, {"InsertPackageVersionIfNew"})
    BY <1>3, <2>2, FreeTail
  <2>5. h.acks
    <3>1. CASE h.owner = h.node
      <4>1. ~Free(h.todo, {"InsertPackageVersionIfNew", "PutPackageFile", "PutModFile"})
        BY <2>4, FreeSubset
      <4> QED BY <1>3, <1>5, <2>4, <4>1 DEF RoleOK
    <3>2. CASE h.owner # h.node
      BY <1>3, <1>5, <2>4, <3>2 DEF RoleOK
    <3> QED BY <3>1, <3>2
  <2>6. ~Free(h.todo, {"PublishVersion"})
    <3>1. PublicationOK(h)
      BY <2>5 DEF ClaimInv
    <3>2. ~Free(h.todo, {"GetOrCreatePackage", "InsertPackageVersionIfNew"})
      BY <2>4, FreeSubset
    <3> QED BY <3>1, <3>2 DEF PublicationOK
  <2>7. ~Free(Tail(h.todo), {"PublishVersion"}) /\ Tail(h.todo) # <<>>
    BY <1>3, <2>2, <2>6, StillToCome
  <2>8. proc'[p] = Later(h, r)
    BY <1>3, <2>3, <2>7 DEF Continue, Later, OwnInv, Handlers, HandlerType
  <2>9. /\ proc'[p].todo = Tail(h.todo) /\ proc'[p].row = r /\ proc'[p].acks = h.acks
        /\ proc'[p].node = h.node /\ proc'[p].version = h.version
    BY <1>3, <2>8 DEF Later, HandlerType
  <2>10. WillSend(proc[p], v)'
    BY <2>1, <2>3, <2>5, <2>7, <2>9 DEF WillSend, Claimer
  <2> QED BY <2>10 DEF Announced
<1>10. x \notin OwnerChecks
  BY <1>4 DEF OwnerChecks
<1>11. \/ Refuse(p)
       \/ Continue(p, r) /\ ver'[h.node][h.version].id # 0
  BY <1>2, <1>4
<1>12. x # "PublishVersion" /\ At(p, x)
  BY <1>2, <1>4
<1> QED BY <1>1, <1>7, <1>8, <1>9, <1>10, <1>11, <1>12, TagStep

\* A handler about to write or to send a tag knows the version.
LEMMA TagKnown ==
  ASSUME OwnInv, ClaimInv, TagInv, NEW p \in Procs, NEW x \in Tagging, At(p, x)
  PROVE  \/ proc[p].owner = proc[p].node /\ ver[proc[p].node][proc[p].version].id # 0
         \/ /\ proc[p].node = Follower /\ pkg[Follower] = Publisher
            /\ ver[Publisher][proc[p].version].id # 0
<1> DEFINE h == proc[p]
<1>1. /\ h.todo # <<>> /\ Head(h.todo) = x /\ h.todo \in Seq(Steps)
  BY AtStep DEF HandlerType
<1>2. /\ ~Follows(h.todo, Finds, Tagging) /\ ~Follows(h.todo, OwnerChecks, Tagging)
      /\ ~Free(h.todo, Tagging)
  BY <1>1, FollowsTail, FreeTail
<1>3. TagSound(h) /\ RoleOK(h)
  BY DEF TagInv, ClaimInv
<1>4. CASE h.owner = h.node
  BY <1>2, <1>3, <1>4 DEF TagSound
<1>5. CASE h.owner # h.node
  <2>1. h.node = Follower /\ h.owner = Publisher
    BY <1>1, <1>3, <1>5 DEF RoleOK
  <2> QED BY <1>2, <1>3, <1>5, <2>1 DEF TagSound, Owns
<1> QED BY <1>4, <1>5

LEMMA TagTag ==
  ASSUME OwnInv, ClaimInv, TagInv, NEW p \in Procs, PutPackageTag(p) \/ DeletePackageTag(p)
  PROVE  TagInv'
<1> DEFINE h == proc[p]
<1>1. PICK x \in {"PutPackageTag", "DeletePackageTag"}, r \in {h.row, NoRow} :
        /\ At(p, x) /\ Continue(p, r) /\ UNCHANGED <<pkg, ver, net, lost>>
        /\ x = "PutPackageTag" => r = h.row /\ tag' = [tag EXCEPT ![h.node] = h.version]
        /\ x = "DeletePackageTag" => tag' = [tag EXCEPT ![h.node] = None]
  BY DEF PutPackageTag, DeletePackageTag
<1>2. r \in RowType /\ h.node \in Nodes
  BY <1>1, AtStep, IdleType
<1>3. Steady /\ KeepIds
  BY <1>1, OwnTag DEF KeepIds
<1>4. /\ x \notin Finds /\ x \notin OwnerChecks /\ x # "PublishVersion" /\ x \notin IngestSteps
      /\ x = "DeletePackageTag" => x \notin {"PutPackageFile", "PutPackageTag"} \union Sends
      /\ x = "PutPackageTag" => x \in Tagging
  BY DEF Finds, OwnerChecks, IngestSteps, Sends, Tagging
<1>5. /\ \A v \in Versions : ~WillStore(h, v)
      /\ \A v \in Versions : WillSend(h, v) => r = h.row
  BY <1>1, <1>4, CarrierSteps
<1>6. tag \in [Nodes -> Versions \union {None}]
  BY DEF OwnInv, Tables
<1>7. /\ \/ tag'[Publisher] \in {tag[Publisher], None}
         \/ ver'[Publisher][tag'[Publisher]].id # 0
      /\ \/ tag'[Follower] \in {tag[Follower], None}
         \/ ver'[Follower][tag'[Follower]].id # 0
         \/ pkg'[Follower] = Publisher /\ ver'[Publisher][tag'[Follower]].id # 0
  <2>1. CASE x = "DeletePackageTag"
    BY <1>1, <1>2, <1>6, <2>1, TheNodes
  <2>2. CASE x = "PutPackageTag"
    <3>1. \/ ver[h.node][h.version].id # 0
          \/ /\ h.node = Follower /\ pkg[Follower] = Publisher
             /\ ver[Publisher][h.version].id # 0
      BY <1>1, <1>4, <2>2, TagKnown
    <3>2. \A n \in Nodes : tag'[n] = IF n = h.node THEN h.version ELSE tag[n]
      BY <1>1, <1>2, <1>6, <2>2
    <3> QED BY <1>1, <3>1, <3>2, TheNodes
  <2> QED BY <1>1, <2>1, <2>2
<1>8. At(p, x) /\ Continue(p, r) /\ UNCHANGED <<pkg, ver, net, lost>>
  BY <1>1
<1> QED BY <1>2, <1>3, <1>4, <1>5, <1>7, <1>8, TagStep

LEMMA TagPublish ==
  ASSUME OwnInv, ClaimInv, TagInv, NEW p \in Procs, PublishStep(p)
  PROVE  TagInv'
<1> DEFINE h == proc[p]
           Xs == {"PublishVersion", "PublishTag", "PublishTagDelete", "PublishYank"}
<1>1. \E x \in Xs, type \in {"Version", "Tag", "TagDelete", "Yank"}, dec \in BOOLEAN :
        /\ At(p, x) /\ Send(p, Object(p, type, dec))
        /\ x = "PublishVersion" => type = "Version"
        /\ type = "Tag" => x = "PublishTag"
        /\ type = "Yank" => x = "PublishYank"
  BY DEF PublishStep, PublishedVersion, NpmPublishVersion, NpmPublishTag,
         CargoPublishVersion, CargoPublishYank, PypiPublishFile, NugetPublishPackage,
         GoPublishModule
<1>2. PICK x \in Xs, type \in {"Version", "Tag", "TagDelete", "Yank"}, dec \in BOOLEAN :
        /\ At(p, x) /\ Send(p, Object(p, type, dec))
        /\ x = "PublishVersion" => type = "Version"
        /\ type = "Tag" => x = "PublishTag"
        /\ type = "Yank" => x = "PublishYank"
  BY <1>1
<1> DEFINE a == Object(p, type, dec)
<1>3. a.type = type /\ a.version = h.version
  BY DEF Object
<1> HIDE DEF a
<1>4. /\ UNCHANGED <<pkg, ver, tag>> /\ Continue(p, h.row)
      /\ \/ h.node = Publisher /\ net' = net (+) SetToBag({a}) /\ lost' = lost
         \/ h.node # Publisher /\ net' = net /\ lost' = lost
         \/ lost' = TRUE /\ net' = net
  BY <1>2 DEF Send, a, tables
<1>5. h.row \in RowType
  BY <1>2, AtStep
<1>6. Steady /\ KeepIds
  BY <1>4, OwnPublish DEF KeepIds
<1>7. net' = net (+) SetToBag({a}) => BagToSet(net') = BagToSet(net) \union {a}
  BY BagOfOne DEF OwnInv, Tables
<1>8. BagToSet(net) \subseteq BagToSet(net') /\ (lost => lost')
  BY <1>4, <1>7
<1>9. ASSUME NEW b \in BagToSet(net'), b.type = "Tag"
      PROVE  b \in BagToSet(net) \/ ver'[Publisher][b.version].id # 0
  <2>1. CASE b \in BagToSet(net)
    BY <2>1
  <2>2. CASE b \notin BagToSet(net)
    <3>1. b = a /\ h.node = Publisher
      BY <1>4, <1>7, <1>9, <2>2
    <3>2. x = "PublishTag" /\ x \in Tagging
      BY <1>2, <1>3, <1>9, <3>1 DEF Tagging
    <3>3. ver[Publisher][h.version].id # 0
      BY <1>2, <3>1, <3>2, TagKnown, TheNodes
    <3> QED BY <1>3, <1>4, <3>1, <3>3
  <2> QED BY <2>1, <2>2
<1>10. ASSUME NEW v \in Versions, WillSend(h, v), x = "PublishVersion"
       PROVE  lost' \/ InNet(v)'
  <2>1. h.node = Publisher /\ h.version = v
    BY <1>10 DEF WillSend
  <2>2. CASE lost' = TRUE
    BY <2>2
  <2>3. CASE net' = net (+) SetToBag({a})
    <3>1. a \in BagToSet(net') /\ a.type = "Version" /\ a.version = v
      BY <1>2, <1>3, <1>7, <1>10, <2>1, <2>3
    <3> QED BY <3>1 DEF InNet
  <2> QED BY <1>4, <2>1, <2>2, <2>3
<1>11. x \notin Finds /\ x \notin OwnerChecks /\ x \notin IngestSteps
  BY DEF Finds, OwnerChecks, IngestSteps
<1>12. \A v \in Versions : ~WillStore(h, v)
  BY <1>2, <1>11, CarrierSteps
<1>13. At(p, x)
  BY <1>2
<1>14. \A b \in BagToSet(net') : b \in BagToSet(net) \/ b.type # "Yank"
  <2>1. Free(h.todo, NotOfNpm) /\ h.todo # <<>> /\ h.todo \in Seq(Steps) /\ Head(h.todo) = x
    BY <1>2, AtStep DEF TagInv, TagSound, HandlerType
  <2>2. a.type # "Yank"
    BY <1>2, <1>3, <2>1, FreeTail DEF NotOfNpm
  <2> QED BY <1>4, <1>7, <2>2
<1> QED BY <1>4, <1>5, <1>6, <1>8, <1>9, <1>10, <1>11, <1>12, <1>13, <1>14, TagStep

(***************************************************************************)
(* A handler that begins, and one that fails.                              *)
(***************************************************************************)
LEMMA TagReplace ==
  ASSUME OwnInv, TagInv, NEW p \in Procs, NEW h \in HandlerType, TagSound(h),
         proc' = [proc EXCEPT ![p] = h], UNCHANGED <<pkg, ver, tag>>,
         BagToSet(net') \subseteq BagToSet(net),
         \A v \in Versions : Announced(v) => Announced(v)'
  PROVE  TagInv'
<1>1. proc \in [Procs -> HandlerType]
  BY DEF OwnInv, Handlers
<1>2. \A q \in Procs : TagSound(proc'[q])
  BY <1>1 DEF TagInv
<1>3. \A q \in Procs : TagSound(proc[q])'
  BY <1>2 DEF TagSound, Owns
<1> QED BY <1>3 DEF TagInv

LEMMA IdleCarries ==
  \A v : ~WillSend(Idle, v) /\ ~WillStore(Idle, v)
<1>1. Idle.acks = FALSE /\ Idle.todo = <<>>
  BY DEF Idle
<1>2. Free(Idle.todo, {"PutPackageVersion"})
  BY <1>1, EmptyOrdered
<1> QED BY <1>1, <1>2 DEF WillSend, WillStore, Claimer

LEMMA AnnouncedBegin ==
  ASSUME OwnInv, NEW p \in Procs, proc[p] = Idle, NEW h \in HandlerType,
         proc' = [proc EXCEPT ![p] = h], UNCHANGED <<pkg, ver, lost>>,
         NEW v, Announced(v), InNet(v) => InNet(v)' \/ WillStore(h, v)
  PROVE  Announced(v)'
<1>1. proc \in [Procs -> HandlerType]
  BY DEF OwnInv, Handlers
<1>2. proc'[p] = h /\ \A q \in Procs : q # p => proc'[q] = proc[q]
  BY <1>1
<1>3. ASSUME WillStore(h, v) PROVE Announced(v)'
  <2>1. WillStore(proc'[p], v)
    BY <1>2, <1>3
  <2> QED BY <2>1 DEF Announced, WillStore
<1>4. ASSUME NEW q \in Procs, WillSend(proc[q], v) \/ WillStore(proc[q], v) PROVE Announced(v)'
  <2>1. q # p
    BY <1>4, IdleCarries
  <2>2. WillSend(proc'[q], v) \/ WillStore(proc'[q], v)
    BY <1>2, <1>4, <2>1
  <2> QED BY <2>2 DEF Announced, WillSend, WillStore, Claimer
<1> QED BY <1>3, <1>4 DEF Announced

\* The handlers of npm find a version before they tag it, and the ingestion of
\* a tag compares the owner.
LEMMA NpmHandlers ==
  /\ \A s \in {NpmPublish, NpmDistTagPut, NpmDistTagDelete} :
       Free(s, NotOfNpm) /\ Follows(s, Finds, Tagging)
  /\ \A s \in {NpmIngestVersion, NpmUpsertTag, NpmDeleteTag} :
       Free(s, NotOfNpm) /\ Follows(s, OwnerChecks, Tagging)
  /\ Free(NpmIngestVersion, Tagging) /\ Free(NpmDeleteTag, Tagging)
  /\ ~Free(NpmIngestVersion, {"PutPackageVersion"})
  /\ Free(NpmIngestVersion, Steps \ IngestSteps)
<1> USE DEF Free, Follows, NotOfNpm, Finds, Tagging, OwnerChecks, IngestSteps
<1>1. Free(NpmPublish, NotOfNpm) /\ Follows(NpmPublish, Finds, Tagging)
  BY DEF NpmPublish
<1>2. Free(NpmDistTagPut, NotOfNpm) /\ Follows(NpmDistTagPut, Finds, Tagging)
  BY DEF NpmDistTagPut
<1>3. Free(NpmDistTagDelete, NotOfNpm) /\ Follows(NpmDistTagDelete, Finds, Tagging)
  BY DEF NpmDistTagDelete
<1>4. Free(NpmIngestVersion, NotOfNpm) /\ Follows(NpmIngestVersion, OwnerChecks, Tagging)
  BY DEF NpmIngestVersion
<1>5. Free(NpmUpsertTag, NotOfNpm) /\ Follows(NpmUpsertTag, OwnerChecks, Tagging)
  BY DEF NpmUpsertTag
<1>6. Free(NpmDeleteTag, NotOfNpm) /\ Follows(NpmDeleteTag, OwnerChecks, Tagging)
  BY DEF NpmDeleteTag
<1>7. /\ Free(NpmIngestVersion, Tagging) /\ Free(NpmDeleteTag, Tagging)
      /\ Free(NpmIngestVersion, Steps \ IngestSteps)
  BY DEF NpmIngestVersion, NpmDeleteTag
<1>8. ~Free(NpmIngestVersion, {"PutPackageVersion"})
  BY DEF NpmIngestVersion
<1> QED BY ONLY <1>1, <1>2, <1>3, <1>4, <1>5, <1>6, <1>7, <1>8

LEMMA TagRequest ==
  ASSUME OwnInv, fmt = "npm", TagInv, NEW p \in Procs, Request(p)
  PROVE  TagInv'
<1>1. PICK h \in HandlerType : Starts(p, h) /\ Requested(h)
  BY RequestHandler
<1>2. h.owner = h.node /\ h.todo \in {NpmPublish, NpmDistTagPut, NpmDistTagDelete}
  BY <1>1 DEF Requested, PublishHandler
<1>3. TagSound(h)
  BY <1>2, NpmHandlers DEF TagSound
<1>4. /\ proc[p] = Idle /\ proc' = [proc EXCEPT ![p] = h]
      /\ UNCHANGED <<pkg, ver, tag, net, lost>>
  BY <1>1 DEF Starts, tables
<1>5. \A v : InNet(v) => InNet(v)'
  BY <1>4 DEF InNet
<1> QED BY <1>3, <1>4, <1>5, AnnouncedBegin, TagReplace

LEMMA TagIngest ==
  ASSUME OwnInv, fmt = "npm", TagInv, NEW p \in Procs, Ingest(p)
  PROVE  TagInv'
<1>1. PICK a \in BagToSet(net), h \in HandlerType :
        /\ Ingested(a, h) /\ a \in ActivityType
        /\ proc[p] = Idle /\ proc' = [proc EXCEPT ![p] = h]
        /\ net' = net (-) SetToBag({a})
        /\ UNCHANGED <<fmt, tables, acked, lost>>
  BY IngestHandlerOf DEF OwnInv
<1>2. /\ BagToSet(net') \subseteq BagToSet(net) /\ BagToSet(net) \ {a} \subseteq BagToSet(net')
  BY <1>1, BagOfOne DEF OwnInv, Tables
<1>3. /\ h.node = Follower /\ h.owner = Publisher /\ h.version = a.version
      /\ \/ a.type = "Version" /\ h.todo = NpmIngestVersion
         \/ a.type = "Tag" /\ h.todo = NpmUpsertTag
         \/ a.type = "TagDelete" /\ h.todo = NpmDeleteTag
  BY <1>1 DEF Ingested, IngestHandler, TagInv
<1>4. TagSound(h)
  <2>1. a.type = "Tag" => ver[Publisher][h.version].id # 0
    BY <1>3 DEF TagInv
  <2> QED BY <1>3, <2>1, NpmHandlers, TheNodes DEF TagSound
<1>5. ASSUME NEW v, InNet(v) PROVE InNet(v)' \/ WillStore(h, v)
  <2>1. PICK b \in BagToSet(net) : b.type = "Version" /\ b.version = v
    BY <1>5 DEF InNet
  <2>2. CASE b = a
    BY <1>3, <2>1, <2>2, NpmHandlers DEF WillStore
  <2>3. CASE b # a
    BY <1>2, <2>1, <2>3 DEF InNet
  <2> QED BY <2>2, <2>3
<1>6. /\ proc[p] = Idle /\ proc' = [proc EXCEPT ![p] = h] /\ UNCHANGED <<pkg, ver, tag, lost>>
  BY <1>1 DEF tables
<1> QED BY <1>2, <1>4, <1>5, <1>6, AnnouncedBegin, TagReplace

LEMMA TagFail ==
  ASSUME OwnInv, TagInv, NEW p \in Procs, Fail(p)
  PROVE  TagInv'
<1>1. /\ proc' = [proc EXCEPT ![p] = Idle] /\ UNCHANGED <<pkg, ver, tag, net>> /\ lost'
  BY DEF Fail, Refuse, tables
<1>2. Idle \in HandlerType /\ TagSound(Idle)
  BY IdleType, TagIdle
<1>3. \A v : Announced(v)'
  BY <1>1 DEF Announced
<1> QED BY <1>1, <1>2, <1>3, TagReplace

LEMMA TagInit ==
  ASSUME Init
  PROVE  TagInv
<1>1. BagToSet(net) = {}
  BY DEF Init, EmptyBag, SetToBag, BagToSet
<1>2. \A v \in Versions : ver[Publisher][v].id = 0
  BY IdleType, TheNodes DEF Init
<1>3. tag[Publisher] = None /\ tag[Follower] = None
  BY TheNodes DEF Init
<1>4. \A p \in Procs : TagSound(proc[p])
  BY TagIdle DEF Init
<1> QED BY <1>1, <1>2, <1>3, <1>4 DEF TagInv

LEMMA TagInductive ==
  ASSUME OwnInv, ClaimInv, fmt = "npm", TagInv, [Next]_vars
  PROVE  TagInv'
<1>1. ASSUME NEW p \in Procs, DatabaseStep(p) PROVE TagInv'
  BY <1>1, TagGetOrCreatePackage, TagRead, TagVersion, TagFile, TagTag, NoDelete
     DEF DatabaseStep
<1>2. CASE Next
  BY <1>1, <1>2, TagRequest, TagIngest, TagPublish, TagFail DEF Next
<1>3. CASE UNCHANGED vars
  BY <1>3 DEF vars, tables, TagInv, TagSound, Announced, InNet, WillSend, WillStore, Claimer, Owns
<1> QED BY <1>2, <1>3

(***************************************************************************)
(* The other formats have no tags.                                         *)
(***************************************************************************)
NoTags ==
  /\ \A p \in Procs : Free(proc[p].todo, Tagging)
  /\ \A a \in BagToSet(net) : a.type # "Tag"
  /\ \A n \in Nodes : tag[n] = None

LEMMA UntaggedHandlers ==
  /\ \A s \in {CargoPublish, PypiUpload, NugetPush, GoUpload} : Free(s, Tagging)
  /\ \A s \in {CargoSetYanked, NugetDelete, PypiCache, GoCache} : Free(s, Tagging)
  /\ \A s \in {CargoIngestVersion, PypiIngestFile, NugetIngestPackage, GoIngestModule} :
       Free(s, Tagging)
  /\ Free(NpmDeleteTag, Tagging) /\ Free(CargoApplyYank, Tagging)
<1> USE DEF Free, Tagging
<1>1. Free(CargoPublish, Tagging) /\ Free(PypiUpload, Tagging)
  BY DEF CargoPublish, PypiUpload
<1>2. Free(NugetPush, Tagging) /\ Free(GoUpload, Tagging)
  BY DEF NugetPush, GoUpload
<1>3. /\ Free(CargoSetYanked, Tagging) /\ Free(NugetDelete, Tagging)
      /\ Free(PypiCache, Tagging) /\ Free(GoCache, Tagging)
  BY DEF CargoSetYanked, NugetDelete, PypiCache, GoCache
<1>4. Free(CargoIngestVersion, Tagging) /\ Free(PypiIngestFile, Tagging)
  BY DEF CargoIngestVersion, PypiIngestFile
<1>5. Free(NugetIngestPackage, Tagging) /\ Free(GoIngestModule, Tagging)
  BY DEF NugetIngestPackage, GoIngestModule
<1>6. Free(NpmDeleteTag, Tagging) /\ Free(CargoApplyYank, Tagging)
  BY DEF NpmDeleteTag, CargoApplyYank
<1> QED BY ONLY <1>1, <1>2, <1>3, <1>4, <1>5, <1>6

\* The handlers, when one takes a step, ends or begins.
LEMMA UntaggedReplace ==
  ASSUME Handlers, NoTags, NEW p \in Procs, NEW h \in HandlerType, Free(h.todo, Tagging),
         proc' = [proc EXCEPT ![p] = h]
  PROVE  \A q \in Procs : Free(proc'[q].todo, Tagging)
BY DEF Handlers, NoTags

LEMMA UntaggedAdvance ==
  ASSUME OwnInv, NoTags, NEW p \in Procs, NEW x, At(p, x), NEW row \in RowType,
         Continue(p, row) \/ Refuse(p)
  PROVE  /\ \A q \in Procs : Free(proc'[q].todo, Tagging)
         /\ x \notin Tagging
<1> DEFINE h == proc[p]
<1>1. /\ h \in HandlerType /\ h.todo # <<>> /\ Head(h.todo) = x /\ h.todo \in Seq(Steps)
  BY AtStep DEF HandlerType
<1>2. /\ \A q \in Procs \ {p} : proc'[q] = proc[q]
      /\ proc'[p] = Idle \/ proc'[p] = Later(h, row)
  BY <1>1, Advance DEF OwnInv
<1>3. Free(Tail(h.todo), Tagging) /\ x \notin Tagging
  BY <1>1, FreeTail DEF NoTags
<1>4. Later(h, row).todo = Tail(h.todo)
  BY <1>1 DEF Later, HandlerType
<1>5. Free(Idle.todo, Tagging)
  BY EmptyOrdered, IdleType
<1>6. Free(proc'[p].todo, Tagging)
  BY <1>2, <1>3, <1>4, <1>5
<1> QED BY <1>2, <1>3, <1>6 DEF NoTags

LEMMA NoTagsBegin ==
  ASSUME OwnInv, fmt # "npm", NoTags, NEW p \in Procs, Request(p) \/ Ingest(p) \/ Fail(p)
  PROVE  NoTags'
<1>1. fmt \in AllFormats \ {"npm"}
  BY PackagesAssumption DEF OwnInv, Tables
<1>2. Free(PublishHandler, Tagging) /\ Free(IngestHandler, Tagging)
  BY <1>1, UntaggedHandlers DEF PublishHandler, IngestHandler, AllFormats
<1>3. CASE Request(p)
  <2>1. PICK h \in HandlerType : Starts(p, h) /\ Requested(h)
    BY <1>3, RequestHandler
  <2>2. Free(h.todo, Tagging)
    BY <1>2, <2>1, UntaggedHandlers DEF Requested
  <2>3. proc' = [proc EXCEPT ![p] = h] /\ UNCHANGED <<tag, net>>
    BY <2>1 DEF Starts, tables
  <2> QED BY <2>2, <2>3, UntaggedReplace DEF NoTags, OwnInv
<1>4. CASE Ingest(p)
  <2>1. PICK a \in BagToSet(net), h \in HandlerType :
          /\ Ingested(a, h) /\ proc' = [proc EXCEPT ![p] = h]
          /\ net' = net (-) SetToBag({a}) /\ UNCHANGED <<fmt, tables, acked, lost>>
    BY <1>4, IngestHandlerOf DEF OwnInv
  <2>2. BagToSet(net') \subseteq BagToSet(net) /\ UNCHANGED tag
    BY <2>1, BagOfOne DEF OwnInv, Tables, tables
  <2>3. Free(h.todo, Tagging)
    BY <1>2, <2>1, UntaggedHandlers DEF Ingested, NoTags
  <2> QED BY <2>1, <2>2, <2>3, UntaggedReplace DEF NoTags, OwnInv
<1>5. CASE Fail(p)
  <2>1. proc' = [proc EXCEPT ![p] = Idle] /\ UNCHANGED <<tag, net>>
    BY <1>5 DEF Fail, Refuse, tables
  <2>2. Idle \in HandlerType /\ Free(Idle.todo, Tagging)
    BY EmptyOrdered, IdleType
  <2> QED BY <2>1, <2>2, UntaggedReplace DEF NoTags, OwnInv
<1> QED BY <1>3, <1>4, <1>5

LEMMA NoTagsStep ==
  ASSUME OwnInv, NoTags, NEW p \in Procs, DatabaseStep(p)
  PROVE  NoTags'
<1> DEFINE h == proc[p]
<1>1. CASE GetOrCreatePackage(p) \/ Read(p) \/ DecodeMeta(p)
  <2>1. PICK x \in Steps, r \in {NoRow, Row(h.node, h.version), h.row} :
          At(p, x) /\ (Refuse(p) \/ Continue(p, r)) /\ UNCHANGED <<tag, net>>
    BY <1>1 DEF GetOrCreatePackage, Read, DecodeMeta, Guard, tables, Steps
  <2>2. h.node \in Nodes /\ h.version \in Versions /\ h.row \in RowType
    BY <2>1, AtStep
  <2>3. r \in RowType
    BY <2>1, <2>2, IdleType DEF OwnInv, Tables, Row
  <2> QED BY <2>1, <2>3, UntaggedAdvance DEF NoTags
<1>2. CASE InsertPackageVersionIfNew(p) \/ PutPackageVersion(p)
  <2>1. PICK x \in Steps, r \in RowType : At(p, x) /\ (Refuse(p) \/ Continue(p, r))
    BY <1>2, VersionKeepsIds DEF Steps
  <2>2. UNCHANGED <<tag, net>>
    BY <1>2, VersionKeepsIds
  <2> QED BY <2>1, <2>2, UntaggedAdvance DEF NoTags
<1>3. CASE PutPackageFile(p)
  <2>1. PICK x : At(p, x) /\ Continue(p, h.row) /\ UNCHANGED <<tag, net>>
    BY <1>3 DEF PutPackageFile
  <2> QED BY <2>1, AtStep, UntaggedAdvance DEF NoTags
<1>4. CASE PutPackageTag(p) \/ DeletePackageTag(p)
  <2>1. PICK x \in {"PutPackageTag", "DeletePackageTag"}, r \in {h.row, NoRow} :
          /\ At(p, x) /\ Continue(p, r) /\ UNCHANGED net
          /\ x # "PutPackageTag" => tag' = [tag EXCEPT ![h.node] = None]
    BY <1>4 DEF PutPackageTag, DeletePackageTag
  <2>2. r \in RowType
    BY <2>1, AtStep, IdleType
  <2>3. x \notin Tagging /\ \A q \in Procs : Free(proc'[q].todo, Tagging)
    BY <2>1, <2>2, UntaggedAdvance
  <2>4. \A n \in Nodes : tag'[n] = None
    BY <2>1, <2>3 DEF Tagging, NoTags, OwnInv, Tables
  <2> QED BY <2>1, <2>3, <2>4 DEF NoTags
<1>5. CASE DeletePackageVersion(p)
  <2>1. /\ proc' = [proc EXCEPT ![p] = Idle] /\ UNCHANGED net
        /\ tag' = [tag EXCEPT ![h.node] = IF @ = h.version THEN None ELSE @]
    BY <1>5 DEF DeletePackageVersion
  <2>2. Idle \in HandlerType /\ Free(Idle.todo, Tagging)
    BY EmptyOrdered, IdleType
  <2>3. \A n \in Nodes : tag'[n] = None
    BY <2>1 DEF NoTags, OwnInv, Tables
  <2> QED BY <2>1, <2>2, <2>3, UntaggedReplace DEF NoTags, OwnInv
<1> QED BY <1>1, <1>2, <1>3, <1>4, <1>5 DEF DatabaseStep

LEMMA NoTagsPublish ==
  ASSUME OwnInv, NoTags, NEW p \in Procs, PublishStep(p)
  PROVE  NoTags'
<1>1. PICK x \in {"PublishVersion", "PublishTag", "PublishTagDelete", "PublishYank"},
           type \in {"Version", "Tag", "TagDelete", "Yank"}, dec \in BOOLEAN :
        /\ At(p, x) /\ Send(p, Object(p, type, dec))
        /\ type = "Tag" => x = "PublishTag"
  BY DEF PublishStep, PublishedVersion, NpmPublishVersion, NpmPublishTag,
         CargoPublishVersion, CargoPublishYank, PypiPublishFile, NugetPublishPackage,
         GoPublishModule
<1> DEFINE a == Object(p, type, dec)
<1>2. /\ Continue(p, proc[p].row) /\ UNCHANGED tag
      /\ net' = net \/ net' = net (+) SetToBag({a})
  BY <1>1 DEF Send, tables
<1>3. x \notin Tagging /\ \A q \in Procs : Free(proc'[q].todo, Tagging)
  BY <1>1, <1>2, AtStep, UntaggedAdvance
<1>4. a.type # "Tag"
  BY <1>1, <1>3 DEF Object, Tagging
<1> HIDE DEF a
<1>5. BagToSet(net (+) SetToBag({a})) = BagToSet(net) \union {a}
  BY BagOfOne DEF OwnInv, Tables
<1> QED BY <1>2, <1>3, <1>4, <1>5 DEF NoTags

LEMMA NoTagsInductive ==
  ASSUME OwnInv, fmt # "npm", NoTags, [Next]_vars
  PROVE  NoTags'
<1>1. CASE Next
  BY <1>1, NoTagsBegin, NoTagsStep, NoTagsPublish DEF Next
<1>2. CASE UNCHANGED vars
  BY <1>2 DEF vars, tables, NoTags
<1> QED BY <1>1, <1>2

ResolveInv ==
  /\ ImmutableInv
  /\ fmt = "npm" => TagInv
  /\ fmt # "npm" => NoTags

\* When all is quiet and nothing was lost, what the publisher has has arrived.
LEMMA QuietArrived ==
  ASSUME Quiet, ~lost, NEW v, Announced(v), pkg[Follower] = Publisher
  PROVE  ver[Follower][v].id # 0
<1>1. BagToSet(net) = {}
  BY DEF Quiet, EmptyBag, SetToBag, BagToSet
<1>2. ~InNet(v)
  BY <1>1 DEF InNet
<1>3. \A p \in Procs : ~WillSend(proc[p], v) /\ ~WillStore(proc[p], v)
  BY IdleCarries DEF Quiet
<1> QED BY <1>2, <1>3 DEF Announced

(***************************************************************************)
(* npm (handleDistTagPut, handlePublish, upsertTag): on the publisher a    *)
(* dist-tag always names a version that exists, and so does one on the     *)
(* follower once all that was sent is ingested and nothing failed, in      *)
(* whatever order the tags and the versions arrived.                       *)
(***************************************************************************)
THEOREM DistTagsResolve == Spec => []TagsResolve
<1>1. ResolveInv => TagsResolve
  <2> SUFFICES ASSUME ResolveInv, NEW n \in Nodes, tag[n] # None,
                      n = Publisher \/ (Quiet /\ ~lost)
               PROVE  Row(n, tag[n]).id # 0
    BY DEF TagsResolve
  <2>1. TagInv
    BY DEF ResolveInv, NoTags
  <2>2. CASE n = Publisher
    BY <2>1, <2>2 DEF TagInv, Row
  <2>3. CASE n # Publisher
    <3>1. n = Follower /\ Quiet /\ ~lost
      BY <2>3 DEF Nodes
    <3>2. tag[Follower] \in Versions
      BY <3>1, TheNodes DEF ResolveInv, ImmutableInv, OwnInv, Tables
    <3>3. CASE pkg[Follower] = Publisher /\ ver[Publisher][tag[Follower]].id # 0
      <4>1. Announced(tag[Follower])
        BY <2>1, <3>2, <3>3 DEF TagInv
      <4>2. ver[Follower][tag[Follower]].id # 0
        BY <3>1, <3>3, <4>1, QuietArrived
      <4> QED BY <3>1, <4>2 DEF Row
    <3> QED BY <2>1, <3>1, <3>3 DEF TagInv, Row
  <2> QED BY <2>2, <2>3
<1>2. Init => ResolveInv
  <2>1. ASSUME Init PROVE NoTags
    <3>1. BagToSet(net) = {}
      BY <2>1 DEF Init, EmptyBag, SetToBag, BagToSet
    <3>2. \A p \in Procs : Free(proc[p].todo, Tagging)
      BY <2>1, EmptyOrdered, IdleType DEF Init
    <3> QED BY <2>1, <3>1, <3>2 DEF Init, NoTags
  <2> QED BY <2>1, OwnInit, ClaimInit, TagInit DEF ResolveInv, ImmutableInv
<1>3. ResolveInv /\ [Next]_vars => ResolveInv'
  <2> SUFFICES ASSUME ResolveInv, [Next]_vars PROVE ResolveInv'
    OBVIOUS
  <2>1. OwnInv /\ ImmutableInv' /\ fmt' = fmt
    BY ImmutableInductive, FormatKept DEF ResolveInv, ImmutableInv
  <2>2. fmt = "npm" => TagInv'
    BY <2>1, TagInductive DEF ResolveInv, ImmutableInv, Claiming
  <2>3. fmt # "npm" => NoTags'
    BY <2>1, NoTagsInductive DEF ResolveInv
  <2> QED BY <2>1, <2>2, <2>3 DEF ResolveInv
<1> QED BY <1>1, <1>2, <1>3, PTL DEF Spec
-----------------------------------------------------------------------------
(***************************************************************************)
(* What the follower serves.  The formats other than nuget, whose          *)
(* deletions are not published and whose activities cannot be decoded.     *)
(*                                                                         *)
(* Steps that write files, that leave a handler with a version row in its  *)
(* hands or without one, that may end it, and those of an ingestion.       *)
(***************************************************************************)
Files    == {"PutPackageFile", "PutModFile"}
Stores   == {"InsertPackageVersionIfNew", "PutPackageVersion", "PutVersionIfNil"}
Drops    == Clears \union {"WriteYank"}
Refusals ==
  {"GetOrCreatePackage", "LookupOwnedPackage", "GetPackage", "RequireVersion", "RefuseExisting",
   "SkipIfYanked", "RefuseExistingFile", "DecodeMeta", "InsertPackageVersionIfNew"}
CopySteps ==
  {"GetOrCreatePackage", "GetPackageVersion", "PutVersionIfNil", "PutPackageVersion",
   "PutPackageFile"}

HasMain(n, v) ==
  ver[n][v].id # 0 /\ \E f \in files[n] : f.id = ver[n][v].id /\ f.name = "main"

(***************************************************************************)
(* A content of a version is one that the publisher has accepted, or will  *)
(* accept because nothing in its way can refuse any more.                  *)
(***************************************************************************)
Committed(h, v, c) ==
  /\ h.acks /\ h.node = Publisher /\ h.version = v /\ h.content = c
  /\ h.todo # <<>> /\ Free(h.todo, Refusals)

Accept(n, v, c) == [node |-> n, version |-> v, content |-> c]

Accepting(v, c) ==
  \/ lost \/ Accept(Publisher, v, c) \in acked
  \/ \E p \in Procs : Committed(proc[p], v, c)

(***************************************************************************)
(* The file of a version is on its way to the follower or there.           *)
(***************************************************************************)
WillCopy(h, v) ==
  /\ h.node = Follower /\ h.owner = Publisher /\ h.version = v
  /\ ~Free(h.todo, {"PutPackageFile"}) /\ Free(h.todo, Steps \ CopySteps)

OnItsWay(v) ==
  \/ lost \/ InNet(v) \/ \E p \in Procs : WillCopy(proc[p], v)
  \/ HasMain(Follower, v) \/ pkg[Follower] \notin {None, Publisher}

(***************************************************************************)
(* A handler writes a file for the version row it has, and is not refused  *)
(* after that; only publications write files of their own node and send    *)
(* versions, and what they still owe is in their steps.                    *)
(***************************************************************************)
Arranged(s) ==
  /\ NoneAfter(s, {"PutPackageFile", "PublishVersion"}, Refusals)
  /\ NoneAfter(s, Stores, Drops)
  /\ Free(s, {"DeletePackageVersion"})

RowSound(h) ==
  /\ Follows(h.todo, Stores, Files) \/ (h.row.id # 0 /\ Free(h.todo, Drops))
  /\ h.row.id # 0 => h.todo # <<>> /\ ver[h.node][h.version].id = h.row.id

RoleSound(h) ==
  /\ h.acks => h.owner = h.node /\ h.todo # <<>> /\ h.content \in Contents
  /\ ~h.acks => /\ Free(h.todo, {"PublishVersion"})
                /\ h.owner = h.node => Free(h.todo, {"PutPackageFile"})

OweSound(h) ==
  /\ h.acks => ~Free(h.todo, {"PutPackageFile"}) \/ HasMain(h.node, h.version)
  /\ h.acks /\ h.node = Publisher =>
       ~Free(h.todo, {"PublishVersion"}) \/ OnItsWay(h.version)
  /\ h.node = Follower /\ h.owner = Publisher /\ ~Free(h.todo, {"PutPackageFile"}) =>
       Accepting(h.version, h.content)

CopySound(h) == Arranged(h.todo) /\ RowSound(h) /\ RoleSound(h) /\ OweSound(h)

Genuine ==
  /\ \A a \in BagToSet(net) : a.type = "Version" => Accepting(a.version, a.content)
  /\ \A n \in Nodes, v \in Versions : \A f \in files[n] :
       f.name = "main" /\ f.id = ver[n][v].id /\ f.by = Publisher => Accepting(v, f.content)

CopyInv ==
  /\ acked \subseteq [node : Nodes, version : Versions, content : Contents] /\ IsFiniteSet(acked)
  /\ \A n \in Nodes : \A f \in files[n] : f.id <= lastId[n] /\ f.id # 0
  /\ \A p \in Procs : CopySound(proc[p])
  /\ \A a \in acked :
       HasMain(a.node, a.version) /\ (a.node = Publisher => OnItsWay(a.version))
  /\ Genuine

\* A handler that ends with success is answered; nobody else is.
LEMMA AckedStep ==
  ASSUME OwnInv, NEW p \in Procs, proc[p].todo # <<>>, NEW row,
         Continue(p, row) \/ Refuse(p), IsFiniteSet(acked)
  PROVE  /\ acked \subseteq acked' /\ IsFiniteSet(acked')
         /\ \A a \in acked' :
              \/ a \in acked
              \/ /\ Tail(proc[p].todo) = <<>> /\ proc[p].acks
                 /\ a = Accept(proc[p].node, proc[p].version, proc[p].content)
         /\ Continue(p, row) /\ Tail(proc[p].todo) = <<>> /\ proc[p].acks =>
              Accept(proc[p].node, proc[p].version, proc[p].content) \in acked'
<1> DEFINE h == proc[p]
           a == Accept(h.node, h.version, h.content)
<1>1. CASE acked' = acked /\ (Refuse(p) \/ Tail(h.todo) # <<>> \/ ~h.acks)
  <2>1. CASE Continue(p, row) /\ Tail(h.todo) = <<>> /\ h.acks
    <3>1. acked' = acked \union {a}
      BY <2>1 DEF Continue, Accept
    <3> QED BY <1>1, <2>1, <3>1
  <2> QED BY <1>1, <2>1
<1>2. CASE acked' = acked \union {a} /\ Tail(h.todo) = <<>> /\ h.acks
  <2>1. IsFiniteSet(acked')
    BY <1>2, FS_AddElement
  <2> QED BY <1>2, <2>1
<1>3. \/ acked' = acked /\ (Refuse(p) \/ Tail(h.todo) # <<>> \/ ~h.acks)
      \/ acked' = acked \union {a} /\ Tail(h.todo) = <<>> /\ h.acks
  BY DEF Continue, Refuse, Accept
<1> QED BY <1>1, <1>2, <1>3

\* What is accepted stays so, and a publication past its last refusal is.
LEMMA AcceptingStep ==
  ASSUME OwnInv, IsFiniteSet(acked), lost => lost',
         NEW p \in Procs, NEW x, At(p, x), NEW row \in RowType,
         Continue(p, row) \/ (Refuse(p) /\ x \in Refusals)
  PROVE  /\ \A v, c : Accepting(v, c) => Accepting(v, c)'
         /\ x \notin Refusals /\ Free(Tail(proc[p].todo), Refusals) /\ proc[p].acks
              /\ proc[p].node = Publisher =>
            \A h \in {proc[p]} : Accepting(h.version, h.content)'
<1> DEFINE h == proc[p]
<1>1. /\ h \in HandlerType /\ h.todo # <<>> /\ Head(h.todo) = x /\ h.todo \in Seq(Steps)
  BY AtStep DEF HandlerType
<1>2. Handlers /\ proc \in [Procs -> HandlerType]
  BY DEF OwnInv, Handlers
<1>3. \A q \in Procs \ {p} : proc'[q] = proc[q]
  BY <1>1, <1>2, Advance
<1>4. ASSUME Continue(p, row), Tail(h.todo) # <<>> PROVE proc'[p] = Later(h, row)
  BY <1>1, <1>2, <1>4 DEF Continue, Later, Handlers, HandlerType
<1>5. /\ acked \subseteq acked'
      /\ Continue(p, row) /\ Tail(h.todo) = <<>> /\ h.acks =>
              Accept(h.node, h.version, h.content) \in acked'
  BY <1>1, AckedStep
<1>6. ASSUME x \notin Refusals, Free(Tail(h.todo), Refusals), h.acks, h.node = Publisher,
             NEW v, NEW c, v = h.version, c = h.content
      PROVE  Accepting(v, c)'
  <2>1. Continue(p, row)
    BY <1>6
  <2>2. CASE Tail(h.todo) = <<>>
    BY <1>5, <1>6, <2>1, <2>2 DEF Accepting, Accept
  <2>3. CASE Tail(h.todo) # <<>>
    <3>1. proc'[p] = Later(h, row)
      BY <1>4, <2>1, <2>3
    <3>2. /\ proc'[p].todo = Tail(h.todo) /\ proc'[p].node = h.node
          /\ proc'[p].version = h.version /\ proc'[p].content = h.content
      BY <1>1, <3>1 DEF Later, HandlerType
    <3>3. proc'[p].acks = h.acks
      BY <1>1, <3>1 DEF Later, HandlerType
    <3>4. Committed(proc'[p], v, c)
      BY <1>6, <2>3, <3>2, <3>3, Zenon DEF Committed
    <3>5. Committed(proc[p], v, c)'
      BY <3>4 DEF Committed
    <3> QED BY <3>5 DEF Accepting
  <2> QED BY <2>2, <2>3
<1>7. ASSUME NEW v, NEW c, Accepting(v, c) PROVE Accepting(v, c)'
  <2>1. CASE lost
    BY <2>1 DEF Accepting
  <2>2. CASE Accept(Publisher, v, c) \in acked
    BY <1>5, <2>2 DEF Accepting, Accept
  <2>3. ASSUME NEW q \in Procs, q # p, Committed(proc[q], v, c) PROVE Accepting(v, c)'
    <3>1. Committed(proc'[q], v, c)
      BY <1>3, <2>3
    <3>2. Committed(proc[q], v, c)'
      BY <3>1 DEF Committed
    <3> QED BY <3>2 DEF Accepting
  <2>4. CASE Committed(h, v, c)
    <3>1. x \notin Refusals /\ Free(Tail(h.todo), Refusals)
      BY <1>1, <2>4, FreeTail DEF Committed
    <3> QED BY <1>6, <2>4, <3>1 DEF Committed
  <2> QED BY <1>7, <2>1, <2>2, <2>3, <2>4 DEF Accepting
<1> QED BY <1>6, <1>7

LEMMA OnItsWayStep ==
  ASSUME OwnInv, Steady, lost => lost', BagToSet(net) \subseteq BagToSet(net'),
         NEW p \in Procs, NEW x, At(p, x), NEW row \in RowType, Continue(p, row) \/ Refuse(p),
         NEW v, OnItsWay(v), HasMain(Follower, v) => HasMain(Follower, v)',
         WillCopy(proc[p], v) =>
           IF x = "PutPackageFile" THEN HasMain(Follower, v)'
           ELSE Continue(p, row) \/ pkg'[Follower] \notin {None, Publisher}
  PROVE  OnItsWay(v)'
<1> DEFINE h == proc[p]
<1>1. /\ h \in HandlerType /\ h.todo # <<>> /\ Head(h.todo) = x /\ h.todo \in Seq(Steps)
  BY AtStep DEF HandlerType
<1>2. Handlers /\ proc \in [Procs -> HandlerType]
  BY DEF OwnInv, Handlers
<1>3. \A q \in Procs \ {p} : proc'[q] = proc[q]
  BY <1>1, <1>2, Advance
<1>4. ASSUME Continue(p, row), Tail(h.todo) # <<>> PROVE proc'[p] = Later(h, row)
  BY <1>1, <1>2, <1>4 DEF Continue, Later, Handlers, HandlerType
<1>5. CASE lost \/ InNet(v) \/ HasMain(Follower, v)
  BY <1>5 DEF OnItsWay, InNet
<1>6. CASE pkg[Follower] \notin {None, Publisher}
  BY <1>6, TheNodes DEF OnItsWay, Steady
<1>7. ASSUME NEW q \in Procs, q # p, WillCopy(proc[q], v) PROVE OnItsWay(v)'
  <2>1. WillCopy(proc[q], v)'
    BY <1>3, <1>7 DEF WillCopy
  <2> QED BY <2>1 DEF OnItsWay
<1>8. ASSUME WillCopy(h, v) PROVE OnItsWay(v)'
  <2>1. CASE x = "PutPackageFile" \/ pkg'[Follower] \notin {None, Publisher}
    BY <1>8, <2>1 DEF OnItsWay
  <2>2. CASE x # "PutPackageFile" /\ Continue(p, row)
    <3>1. ~Free(Tail(h.todo), {"PutPackageFile"}) /\ Tail(h.todo) # <<>>
      BY <1>1, <1>8, <2>2, StillToCome DEF WillCopy
    <3>2. Free(Tail(h.todo), Steps \ CopySteps)
      BY <1>1, <1>8, FreeTail DEF WillCopy
    <3>3. proc'[p] = Later(h, row)
      BY <1>4, <2>2, <3>1
    <3>4. /\ proc'[p].todo = Tail(h.todo) /\ proc'[p].owner = h.owner
          /\ proc'[p].node = h.node /\ proc'[p].version = h.version
      BY <1>1, <3>3 DEF Later, HandlerType
    <3>5. WillCopy(proc[p], v)'
      BY <1>8, <3>1, <3>2, <3>4 DEF WillCopy
    <3> QED BY <3>5 DEF OnItsWay
  <2> QED BY <1>8, <2>1, <2>2
<1> QED BY <1>5, <1>6, <1>7, <1>8 DEF OnItsWay

(***************************************************************************)
(* A handler that goes on, from what its step has done.                    *)
(***************************************************************************)
LEMMA CopyLater ==
  ASSUME NEW h \in HandlerType, h.todo # <<>>, CopySound(h), NEW row \in RowType,
         Tail(h.todo) # <<>>,
         row.id # 0 => ver'[h.node][h.version].id = row.id,
         Head(h.todo) \in Stores => row.id # 0,
         Head(h.todo) \notin Drops /\ h.row.id # 0 => row.id # 0,
         HasMain(h.node, h.version) \/ Head(h.todo) = "PutPackageFile" =>
           HasMain(h.node, h.version)',
         h.acks /\ h.node = Publisher
           /\ (OnItsWay(h.version) \/ Head(h.todo) = "PublishVersion") => OnItsWay(h.version)',
         Accepting(h.version, h.content) => Accepting(h.version, h.content)'
  PROVE  CopySound(Later(h, row))'
<1> DEFINE g == Later(h, row)
           s == h.todo
           x == Head(h.todo)
<1>1. /\ g.todo = Tail(s) /\ g.row = row /\ g.owner = h.owner /\ g.node = h.node
      /\ g.version = h.version /\ g.content = h.content
      /\ s \in Seq(Steps) /\ s # <<>>
  BY DEF Later, HandlerType
<1>2. g.acks = h.acks
  BY DEF Later, HandlerType
<1> HIDE DEF g
<1>3. Arranged(g.todo)
  BY <1>1, NoneAfterTail, FreeTail DEF CopySound, Arranged
<1>4. RowSound(g)'
  <2>1. Follows(g.todo, Stores, Files) \/ (row.id # 0 /\ Free(g.todo, Drops))
    <3>1. CASE Head(s) \in Stores
      BY <1>1, <3>1, NoneAfterTail DEF CopySound, Arranged
    <3>2. CASE Head(s) \notin Stores /\ Follows(s, Stores, Files)
      BY <1>1, <3>2, FollowsTail
    <3>3. CASE h.row.id # 0 /\ Free(s, Drops)
      BY <1>1, <3>3, FreeTail
    <3> QED BY <3>1, <3>2, <3>3 DEF CopySound, RowSound
  <2> QED BY <1>1, <2>1 DEF RowSound, g
<1>5. \A Z : Free(s, Z) => Free(g.todo, Z)
  BY <1>1, FreeTail
<1>6. RoleSound(g)
  <2>1. RoleSound(h)
    BY DEF CopySound
  <2>2. h.acks => h.owner = h.node /\ g.todo # <<>> /\ h.content \in Contents
    BY <1>1, <2>1 DEF RoleSound
  <2>3. ~h.acks => /\ Free(g.todo, {"PublishVersion"})
                   /\ h.owner = h.node => Free(g.todo, {"PutPackageFile"})
    BY <1>5, <2>1 DEF RoleSound
  <2> QED BY <1>1, <1>2, <2>2, <2>3, Zenon DEF RoleSound
<1>7. OweSound(h)
  BY DEF CopySound
<1>8. \A Z : ~Free(s, Z) => ~Free(g.todo, Z) \/ Head(s) \in Z
  BY <1>1, StillToCome
<1>9. h.acks => ~Free(g.todo, {"PutPackageFile"}) \/ HasMain(h.node, h.version)'
  BY <1>7, <1>8 DEF OweSound
<1>10. h.acks /\ h.node = Publisher =>
         ~Free(g.todo, {"PublishVersion"}) \/ OnItsWay(h.version)'
  BY <1>7, <1>8 DEF OweSound
<1>11. h.node = Follower /\ h.owner = Publisher /\ ~Free(g.todo, {"PutPackageFile"}) =>
         Accepting(h.version, h.content)'
  BY <1>5, <1>7 DEF OweSound
<1>12. OweSound(g)'
  BY <1>1, <1>2, <1>9, <1>10, <1>11, Zenon DEF OweSound, g
<1>13. RoleSound(g)' /\ Arranged(g.todo)'
  BY <1>3, <1>6 DEF RoleSound, Arranged, g
<1> QED BY <1>4, <1>12, <1>13 DEF CopySound, g

\* A handler that does not move.
LEMMA CopyFrame ==
  ASSUME NEW h \in HandlerType, CopySound(h), h.todo # <<>> => h.version \in Versions,
         KeepIds,
         \A n \in Nodes, v \in Versions : HasMain(n, v) => HasMain(n, v)',
         \A v \in Versions : OnItsWay(v) => OnItsWay(v)',
         \A v, c : Accepting(v, c) => Accepting(v, c)'
  PROVE  CopySound(h)'
<1>1. h.acks \in BOOLEAN /\ h.node \in Nodes
  BY DEF HandlerType
<1>2. Arranged(h.todo)' /\ RoleSound(h)'
  BY DEF CopySound, Arranged, RoleSound
<1>3. RowSound(h)'
  <2>1. RowSound(h)
    BY DEF CopySound
  <2>2. h.row.id # 0 => ver'[h.node][h.version].id = h.row.id
    BY <1>1, <2>1 DEF RowSound, KeepIds
  <2> QED BY <2>1, <2>2 DEF RowSound
<1>4. OweSound(h)'
  <2>1. OweSound(h) /\ RoleSound(h)
    BY DEF CopySound
  <2>2. CASE h.todo # <<>>
    BY <1>1, <2>1, <2>2 DEF OweSound
  <2>3. CASE h.todo = <<>> /\ ~h.acks
    <3>1. Free(h.todo, {"PutPackageFile"})
      BY <2>3, EmptyOrdered
    <3> QED BY <2>3, <3>1 DEF OweSound
  <2> QED BY <1>1, <2>1, <2>2, <2>3 DEF RoleSound
<1> QED BY <1>2, <1>3, <1>4 DEF CopySound

LEMMA CopyIdle ==
  CopySound(Idle)'
<1>1. Idle.todo = <<>> /\ Idle.row.id = 0 /\ Idle.acks = FALSE
  BY IdleType DEF Idle
<1>2. /\ \A Z : Free(Idle.todo, Z)
      /\ \A X, Z : Follows(Idle.todo, X, Z) /\ NoneAfter(Idle.todo, X, Z)
  BY <1>1, EmptyOrdered
<1>3. Arranged(Idle.todo)' /\ RowSound(Idle)'
  BY <1>1, <1>2 DEF Arranged, RowSound
<1>4. RoleSound(Idle)' /\ OweSound(Idle)'
  BY <1>1, <1>2 DEF RoleSound, OweSound
<1> QED BY <1>3, <1>4 DEF CopySound

(***************************************************************************)
(* A step of a handler: what it may write and send, and for what.          *)
(***************************************************************************)
LEMMA CopyStep ==
  ASSUME OwnInv, OwnInv', CopyInv, Steady, KeepIds, FreshIds, lost => lost',
         NEW p \in Procs, NEW x, At(p, x), NEW row \in RowType,
         \/ Refuse(p) /\ x \in Refusals
         \/ /\ Continue(p, row)
            /\ row.id # 0 => ver'[proc[p].node][proc[p].version].id = row.id
            /\ x \in Stores => row.id # 0
            /\ x \notin Drops /\ proc[p].row.id # 0 => row.id # 0,
         \A n \in Nodes, v \in Versions : HasMain(n, v) => HasMain(n, v)',
         x = "PutPackageFile" => \A h \in {proc[p]} : HasMain(h.node, h.version)',
         BagToSet(net) \subseteq BagToSet(net'),
         \A a \in BagToSet(net') : a.type = "Version" =>
           \/ a \in BagToSet(net)
           \/ /\ x = "PublishVersion" /\ proc[p].node = Publisher
              /\ a.version = proc[p].version /\ a.content = proc[p].content,
         x = "PublishVersion" /\ proc[p].node = Publisher =>
           lost' \/ \A h \in {proc[p]} : InNet(h.version)',
         \A n \in Nodes : \A f \in files'[n] :
           \/ f \in files[n]
           \/ /\ x \in Files /\ n = proc[p].node /\ f.id = proc[p].row.id
              /\ f.content = proc[p].content /\ f.by = proc[p].owner
              /\ f.name = "main" => x = "PutPackageFile",
         \A v \in Versions : WillCopy(proc[p], v) /\ x # "PutPackageFile" =>
           Continue(p, row) \/ pkg'[Follower] \notin {None, Publisher}
  PROVE  CopyInv'
<1> DEFINE h == proc[p]
<1>1. /\ h \in HandlerType /\ h.todo # <<>> /\ Head(h.todo) = x /\ h.todo \in Seq(Steps)
      /\ h.node \in Nodes /\ h.version \in Versions /\ h.content \in Stuff
      /\ h.owner # None
  BY AtStep DEF HandlerType
<1>2. Handlers /\ proc \in [Procs -> HandlerType]
  BY DEF OwnInv, Handlers
<1>3. CopySound(h) /\ IsFiniteSet(acked)
  BY DEF CopyInv
<1>4. /\ \A q \in Procs \ {p} : proc'[q] = proc[q]
      /\ proc'[p] = Idle \/ proc'[p] = Later(h, row)
  BY <1>1, <1>2, Advance
<1>5. /\ acked \subseteq acked' /\ IsFiniteSet(acked')
      /\ \A a \in acked' :
           \/ a \in acked
           \/ Tail(h.todo) = <<>> /\ h.acks /\ a = Accept(h.node, h.version, h.content)
  BY <1>1, <1>3, AckedStep
<1>6. \A v, c : Accepting(v, c) => Accepting(v, c)'
  BY <1>3, AcceptingStep
<1>7. ASSUME x \in {"PutPackageFile", "PublishVersion"}, h.acks, h.node = Publisher,
             NEW v, NEW c, v = h.version, c = h.content
      PROVE  Accepting(v, c)'
  <2>1. x \notin Refusals
    BY <1>7 DEF Refusals
  <2>2. Free(Tail(h.todo), Refusals)
    BY <1>1, <1>3, <1>7, NoneAfterTail DEF CopySound, Arranged
  <2> QED BY <1>3, <1>7, <2>1, <2>2, AcceptingStep
<1>8. ASSUME NEW v \in Versions, OnItsWay(v) PROVE OnItsWay(v)'
  <2>1. HasMain(Follower, v) => HasMain(Follower, v)'
    BY TheNodes
  <2>2. WillCopy(h, v) /\ x = "PutPackageFile" => HasMain(Follower, v)'
    BY DEF WillCopy
  <2> QED BY <1>8, <2>1, <2>2, OnItsWayStep
<1>9. ASSUME x = "PublishVersion", h.node = Publisher, NEW v, v = h.version
      PROVE  OnItsWay(v)'
  BY <1>9 DEF OnItsWay
<1>10. x \in Files => h.row.id # 0 /\ ver[h.node][h.version].id = h.row.id
  BY <1>1, <1>3, FollowsTail DEF CopySound, RowSound
<1>11. ASSUME h.acks, Tail(h.todo) = <<>>, NEW n, NEW v, n = h.node, v = h.version
       PROVE  HasMain(n, v)' /\ (n = Publisher => OnItsWay(v)')
  <2>1. \A Z : Free(Tail(h.todo), Z)
    BY <1>11, EmptyOrdered
  <2>2. \A Z : ~Free(h.todo, Z) => x \in Z
    BY <1>1, <2>1, StillToCome
  <2>3. OweSound(h)
    BY <1>3 DEF CopySound
  <2>4. HasMain(n, v)'
    BY <1>1, <1>11, <2>2, <2>3 DEF OweSound
  <2>5. n = Publisher => OnItsWay(v)'
    BY <1>1, <1>8, <1>9, <1>11, <2>2, <2>3 DEF OweSound
  <2> QED BY <2>4, <2>5
<1>12. /\ acked' \subseteq [node : Nodes, version : Versions, content : Contents]
       /\ \A a \in acked' :
            HasMain(a.node, a.version)' /\ (a.node = Publisher => OnItsWay(a.version)')
  <2> SUFFICES ASSUME NEW a \in acked'
               PROVE  /\ a \in [node : Nodes, version : Versions, content : Contents]
                      /\ HasMain(a.node, a.version)'
                      /\ a.node = Publisher => OnItsWay(a.version)'
    OBVIOUS
  <2>1. CASE a \in acked
    <3>1. a \in [node : Nodes, version : Versions, content : Contents]
          /\ HasMain(a.node, a.version) /\ (a.node = Publisher => OnItsWay(a.version))
      BY <2>1 DEF CopyInv
    <3> QED BY <1>8, <3>1
  <2>2. CASE h.acks /\ Tail(h.todo) = <<>> /\ a = Accept(h.node, h.version, h.content)
    <3>1. a.node = h.node /\ a.version = h.version
          /\ a \in [node : Nodes, version : Versions, content : Contents]
      BY <1>1, <1>3, <2>2 DEF Accept, CopySound, RoleSound
    <3> QED BY <1>11, <2>2, <3>1
  <2> QED BY <1>5, <2>1, <2>2
<1>13. ASSUME NEW q \in Procs PROVE CopySound(proc[q])'
  <2>1. CASE q # p
    <3>1. \A g \in {proc[q]} : CopySound(g)'
      <4>1. /\ proc[q] \in HandlerType /\ CopySound(proc[q])
            /\ proc[q].todo # <<>> => proc[q].version \in Versions
        BY <1>2 DEF CopyInv, Handlers
      <4> QED BY <1>6, <1>8, <4>1, CopyFrame
    <3>2. \A g : proc'[q] = g /\ CopySound(g)' => CopySound(proc[q])'
      BY DEF CopySound, Arranged, RowSound, RoleSound, OweSound
    <3> QED BY <1>4, <2>1, <3>1, <3>2
  <2>2. CASE q = p
    <3>1. \A g : proc'[p] = g /\ CopySound(g)' => CopySound(proc[p])'
      BY DEF CopySound, Arranged, RowSound, RoleSound, OweSound
    <3>2. CASE proc'[p] = Idle
      BY <2>2, <3>1, <3>2, CopyIdle
    <3>3. CASE proc'[p] # Idle
      <4>1. Continue(p, row) /\ Tail(h.todo) # <<>> /\ proc'[p] = Later(h, row)
        BY <1>2, <1>4, <3>3 DEF Continue, Refuse
      <4>2. /\ row.id # 0 => ver'[h.node][h.version].id = row.id
            /\ x \in Stores => row.id # 0
            /\ x \notin Drops /\ h.row.id # 0 => row.id # 0
        BY <1>2, <3>3 DEF Refuse
      <4>3. \A g \in {h} : CopySound(Later(g, row))'
        <5> SUFFICES ASSUME NEW g, g = h PROVE CopySound(Later(g, row))'
          OBVIOUS
        <5>1. /\ HasMain(g.node, g.version) \/ Head(g.todo) = "PutPackageFile" =>
                   HasMain(g.node, g.version)'
          BY <1>1
        <5>2. g.acks /\ g.node = Publisher
               /\ (OnItsWay(g.version) \/ Head(g.todo) = "PublishVersion") => OnItsWay(g.version)'
          BY <1>1, <1>8, <1>9
        <5>3. Accepting(g.version, g.content) => Accepting(g.version, g.content)'
          BY <1>6
        <5> QED BY <1>1, <1>3, <4>1, <4>2, <5>1, <5>2, <5>3, CopyLater
      <4>4. \A g : proc'[p] = Later(g, row) /\ CopySound(Later(g, row))' => CopySound(proc[p])'
        BY DEF CopySound, Arranged, RowSound, RoleSound, OweSound, Later
      <4> QED BY <2>2, <4>1, <4>3, <4>4
    <3> QED BY <3>2, <3>3
  <2> QED BY <2>1, <2>2
<1>14. ASSUME NEW a \in BagToSet(net'), a.type = "Version" PROVE Accepting(a.version, a.content)'
  <2>1. CASE a \in BagToSet(net)
    <3>1. Accepting(a.version, a.content)
      BY <1>14, <2>1 DEF CopyInv, Genuine
    <3> QED BY <1>6, <3>1
  <2>2. CASE x = "PublishVersion" /\ h.node = Publisher
             /\ a.version = h.version /\ a.content = h.content
    <3>1. ~Free(h.todo, {"PublishVersion"})
      BY <1>1, <2>2, FreeTail
    <3>2. h.acks
      BY <1>3, <3>1 DEF CopySound, RoleSound
    <3> QED BY <1>7, <2>2, <3>2
  <2> QED BY <1>14, <2>1, <2>2
<1>15. Tables /\ Keys
  BY DEF OwnInv
<1>16. ASSUME NEW n \in Nodes, NEW f \in files'[n]
       PROVE  /\ f.id <= lastId[n] /\ f.id # 0 /\ f.id \in Nat
              /\ f.id <= lastId'[n]
  <2>1. lastId[n] \in Nat /\ lastId'[n] \in Nat /\ lastId[n] <= lastId'[n]
    BY DEF OwnInv, Tables, FreshIds
  <2>2. CASE f \in files[n]
    <3>1. f.id \in Nat /\ f.id <= lastId[n] /\ f.id # 0
      BY <1>15, <2>2 DEF CopyInv, Tables, FileType
    <3> QED BY <2>1, <3>1
  <2>3. CASE x \in Files /\ n = h.node /\ f.id = h.row.id
    <3>1. f.id \in Nat /\ f.id # 0 /\ f.id <= lastId[n]
      BY <1>1, <1>10, <1>15, <2>3 DEF Tables, Keys, RowType
    <3> QED BY <2>1, <3>1
  <2> QED BY <2>2, <2>3
<1>17. ASSUME NEW n \in Nodes, NEW v \in Versions, NEW f \in files'[n],
              f.name = "main", f.id = ver'[n][v].id, f.by = Publisher
       PROVE  Accepting(v, f.content)'
  <2>1. f.id = ver[n][v].id /\ f.id # 0
    BY <1>15, <1>16, <1>17 DEF FreshIds, Tables
  <2>2. CASE f \in files[n]
    <3>1. Accepting(v, f.content)
      BY <1>17, <2>1, <2>2 DEF CopyInv, Genuine
    <3> QED BY <1>6, <3>1
  <2>3. CASE /\ x = "PutPackageFile" /\ x \in Files /\ n = h.node /\ f.id = h.row.id
             /\ f.content = h.content /\ f.by = h.owner
    <3>1. v = h.version
      BY <1>1, <1>10, <1>15, <2>1, <2>3 DEF Keys
    <3>2. ~Free(h.todo, {"PutPackageFile"})
      BY <1>1, <2>3, FreeTail
    <3>3. CASE n = Publisher
      <4>1. h.acks
        BY <1>3, <1>17, <2>3, <3>2, <3>3 DEF CopySound, RoleSound
      <4> QED BY <1>7, <2>3, <3>1, <3>3, <4>1
    <3>4. CASE n = Follower
      <4>1. Accepting(h.version, h.content)
        BY <1>3, <1>17, <2>3, <3>2, <3>4 DEF CopySound, OweSound
      <4> QED BY <1>6, <2>3, <3>1, <4>1
    <3> QED BY <3>3, <3>4 DEF Nodes
  <2> QED BY <1>17, <2>2, <2>3
<1>18. Genuine'
  BY <1>14, <1>17 DEF Genuine
<1> QED BY <1>5, <1>12, <1>13, <1>16, <1>18 DEF CopyInv

-----------------------------------------------------------------------------
LEMMA CopyCarrier ==
  ASSUME OwnInv, NEW p \in Procs, NEW x, At(p, x), NEW v, WillCopy(proc[p], v)
  PROVE  x \in CopySteps
<1>1. /\ proc[p].todo # <<>> /\ Head(proc[p].todo) = x /\ proc[p].todo \in Seq(Steps)
  BY AtStep DEF HandlerType
<1>2. x \in Steps /\ x \notin Steps \ CopySteps
  BY <1>1, TailOf, FreeTail DEF WillCopy
<1> QED BY <1>2

\* Where neither the versions nor the files change, or versions are only added.
LEMMA CopyStill ==
  ASSUME OwnInv, UNCHANGED <<ver, lastId, files>>
  PROVE  /\ KeepIds /\ FreshIds
         /\ \A n \in Nodes, v \in Versions : HasMain(n, v) => HasMain(n, v)'
<1>1. \A n \in Nodes : lastId[n] \in Nat
  BY DEF OwnInv, Tables
<1> QED BY <1>1 DEF KeepIds, FreshIds, HasMain

LEMMA CopyGetOrCreatePackage ==
  ASSUME OwnInv, CopyInv, NEW p \in Procs, GetOrCreatePackage(p)
  PROVE  CopyInv'
<1> DEFINE x == "GetOrCreatePackage"
           h == proc[p]
<1>1. /\ At(p, x) /\ UNCHANGED <<ver, lastId, files, net, lost>>
      /\ pkg' = [pkg EXCEPT ![h.node] = IF @ = None THEN h.owner ELSE @]
      /\ \/ Refuse(p) /\ pkg'[h.node] # h.owner
         \/ Continue(p, NoRow)
  BY DEF GetOrCreatePackage, Guard
<1>2. OwnInv' /\ Steady /\ NoRow \in RowType /\ NoRow.id = 0
  BY OwnGetOrCreatePackage, IdleType
<1>3. /\ KeepIds /\ FreshIds
      /\ \A n \in Nodes, v \in Versions : HasMain(n, v) => HasMain(n, v)'
  BY <1>1, CopyStill
<1>4. /\ x \in Refusals /\ x \notin Stores /\ x \in Drops /\ x \notin Files
      /\ x # "PutPackageFile" /\ x # "PublishVersion"
  BY DEF Refusals, Stores, Drops, Clears, Files
<1>5. ASSUME NEW v \in Versions, WillCopy(h, v)
      PROVE  Continue(p, NoRow) \/ pkg'[Follower] \notin {None, Publisher}
  <2>1. h.node = Follower /\ h.owner = Publisher
    BY <1>5 DEF WillCopy
  <2>2. pkg'[Follower] # None
    BY <1>1, <2>1, TheNodes DEF OwnInv, Tables
  <2> QED BY <1>1, <2>1, <2>2
<1> HIDE DEF x
<1> QED BY <1>1, <1>2, <1>3, <1>4, <1>5, CopyStep

LEMMA CopyRead ==
  ASSUME OwnInv, CopyInv, NEW p \in Procs, Read(p) \/ DecodeMeta(p)
  PROVE  CopyInv'
<1> DEFINE h == proc[p]
           row == Row(h.node, h.version)
           Reads == {"GetPackage", "LookupOwnedPackage", "GetPackageVersion", "RequireVersion",
                     "RefuseExisting", "SkipIfYanked", "RefuseExistingFile", "DecodeMeta"}
<1>1. UNCHANGED <<pkg, ver, lastId, files, net, lost>>
  BY DEF Read, DecodeMeta, tables
<1>2. PICK x \in Reads, r \in {NoRow, row, h.row} :
        /\ At(p, x)
        /\ \/ Refuse(p) /\ x # "GetPackageVersion"
           \/ /\ Continue(p, r)
              /\ x = "RequireVersion" => r.id # 0
              /\ x \in {"SkipIfYanked", "RefuseExistingFile", "DecodeMeta"} => r = h.row
  BY DEF Read, DecodeMeta, Guard
<1>3. /\ h.node \in Nodes /\ h.version \in Versions /\ h.row \in RowType
  BY <1>2, AtStep
<1>4. r \in RowType
  BY <1>2, <1>3, IdleType DEF OwnInv, Tables, Row
<1>5. r.id # 0 => ver'[h.node][h.version].id = r.id
  <2>1. RowSound(h)
    BY DEF CopyInv, CopySound
  <2> QED BY <1>1, <1>2, <2>1, IdleType DEF RowSound, Row
<1>6. /\ x \notin Stores /\ x \notin Files /\ x # "PutPackageFile" /\ x # "PublishVersion"
      /\ x # "GetPackageVersion" => x \in Refusals
      /\ x \notin Drops => x \in {"RequireVersion", "SkipIfYanked", "RefuseExistingFile", "DecodeMeta"}
      /\ x \in CopySteps => x = "GetPackageVersion"
  BY <1>2 DEF Stores, Files, Refusals, Drops, Clears, CopySteps
<1>7. OwnInv' /\ Steady
  BY OwnRead
<1>8. /\ KeepIds /\ FreshIds
      /\ \A n \in Nodes, v \in Versions : HasMain(n, v) => HasMain(n, v)'
  BY <1>1, CopyStill
<1>9. \A v \in Versions : WillCopy(h, v) => Continue(p, r)
  BY <1>2, <1>6, CopyCarrier
<1>10. /\ At(p, x)
       /\ \/ Refuse(p) /\ x \in Refusals
          \/ Continue(p, r) /\ (x \notin Drops /\ h.row.id # 0 => r.id # 0)
  BY <1>2, <1>6
<1> QED BY <1>1, <1>4, <1>5, <1>6, <1>7, <1>8, <1>9, <1>10, CopyStep

LEMMA CopyVersion ==
  ASSUME OwnInv, CopyInv, NEW p \in Procs, InsertPackageVersionIfNew(p) \/ PutPackageVersion(p)
  PROVE  CopyInv'
<1> DEFINE h == proc[p]
<1>1. KeepIds /\ FreshIds /\ UNCHANGED <<pkg, files, net, lost>>
  BY VersionKeepsIds
<1>2. PICK x \in {"InsertPackageVersionIfNew", "PutPackageVersion", "PutVersionIfNil",
                  "WriteYank"},
           r \in RowType :
        /\ At(p, x)
        /\ \/ Refuse(p) /\ x = "InsertPackageVersionIfNew"
           \/ /\ Continue(p, r)
              /\ r \in {ver'[h.node][h.version], h.row, NoRow}
              /\ x = "PutVersionIfNil" => r.id # 0
              /\ x \in {"InsertPackageVersionIfNew", "PutPackageVersion"} => r.id # 0
  BY VersionKeepsIds
<1>3. OwnInv' /\ Steady
  BY OwnVersion
<1>4. h.node \in Nodes /\ h.version \in Versions
  BY <1>2, AtStep
<1>5. r \in {ver'[h.node][h.version], h.row, NoRow} /\ r.id # 0 =>
        ver'[h.node][h.version].id = r.id
  <2>1. RowSound(h)
    BY DEF CopyInv, CopySound
  <2>2. h.row.id # 0 => ver'[h.node][h.version].id = h.row.id
    BY <1>1, <1>4, <2>1 DEF RowSound, KeepIds
  <2> QED BY <2>2, IdleType
<1>6. /\ x \notin Files /\ x # "PutPackageFile" /\ x # "PublishVersion"
      /\ x = "InsertPackageVersionIfNew" => x \in Refusals
      /\ x \in Stores \/ x \in Drops
      /\ x \in Stores => x \in {"InsertPackageVersionIfNew", "PutPackageVersion", "PutVersionIfNil"}
      /\ x \in CopySteps => x # "InsertPackageVersionIfNew"
  BY <1>2 DEF Stores, Files, Refusals, Drops, CopySteps
<1>7. \A n \in Nodes, v \in Versions : HasMain(n, v) => HasMain(n, v)'
  BY <1>1 DEF KeepIds, HasMain
<1>8. \A v \in Versions : WillCopy(h, v) => Continue(p, r)
  BY <1>2, <1>6, CopyCarrier
<1>9. /\ At(p, x)
      /\ \/ Refuse(p) /\ x \in Refusals
         \/ /\ Continue(p, r) /\ (x \in Stores => r.id # 0)
            /\ x \notin Drops /\ h.row.id # 0 => r.id # 0
            /\ r.id # 0 => ver'[h.node][h.version].id = r.id
  BY <1>2, <1>5, <1>6
<1> QED BY <1>1, <1>3, <1>6, <1>7, <1>8, <1>9, CopyStep

LEMMA CopyFile ==
  ASSUME OwnInv, CopyInv, NEW p \in Procs, PutPackageFile(p)
  PROVE  CopyInv'
<1> DEFINE h == proc[p]
<1>1. PICK x \in {"PutPackageFile", "PutModFile"}, name \in {"main", "mod"} :
        /\ At(p, x) /\ Continue(p, h.row) /\ UNCHANGED <<pkg, ver, lastId, net, lost>>
        /\ files' = FilePut(h.node, h.row.id, name, p)
        /\ (x = "PutPackageFile") <=> (name = "main")
  BY DEF PutPackageFile
<1>2. /\ h.node \in Nodes /\ h.version \in Versions /\ h.row \in RowType
      /\ files \in [Nodes -> SUBSET FileType]
      /\ h.todo # <<>> /\ Head(h.todo) = x /\ h.todo \in Seq(Steps)
  BY <1>1, AtStep DEF OwnInv, Tables, HandlerType
<1> DEFINE new == [id |-> h.row.id, name |-> name, content |-> h.content, by |-> h.owner]
<1>3. /\ files'[h.node] = {f \in files[h.node] : f.id # h.row.id \/ f.name # name} \union {new}
      /\ \A n \in Nodes : n # h.node => files'[n] = files[n]
      /\ new.id = h.row.id /\ new.name = name /\ new.content = h.content /\ new.by = h.owner
  BY <1>1, <1>2 DEF FilePut
<1> HIDE DEF new
<1>4. /\ x \in Files /\ x \notin Refusals /\ x \notin Stores /\ x # "PublishVersion"
  BY <1>1 DEF Files, Refusals, Stores
<1>5. h.row.id # 0 /\ ver[h.node][h.version].id = h.row.id
  BY <1>2, <1>4, FollowsTail DEF CopyInv, CopySound, RowSound
<1>6. ASSUME NEW n \in Nodes, NEW v \in Versions, HasMain(n, v) PROVE HasMain(n, v)'
  <2>1. PICK f \in files[n] : f.id = ver[n][v].id /\ f.name = "main"
    BY <1>6 DEF HasMain
  <2>2. CASE n = h.node /\ f.id = h.row.id /\ name = "main"
    <3>1. new \in files'[n] /\ new.id = ver[n][v].id /\ new.name = "main"
      BY <1>3, <2>1, <2>2
    <3> QED BY <1>1, <1>6, <3>1 DEF HasMain
  <2>3. CASE ~(n = h.node /\ f.id = h.row.id /\ name = "main")
    <3>1. f \in files'[n]
      BY <1>3, <2>1, <2>3
    <3> QED BY <1>1, <1>6, <2>1, <3>1 DEF HasMain
  <2> QED BY <2>2, <2>3
<1>7. x = "PutPackageFile" => \A g \in {h} : HasMain(g.node, g.version)'
  BY <1>1, <1>3, <1>5 DEF HasMain
<1>8. ASSUME NEW n \in Nodes, NEW f \in files'[n]
      PROVE  \/ f \in files[n]
             \/ /\ x \in Files /\ n = h.node /\ f.id = h.row.id
                /\ f.content = h.content /\ f.by = h.owner
                /\ f.name = "main" => x = "PutPackageFile"
  BY <1>1, <1>3, <1>4
<1>9. OwnInv' /\ Steady
  BY OwnFile
<1>10. KeepIds /\ FreshIds
  <2>1. \A n \in Nodes : lastId[n] \in Nat
    BY DEF OwnInv, Tables
  <2> QED BY <1>1, <2>1 DEF KeepIds, FreshIds
<1>11. /\ h.row \in RowType /\ (h.row.id # 0 => ver'[h.node][h.version].id = h.row.id)
       /\ At(p, x) /\ Continue(p, h.row) /\ UNCHANGED <<net, lost>>
  BY <1>1, <1>2, <1>5
<1> QED BY <1>4, <1>6, <1>7, <1>8, <1>9, <1>10, <1>11, CopyStep

LEMMA CopyTag ==
  ASSUME OwnInv, CopyInv, NEW p \in Procs, PutPackageTag(p) \/ DeletePackageTag(p)
  PROVE  CopyInv'
<1> DEFINE h == proc[p]
<1>1. PICK x \in {"PutPackageTag", "DeletePackageTag"}, r \in {h.row, NoRow} :
        /\ At(p, x) /\ Continue(p, r) /\ UNCHANGED <<pkg, ver, lastId, files, net, lost>>
        /\ x = "PutPackageTag" => r = h.row
  BY DEF PutPackageTag, DeletePackageTag
<1>2. r \in RowType
  BY <1>1, AtStep, IdleType
<1>3. OwnInv' /\ Steady
  BY OwnTag
<1>4. /\ x \notin Files /\ x \notin Stores /\ x \notin CopySteps
      /\ x # "PutPackageFile" /\ x # "PublishVersion"
      /\ x = "DeletePackageTag" => x \in Drops
  BY <1>1 DEF Files, Stores, CopySteps, Drops, Clears
<1>5. r.id # 0 => ver'[h.node][h.version].id = r.id
  <2>1. RowSound(h)
    BY DEF CopyInv, CopySound
  <2> QED BY <1>1, <2>1, IdleType DEF RowSound
<1>6. /\ KeepIds /\ FreshIds
      /\ \A n \in Nodes, v \in Versions : HasMain(n, v) => HasMain(n, v)'
  BY <1>1, CopyStill
<1>7. x \notin Drops /\ h.row.id # 0 => r.id # 0
  BY <1>1, <1>4
<1>8. At(p, x) /\ Continue(p, r) /\ UNCHANGED <<files, net, lost>>
  BY <1>1
<1> QED BY <1>2, <1>3, <1>4, <1>5, <1>6, <1>7, <1>8, CopyStep

LEMMA CopyPublish ==
  ASSUME OwnInv, CopyInv, NEW p \in Procs, PublishStep(p)
  PROVE  CopyInv'
<1> DEFINE h == proc[p]
           Xs == {"PublishVersion", "PublishTag", "PublishTagDelete", "PublishYank"}
<1>1. PICK x \in Xs, type \in {"Version", "Tag", "TagDelete", "Yank"}, dec \in BOOLEAN :
        /\ At(p, x) /\ Send(p, Object(p, type, dec))
        /\ (x = "PublishVersion") <=> (type = "Version")
  BY DEF PublishStep, PublishedVersion, NpmPublishVersion, NpmPublishTag,
         CargoPublishVersion, CargoPublishYank, PypiPublishFile, NugetPublishPackage,
         GoPublishModule
<1> DEFINE a == Object(p, type, dec)
<1>2. a.type = type /\ a.version = h.version /\ a.content = h.content
  BY DEF Object
<1> HIDE DEF a
<1>3. /\ UNCHANGED <<pkg, ver, lastId, files>> /\ Continue(p, h.row)
      /\ \/ h.node = Publisher /\ net' = net (+) SetToBag({a}) /\ lost' = lost
         \/ h.node # Publisher /\ net' = net /\ lost' = lost
         \/ lost' = TRUE /\ net' = net
  BY <1>1 DEF Send, a, tables
<1>4. h.row \in RowType
  BY <1>1, AtStep
<1>5. OwnInv' /\ Steady
  BY OwnPublish
<1>6. net' = net (+) SetToBag({a}) => BagToSet(net') = BagToSet(net) \union {a}
  BY BagOfOne DEF OwnInv, Tables
<1>7. BagToSet(net) \subseteq BagToSet(net') /\ (lost => lost')
  BY <1>3, <1>6
<1>8. ASSUME NEW b \in BagToSet(net'), b.type = "Version"
      PROVE  \/ b \in BagToSet(net)
             \/ /\ x = "PublishVersion" /\ h.node = Publisher
                /\ b.version = h.version /\ b.content = h.content
  BY <1>1, <1>2, <1>3, <1>6, <1>8
<1>9. ASSUME x = "PublishVersion", h.node = Publisher, ~lost'
      PROVE  \A g \in {h} : InNet(g.version)'
  <2>1. a \in BagToSet(net') /\ a.type = "Version"
    BY <1>1, <1>2, <1>3, <1>6, <1>9
  <2> QED BY <1>2, <2>1 DEF InNet
<1>10. /\ x \notin Files /\ x \notin Stores /\ x \notin CopySteps /\ x # "PutPackageFile"
  BY <1>1 DEF Files, Stores, CopySteps
<1>11. h.row.id # 0 => ver'[h.node][h.version].id = h.row.id
  BY <1>3 DEF CopyInv, CopySound, RowSound
<1>12. /\ KeepIds /\ FreshIds
       /\ \A n \in Nodes, v \in Versions : HasMain(n, v) => HasMain(n, v)'
  BY <1>3, CopyStill
<1>13. At(p, x) /\ Continue(p, h.row) /\ UNCHANGED files
  BY <1>1, <1>3
<1> QED BY <1>4, <1>5, <1>7, <1>8, <1>9, <1>10, <1>11, <1>12, <1>13, CopyStep

(***************************************************************************)
(* A handler that begins, or ends by a failure.                            *)
(***************************************************************************)
Startable(h) ==
  /\ Arranged(h.todo) /\ Follows(h.todo, Stores, Files) /\ h.row.id = 0 /\ RoleSound(h)
  /\ h.acks => ~Free(h.todo, {"PutPackageFile"}) /\ ~Free(h.todo, {"PublishVersion"})
  /\ h.node = Follower /\ h.owner = Publisher /\ ~Free(h.todo, {"PutPackageFile"}) =>
       Accepting(h.version, h.content)

LEMMA IdleOwes ==
  \A v, c : ~Committed(Idle, v, c) /\ ~WillCopy(Idle, v)
<1>1. Idle.todo = <<>> /\ Idle.acks = FALSE
  BY IdleType DEF Idle
<1>2. Free(Idle.todo, {"PutPackageFile"})
  BY <1>1, EmptyOrdered
<1> QED BY <1>1, <1>2 DEF Committed, WillCopy

LEMMA CopyReplace ==
  ASSUME OwnInv, CopyInv, UNCHANGED <<pkg, ver, lastId, files, acked>>,
         BagToSet(net') \subseteq BagToSet(net),
         NEW p \in Procs, NEW h \in HandlerType, proc' = [proc EXCEPT ![p] = h],
         \/ lost'
         \/ lost' = lost /\ proc[p] = Idle /\ \A v : InNet(v) => InNet(v)' \/ WillCopy(h, v),
         Startable(h)
  PROVE  CopyInv'
<1>1. /\ Handlers /\ proc \in [Procs -> HandlerType]
      /\ proc'[p] = h /\ \A q \in Procs \ {p} : proc'[q] = proc[q]
  BY DEF OwnInv, Handlers
<1>2. ASSUME NEW v, NEW c, Accepting(v, c) PROVE Accepting(v, c)'
  <2>1. CASE lost' \/ lost \/ Accept(Publisher, v, c) \in acked
    BY <2>1 DEF Accepting, Accept
  <2>2. ASSUME proc[p] = Idle, NEW q \in Procs, Committed(proc[q], v, c) PROVE Accepting(v, c)'
    <3>1. q # p
      BY <2>2, IdleOwes
    <3>2. Committed(proc[q], v, c)'
      BY <1>1, <2>2, <3>1 DEF Committed
    <3> QED BY <3>2 DEF Accepting
  <2> QED BY <1>2, <2>1, <2>2 DEF Accepting
<1>3. ASSUME NEW v, OnItsWay(v) PROVE OnItsWay(v)'
  <2>1. CASE lost' \/ lost \/ HasMain(Follower, v) \/ pkg[Follower] \notin {None, Publisher}
    BY <2>1 DEF OnItsWay, HasMain
  <2>2. CASE ~lost' /\ InNet(v)
    <3>1. WillCopy(h, v) => WillCopy(proc[p], v)'
      BY <1>1 DEF WillCopy
    <3> QED BY <2>2, <3>1 DEF OnItsWay
  <2>3. ASSUME proc[p] = Idle, NEW q \in Procs, WillCopy(proc[q], v) PROVE OnItsWay(v)'
    <3>1. q # p
      BY <2>3, IdleOwes
    <3>2. WillCopy(proc[q], v)'
      BY <1>1, <2>3, <3>1 DEF WillCopy
    <3> QED BY <3>2 DEF OnItsWay
  <2> QED BY <1>3, <2>1, <2>2, <2>3 DEF OnItsWay
<1>4. /\ KeepIds /\ FreshIds
      /\ \A n \in Nodes, v \in Versions : HasMain(n, v) => HasMain(n, v)'
  BY CopyStill
<1>5. ASSUME NEW q \in Procs PROVE CopySound(proc[q])'
  <2>1. \A g : proc'[q] = g /\ CopySound(g)' => CopySound(proc[q])'
    BY DEF CopySound, Arranged, RowSound, RoleSound, OweSound
  <2>2. CASE q # p
    <3>1. \A g \in {proc[q]} : CopySound(g)'
      <4>1. /\ proc[q] \in HandlerType /\ CopySound(proc[q])
            /\ proc[q].todo # <<>> => proc[q].version \in Versions
        BY <1>1 DEF CopyInv, Handlers
      <4> QED BY <1>2, <1>3, <1>4, <4>1, CopyFrame
    <3> QED BY <1>1, <2>1, <2>2, <3>1
  <2>3. CASE q = p
    <3>1. Arranged(h.todo)' /\ RowSound(h)' /\ RoleSound(h)'
      BY DEF Startable, Arranged, RowSound, RoleSound
    <3>2. OweSound(h)'
      BY <1>2 DEF Startable, OweSound
    <3> QED BY <1>1, <2>1, <2>3, <3>1, <3>2 DEF CopySound
  <2> QED BY <2>2, <2>3
<1>6. Genuine'
  <2>1. Genuine
    BY DEF CopyInv
  <2> QED BY <1>2, <2>1 DEF Genuine
<1>7. \A a \in acked' :
        HasMain(a.node, a.version)' /\ (a.node = Publisher => OnItsWay(a.version)')
  <2>1. \A a \in acked :
          a.node \in Nodes /\ a.version \in Versions
          /\ HasMain(a.node, a.version) /\ (a.node = Publisher => OnItsWay(a.version))
    BY DEF CopyInv
  <2> QED BY <1>3, <1>4, <2>1
<1>8. /\ acked' \subseteq [node : Nodes, version : Versions, content : Contents]
      /\ IsFiniteSet(acked')
      /\ \A n \in Nodes : \A f \in files'[n] : f.id <= lastId'[n] /\ f.id # 0
  BY DEF CopyInv
<1> QED BY <1>5, <1>6, <1>7, <1>8 DEF CopyInv

(***************************************************************************)
(* The handlers: a publication stores its file and sends its version after *)
(* the last step that can refuse it, an ingestion stores the file, and the *)
(* others of a node's own store none.                                      *)
(***************************************************************************)
Wellformed(s) == Arranged(s) /\ Follows(s, Stores, Files)

LEMMA HandlersWellformed ==
  /\ \A s \in {NpmPublish, CargoPublish, PypiUpload, GoUpload} : Wellformed(s)
  /\ \A s \in {NpmDistTagPut, NpmDistTagDelete, CargoSetYanked, PypiCache, GoCache} :
       Wellformed(s)
  /\ \A s \in {NpmIngestVersion, CargoIngestVersion, PypiIngestFile, GoIngestModule} :
       Wellformed(s)
  /\ \A s \in {NpmUpsertTag, NpmDeleteTag, CargoApplyYank} : Wellformed(s)
<1> USE DEF Wellformed, Arranged, Free, Follows, NoneAfter, Stores, Files, Drops, Clears, Refusals
<1>1. Wellformed(NpmPublish)
  BY DEF NpmPublish
<1>2. Wellformed(CargoPublish)
  BY DEF CargoPublish
<1>3. Wellformed(PypiUpload)
  BY DEF PypiUpload
<1>4. Wellformed(GoUpload)
  BY DEF GoUpload
<1>5. Wellformed(NpmDistTagPut) /\ Wellformed(NpmDistTagDelete)
  BY DEF NpmDistTagPut, NpmDistTagDelete
<1>6. Wellformed(CargoSetYanked)
  BY DEF CargoSetYanked
<1>7. Wellformed(PypiCache) /\ Wellformed(GoCache)
  BY DEF PypiCache, GoCache
<1>8. Wellformed(NpmIngestVersion) /\ Wellformed(CargoIngestVersion)
  BY DEF NpmIngestVersion, CargoIngestVersion
<1>9. Wellformed(PypiIngestFile) /\ Wellformed(GoIngestModule)
  BY DEF PypiIngestFile, GoIngestModule
<1>10. Wellformed(NpmUpsertTag) /\ Wellformed(NpmDeleteTag) /\ Wellformed(CargoApplyYank)
  BY DEF NpmUpsertTag, NpmDeleteTag, CargoApplyYank
<1> QED BY ONLY <1>1, <1>2, <1>3, <1>4, <1>5, <1>6, <1>7, <1>8, <1>9, <1>10

LEMMA HandlersOwe ==
  /\ \A s \in {NpmPublish, CargoPublish, PypiUpload, GoUpload} :
       ~Free(s, {"PutPackageFile"}) /\ ~Free(s, {"PublishVersion"}) /\ s # <<>>
  /\ \A s \in {NpmDistTagPut, NpmDistTagDelete, CargoSetYanked, NpmUpsertTag, NpmDeleteTag,
               CargoApplyYank} :
       Free(s, {"PutPackageFile"}) /\ Free(s, {"PublishVersion"})
  /\ Free(PypiCache, {"PublishVersion"}) /\ Free(GoCache, {"PublishVersion"})
  /\ \A s \in {NpmIngestVersion, CargoIngestVersion, PypiIngestFile, GoIngestModule} :
       /\ ~Free(s, {"PutPackageFile"}) /\ Free(s, Steps \ CopySteps)
       /\ Free(s, {"PublishVersion"})
<1> USE DEF Free, CopySteps
<1>1. ~Free(NpmPublish, {"PutPackageFile"}) /\ ~Free(NpmPublish, {"PublishVersion"})
  <2>1. NpmPublish[3] = "PutPackageFile" /\ NpmPublish[5] = "PublishVersion" /\ Len(NpmPublish) = 6
    BY DEF NpmPublish
  <2> QED BY <2>1
<1>2. ~Free(CargoPublish, {"PutPackageFile"}) /\ ~Free(CargoPublish, {"PublishVersion"})
  <2>1. /\ CargoPublish[3] = "PutPackageFile" /\ CargoPublish[4] = "PublishVersion"
        /\ Len(CargoPublish) = 4
    BY DEF CargoPublish
  <2> QED BY <2>1
<1>3. ~Free(PypiUpload, {"PutPackageFile"}) /\ ~Free(PypiUpload, {"PublishVersion"})
  <2>1. PypiUpload[5] = "PutPackageFile" /\ PypiUpload[6] = "PublishVersion" /\ Len(PypiUpload) = 6
    BY DEF PypiUpload
  <2> QED BY <2>1
<1>4. ~Free(GoUpload, {"PutPackageFile"}) /\ ~Free(GoUpload, {"PublishVersion"})
  <2>1. GoUpload[4] = "PutPackageFile" /\ GoUpload[6] = "PublishVersion" /\ Len(GoUpload) = 6
    BY DEF GoUpload
  <2> QED BY <2>1
<1>5. \A s \in {NpmPublish, CargoPublish, PypiUpload, GoUpload} : s # <<>>
  BY HandlersOrdered DEF Ordered
<1>6. \A Z \in {{"PutPackageFile"}, {"PublishVersion"}} :
        /\ Free(NpmDistTagPut, Z) /\ Free(NpmDistTagDelete, Z) /\ Free(CargoSetYanked, Z)
        /\ Free(NpmUpsertTag, Z) /\ Free(NpmDeleteTag, Z) /\ Free(CargoApplyYank, Z)
  BY DEF NpmDistTagPut, NpmDistTagDelete, CargoSetYanked, NpmUpsertTag, NpmDeleteTag,
         CargoApplyYank
<1>7. Free(PypiCache, {"PublishVersion"}) /\ Free(GoCache, {"PublishVersion"})
  BY DEF PypiCache, GoCache
<1>8. ASSUME NEW s \in {NpmIngestVersion, CargoIngestVersion}
      PROVE  /\ ~Free(s, {"PutPackageFile"}) /\ Free(s, Steps \ CopySteps)
             /\ Free(s, {"PublishVersion"})
  <2>1. s[3] = "PutPackageFile" /\ Len(s) = 3
    BY DEF NpmIngestVersion, CargoIngestVersion
  <2>2. Free(s, Steps \ CopySteps) /\ Free(s, {"PublishVersion"})
    BY DEF NpmIngestVersion, CargoIngestVersion
  <2> QED BY <2>1, <2>2
<1>9. ASSUME NEW s \in {PypiIngestFile, GoIngestModule}
      PROVE  /\ ~Free(s, {"PutPackageFile"}) /\ Free(s, Steps \ CopySteps)
             /\ Free(s, {"PublishVersion"})
  <2>1. s[4] = "PutPackageFile" /\ Len(s) = 4
    BY DEF PypiIngestFile, GoIngestModule
  <2>2. Free(s, Steps \ CopySteps) /\ Free(s, {"PublishVersion"})
    BY DEF PypiIngestFile, GoIngestModule
  <2> QED BY <2>1, <2>2
<1> HIDE DEF Free, CopySteps
<1>10. \A s \in {NpmIngestVersion, CargoIngestVersion, PypiIngestFile, GoIngestModule} :
         /\ ~Free(s, {"PutPackageFile"}) /\ Free(s, Steps \ CopySteps)
         /\ Free(s, {"PublishVersion"})
  BY ONLY <1>8, <1>9
<1>11. \A s \in {NpmPublish, CargoPublish, PypiUpload, GoUpload} :
         ~Free(s, {"PutPackageFile"}) /\ ~Free(s, {"PublishVersion"}) /\ s # <<>>
  BY ONLY <1>1, <1>2, <1>3, <1>4, <1>5
<1>12. \A s \in {NpmDistTagPut, NpmDistTagDelete, CargoSetYanked, NpmUpsertTag, NpmDeleteTag,
                 CargoApplyYank} :
         Free(s, {"PutPackageFile"}) /\ Free(s, {"PublishVersion"})
  BY ONLY <1>6
<1> QED BY ONLY <1>7, <1>10, <1>11, <1>12

LEMMA CopyRequest ==
  ASSUME OwnInv, fmt # "nuget", CopyInv, NEW p \in Procs, Request(p)
  PROVE  CopyInv'
<1>1. PICK h \in HandlerType : Starts(p, h) /\ Requested(h)
  BY RequestHandler
<1>2. fmt \in AllFormats \ {"nuget"}
  BY PackagesAssumption DEF OwnInv, Tables
<1>3. PublishHandler \in {NpmPublish, CargoPublish, PypiUpload, GoUpload}
  BY <1>2 DEF PublishHandler, AllFormats
<1>4. /\ Wellformed(h.todo)
      /\ h.acks => /\ ~Free(h.todo, {"PutPackageFile"}) /\ ~Free(h.todo, {"PublishVersion"})
                   /\ h.todo # <<>> /\ h.owner = h.node /\ h.content \in Contents
      /\ ~h.acks => /\ Free(h.todo, {"PublishVersion"})
                    /\ h.owner = h.node => Free(h.todo, {"PutPackageFile"})
      /\ h.owner = h.node \/ h.owner = Upstream
  <2>1. CASE /\ h.owner = h.node /\ h.acks /\ h.todo = PublishHandler /\ h.content \in Contents
    BY <1>3, <2>1, HandlersWellformed, HandlersOwe
  <2>2. CASE /\ h.owner = h.node /\ ~h.acks
             /\ h.todo \in {NpmDistTagPut, NpmDistTagDelete, CargoSetYanked}
    BY <2>2, HandlersWellformed, HandlersOwe
  <2>3. CASE /\ h.owner = Upstream /\ ~h.acks /\ h.todo \in {PypiCache, GoCache}
    <3>1. h.node # Upstream
      BY PackagesAssumption DEF HandlerType
    <3> QED BY <2>3, <3>1, HandlersWellformed, HandlersOwe
  <2> QED BY <1>1, <1>2, <2>1, <2>2, <2>3 DEF Requested
<1>5. Startable(h)
  <2>1. RoleSound(h)
    BY <1>4, Zenon DEF RoleSound
  <2>2. h.row.id = 0
    BY <1>1, IdleType DEF Starts
  <2>3. Upstream # Publisher /\ Publisher # Follower
    BY PackagesAssumption DEF Nodes
  <2> QED BY <1>4, <2>1, <2>2, <2>3, Zenon DEF Startable, Wellformed
<1>6. /\ proc[p] = Idle /\ proc' = [proc EXCEPT ![p] = h]
      /\ UNCHANGED <<pkg, ver, lastId, files, acked, net, lost>>
  BY <1>1 DEF Starts, tables
<1>7. \A v : InNet(v) => InNet(v)'
  BY <1>6 DEF InNet
<1> QED BY <1>5, <1>6, <1>7, CopyReplace

LEMMA CopyIngest ==
  ASSUME OwnInv, fmt # "nuget", CopyInv, NEW p \in Procs, Ingest(p)
  PROVE  CopyInv'
<1>1. PICK a \in BagToSet(net), h \in HandlerType :
        /\ Ingested(a, h) /\ a \in ActivityType
        /\ proc[p] = Idle /\ proc' = [proc EXCEPT ![p] = h]
        /\ net' = net (-) SetToBag({a})
        /\ UNCHANGED <<fmt, tables, acked, lost>>
  BY IngestHandlerOf DEF OwnInv
<1>2. /\ BagToSet(net') \subseteq BagToSet(net) /\ BagToSet(net) \ {a} \subseteq BagToSet(net')
  BY <1>1, BagOfOne DEF OwnInv, Tables
<1>3. fmt \in AllFormats \ {"nuget"}
  BY PackagesAssumption DEF OwnInv, Tables
<1>4. IngestHandler \in {NpmIngestVersion, CargoIngestVersion, PypiIngestFile, GoIngestModule}
  BY <1>3 DEF IngestHandler, AllFormats
<1>5. /\ h.node = Follower /\ h.owner = Publisher /\ h.version = a.version
      /\ h.content = a.content /\ h.acks = FALSE /\ h.row.id = 0
      /\ Wellformed(h.todo) /\ Free(h.todo, {"PublishVersion"})
      /\ a.type = "Version" =>
           ~Free(h.todo, {"PutPackageFile"}) /\ Free(h.todo, Steps \ CopySteps)
      /\ a.type # "Version" => Free(h.todo, {"PutPackageFile"})
  <2>1. /\ h.node = Follower /\ h.owner = Publisher /\ h.version = a.version
        /\ h.content = a.content /\ h.acks = FALSE /\ h.row.id = 0
    BY <1>1, IdleType DEF Ingested, HandlerType
  <2>2. CASE a.type = "Version" /\ h.todo = IngestHandler
    BY <1>4, <2>1, <2>2, HandlersWellformed, HandlersOwe
  <2>3. CASE a.type # "Version" /\ h.todo \in {NpmUpsertTag, NpmDeleteTag, CargoApplyYank}
    BY <2>1, <2>3, HandlersWellformed, HandlersOwe
  <2> QED BY <1>1, <2>2, <2>3 DEF Ingested
<1>6. Startable(h)
  <2>1. a.type = "Version" => Accepting(a.version, a.content)
    BY DEF CopyInv, Genuine
  <2>2. RoleSound(h)
    BY <1>5, TheNodes DEF RoleSound
  <2> QED BY <1>5, <2>1, <2>2 DEF Startable, Wellformed
<1>7. ASSUME NEW v, InNet(v) PROVE InNet(v)' \/ WillCopy(h, v)
  <2>1. PICK b \in BagToSet(net) : b.type = "Version" /\ b.version = v
    BY <1>7 DEF InNet
  <2>2. CASE b = a
    BY <1>5, <2>1, <2>2 DEF WillCopy
  <2>3. CASE b # a
    BY <1>2, <2>1, <2>3 DEF InNet
  <2> QED BY <2>2, <2>3
<1>8. /\ proc[p] = Idle /\ proc' = [proc EXCEPT ![p] = h]
      /\ UNCHANGED <<pkg, ver, lastId, files, acked, lost>>
  BY <1>1 DEF tables
<1> QED BY <1>2, <1>6, <1>7, <1>8, CopyReplace

LEMMA CopyFail ==
  ASSUME OwnInv, CopyInv, NEW p \in Procs, Fail(p)
  PROVE  CopyInv'
<1>1. /\ proc' = [proc EXCEPT ![p] = Idle]
      /\ UNCHANGED <<pkg, ver, lastId, files, acked, net>> /\ lost'
  BY DEF Fail, Refuse, tables
<1>2. Idle \in HandlerType /\ Idle.todo = <<>> /\ Idle.row.id = 0 /\ Idle.acks = FALSE
  BY IdleType DEF Idle
<1>3. /\ \A Z : Free(Idle.todo, Z)
      /\ \A X, Z : Follows(Idle.todo, X, Z) /\ NoneAfter(Idle.todo, X, Z)
  BY <1>2, EmptyOrdered
<1>4. Startable(Idle)
  BY <1>2, <1>3 DEF Startable, Arranged, RoleSound
<1> QED BY <1>1, <1>2, <1>4, CopyReplace

LEMMA CopyNoDelete ==
  ASSUME OwnInv, CopyInv, NEW p \in Procs
  PROVE  ~DeletePackageVersion(p)
<1>1. SUFFICES ASSUME DeletePackageVersion(p) PROVE FALSE
  OBVIOUS
<1>2. /\ proc[p].todo \in Seq(Steps) /\ proc[p].todo # <<>>
      /\ Head(proc[p].todo) = "DeletePackageVersion"
  BY <1>1, AtStep DEF DeletePackageVersion, HandlerType
<1>3. Free(proc[p].todo, {"DeletePackageVersion"})
  BY DEF CopyInv, CopySound, Arranged
<1> QED BY <1>2, <1>3, FreeTail

LEMMA CopyInit ==
  ASSUME Init
  PROVE  CopyInv
<1>1. BagToSet(net) = {}
  BY DEF Init, EmptyBag, SetToBag, BagToSet
<1>2. Idle.todo = <<>> /\ Idle.row.id = 0 /\ Idle.acks = FALSE
  BY IdleType DEF Idle
<1>3. /\ \A Z : Free(Idle.todo, Z)
      /\ \A X, Z : Follows(Idle.todo, X, Z) /\ NoneAfter(Idle.todo, X, Z)
  BY <1>2, EmptyOrdered
<1>4. CopySound(Idle)
  BY <1>2, <1>3 DEF CopySound, Arranged, RowSound, RoleSound, OweSound
<1>5. \A p \in Procs : CopySound(proc[p])
  BY <1>4 DEF Init
<1>6. acked = {} /\ IsFiniteSet(acked) /\ \A n \in Nodes : files[n] = {}
  BY FS_EmptySet DEF Init
<1> QED BY <1>1, <1>5, <1>6 DEF CopyInv, Genuine

LEMMA CopyInductive ==
  ASSUME OwnInv, fmt # "nuget", CopyInv, [Next]_vars
  PROVE  CopyInv'
<1>1. ASSUME NEW p \in Procs, DatabaseStep(p) PROVE CopyInv'
  BY <1>1, CopyGetOrCreatePackage, CopyRead, CopyVersion, CopyFile, CopyTag, CopyNoDelete
     DEF DatabaseStep
<1>2. CASE Next
  BY <1>1, <1>2, CopyRequest, CopyIngest, CopyPublish, CopyFail DEF Next
<1>3. CASE UNCHANGED vars
  <2>1. \A v, c : Accepting(v, c) <=> Accepting(v, c)'
    BY <1>3 DEF vars, Accepting, Committed, Accept
  <2>2. \A v : OnItsWay(v) <=> OnItsWay(v)'
    BY <1>3 DEF vars, tables, OnItsWay, InNet, WillCopy, HasMain
  <2>3. \A n, v : HasMain(n, v) <=> HasMain(n, v)'
    BY <1>3 DEF vars, tables, HasMain
  <2>4. \A p \in Procs : CopySound(proc[p])'
    <3>1. \A p \in Procs : CopySound(proc[p])
      BY DEF CopyInv
    <3> QED BY <1>3, <2>1, <2>2, <2>3, <3>1
        DEF vars, tables, CopySound, Arranged, RowSound, RoleSound, OweSound
  <2>5. Genuine'
    BY <1>3, <2>1 DEF vars, tables, CopyInv, Genuine
  <2>6. UNCHANGED <<acked, files, lastId>>
    BY <1>3 DEF vars, tables
  <2> QED BY <2>2, <2>3, <2>4, <2>5, <2>6 DEF CopyInv
<1> QED BY <1>2, <1>3

MirrorInv == OwnInv /\ (fmt # "nuget" => CopyInv)

\* When all is quiet and nothing was lost, the one publication of a version
\* that was accepted is what the follower has, and what the publisher has.
LEMMA QuietCopied ==
  ASSUME OwnInv, CopyInv, Quiet, ~lost, pkg[Publisher] = Publisher, pkg[Follower] = Publisher,
         NEW v \in Versions, Cardinality(Accepted(v)) = 1
  PROVE  \E c \in Contents : \A n \in Nodes : Row(n, v).id # 0 /\ Stored(n, v, "main") = c
<1>1. IsFiniteSet(Accepted(v))
  <2>1. Accepted(v) \subseteq acked /\ IsFiniteSet(acked)
    BY DEF Accepted, CopyInv
  <2> QED BY <2>1, FS_Subset
<1>2. PICK a : Accepted(v) = {a}
  BY <1>1, FS_Singleton
<1>3. /\ a \in acked /\ a.node = Publisher /\ a.version = v /\ a.content \in Contents
      /\ HasMain(Publisher, v) /\ OnItsWay(v)
  <2>1. a \in acked /\ a.node = Publisher /\ a.version = v
    BY <1>2 DEF Accepted
  <2> QED BY <2>1 DEF CopyInv
<1>4. BagToSet(net) = {}
  BY DEF Quiet, EmptyBag, SetToBag, BagToSet
<1>5. HasMain(Follower, v)
  <2>1. ~InNet(v)
    BY <1>4 DEF InNet
  <2>2. \A p \in Procs : ~WillCopy(proc[p], v)
    BY IdleOwes DEF Quiet
  <2> QED BY <1>3, <2>1, <2>2 DEF OnItsWay
<1>6. ASSUME NEW n \in Nodes PROVE Row(n, v).id # 0 /\ Stored(n, v, "main") = a.content
  <2>1. ver[n][v].id # 0 /\ HasMain(n, v)
    BY <1>3, <1>5 DEF Nodes, HasMain
  <2>2. PICK f \in files[n] : f.id = ver[n][v].id /\ f.name = "main"
    BY <2>1 DEF HasMain
  <2>3. f.by = Publisher
    BY <2>2 DEF OwnInv, Owned, Nodes
  <2>4. Accepting(v, f.content)
    BY <2>2, <2>3 DEF CopyInv, Genuine
  <2>5. \A p \in Procs : ~Committed(proc[p], v, f.content)
    BY IdleOwes DEF Quiet
  <2>6. Accept(Publisher, v, f.content) \in acked
    BY <2>4, <2>5 DEF Accepting
  <2>7. Accept(Publisher, v, f.content) \in Accepted(v)
    BY <2>6 DEF Accepted, Accept
  <2>8. f.content = a.content
    BY <1>2, <2>7 DEF Accept
  <2>9. FileOf(n, ver[n][v].id, "main") = a.content
    BY <2>2, <2>8, FileFound DEF HasFile
  <2> QED BY <2>1, <2>9 DEF Stored, Row
<1> QED BY <1>3, <1>6

(***************************************************************************)
(* The Publish and Ingest of the federation adapters: once everything that *)
(* was published is ingested and nothing failed, the follower lists the    *)
(* version and serves what the publisher serves, whatever the order of the *)
(* publications, cache fills and ingestions, of any number at once.        *)
(***************************************************************************)
THEOREM MirrorServesSame == Spec => []MirrorAgrees
<1>1. MirrorInv => MirrorAgrees
  <2> SUFFICES ASSUME OwnInv, CopyInv, Quiet, ~lost, fmt # "nuget",
                      pkg[Publisher] = Publisher, pkg[Follower] = Publisher,
                      NEW v \in Versions, Cardinality(Accepted(v)) = 1
               PROVE  /\ v \in Index(Publisher) \intersect Index(Follower)
                      /\ Download(Follower, v) = Download(Publisher, v)
    BY DEF MirrorInv, MirrorAgrees
  <2>1. PICK c \in Contents :
          \A n \in Nodes : Row(n, v).id # 0 /\ Stored(n, v, "main") = c
    BY QuietCopied
  <2>2. c # None /\ \A n \in Nodes : ~Public(n)
    BY PackagesAssumption DEF Public, Nodes
  <2>3. fmt \in AllFormats \ {"nuget"}
    BY PackagesAssumption DEF OwnInv, Tables
  <2>4. ASSUME NEW n \in Nodes PROVE v \in Index(n) /\ Download(n, v) = c
    <3>1. v \in ListPackageVersions(n)
      BY <2>1 DEF ListPackageVersions
    <3>2. v \in Index(n)
      BY <2>1, <2>2, <2>3, <3>1
         DEF Index, NpmPackument, CargoIndex, PypiSimple, GoList, AllFormats
    <3>3. Download(n, v) = c
      BY <2>1, <2>2, <2>3
         DEF Download, NpmTarball, CargoDownload, PypiDownload, PypiMiss, GoServeFile, AllFormats
    <3> QED BY <3>2, <3>3
  <2> QED BY <2>4, TheNodes
<1>2. Init => MirrorInv
  BY OwnInit, CopyInit DEF MirrorInv
<1>3. MirrorInv /\ [Next]_vars => MirrorInv'
  BY OwnInductive, CopyInductive, FormatKept DEF MirrorInv
<1> QED BY <1>1, <1>2, <1>3, PTL DEF Spec
=============================================================================
