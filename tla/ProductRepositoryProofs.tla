---------------------- MODULE ProductRepositoryProofs ----------------------
(***************************************************************************)
(* What pushes leave on the remote branch and what a reported success      *)
(* means, for any resources, rules, number of requests and lost answers.   *)
(*                                                                         *)
(* A request is fresh until it has merged: its working tree is the commit  *)
(* it cloned but for the one file it changes (Fresh).  After a merge there *)
(* is no difference left between the two, and what it asks for is in the   *)
(* commit, or has been on the remote branch (HasMerged).  A commit based   *)
(* on the last push is the remote branch, or differs from it in what its   *)
(* request asks.                                                           *)
(***************************************************************************)
EXTENDS ProductRepository, TLAPS

Going(r) == req[r].phase \in Phases

\* A change of one file, rendered, and compared unless that was to be skipped.
Fresh(r) ==
  /\ req[r].work.files = [req[r].head.files EXCEPT ![req[r].target] = req[r].content]
  /\ req[r].head.files[req[r].target] = req[r].was
  /\ req[r].work.listed = FilesOf(req[r].work.files)
  /\ req[r].skip \/ Compare(req[r].work.files)
  /\ OnePath(req[r].head.files) => OnePath(req[r].work.files)
  /\ req[r].was = req[r].content => r \in took
  /\ req[r].base = tip => req[r].head = main
  /\ req[r].phase # "pushing"

\* A commit that git has merged.
HasMerged(r) ==
  /\ req[r].work = req[r].head
  /\ Asked(r, req[r].head.files) \/ r \in took
  /\ req[r].phase = "pushing" /\ req[r].base = tip =>
       \A p \in Paths : req[r].head.files[p] # main.files[p] =>
         p = req[r].target /\ ChangesAsAsked(r, main.files[p], req[r].head.files[p])
  /\ req[r].phase = "saving" => r \in took
  /\ req[r].base = tip /\ req[r].phase # "pushing" => r \in took
  /\ req[r].base # tip /\ req[r].head.files = main.files => r \in took

Sound(r) ==
  /\ req[r].base <= tip
  /\ {req[r].was, req[r].content} # {NoFile}
  /\ Fresh(r) \/ HasMerged(r)

RepositoryInv ==
  /\ TypeOK /\ req \in [Requests -> Request \cup Outcome]
  /\ \A r \in Requests : Going(r) => Sound(r)
  /\ ReferencesResolve /\ ListIsComplete /\ OneFilePerResource /\ SuccessIsSaved

-----------------------------------------------------------------------------
FileContent == Content \cup {NoFile}
Files == [Paths -> FileContent]

LEMMA ContentFacts ==
  /\ NoFile \notin Content
  /\ \A c \in Content : /\ c.refs \subseteq Names /\ c.use \in Uses \cup {Free}
                        /\ c = [refs |-> c.refs, use |-> c.use]
  /\ \A refs \in SUBSET Names, use \in Uses \cup {Free} :
       [refs |-> refs, use |-> use] \in Content
<1>1. "no file" \notin Uses \cup {Free}
  BY RepositoryAssumption DEF Free
<1>2. NoFile \notin Content
  <2>1. NoFile.use = "no file"
    BY DEF NoFile
  <2>2. \A c \in Content : c.use \in Uses \cup {Free}
    BY DEF Content
  <2> QED
    BY <1>1, <2>1, <2>2
<1>3. \A c \in Content : /\ c.refs \subseteq Names /\ c.use \in Uses \cup {Free}
                          /\ c = [refs |-> c.refs, use |-> c.use]
  BY DEF Content
<1>4. \A refs \in SUBSET Names, use \in Uses \cup {Free} :
         [refs |-> refs, use |-> use] \in Content
  BY DEF Content
<1> QED
  BY <1>2, <1>3, <1>4

\* Only what is in progress can be a Request: everything else is over, or has not
\* begun.
LEMMA GoingFacts ==
  ASSUME req \in [Requests -> Request \cup Outcome], NEW r \in Requests
  PROVE  /\ Going(r) <=> req[r] \in Request
         /\ req[r].count \in 0..3
         /\ Going(r) =>
              /\ req[r].head \in Tree /\ req[r].work \in Tree
              /\ req[r].base \in Nat /\ req[r].target \in Paths
              /\ req[r].was \in FileContent /\ req[r].content \in FileContent
              /\ req[r].skip \in BOOLEAN /\ req[r].count \in 1..3
<1>1. CASE req[r] \in Request
  BY <1>1 DEF Going, Request, FileContent
<1>2. CASE req[r] \in Outcome
  BY <1>2 DEF Going, Request, Outcome, Phases
<1> QED
  BY <1>1, <1>2

LEMMA TreeFacts ==
  ASSUME NEW t \in Tree
  PROVE  t.files \in Files /\ t.listed \in SUBSET Paths /\ t.sorted \in BOOLEAN
BY DEF Tree, Files, FileContent

LEMMA TreesAre ==
  ASSUME NEW files \in Files, NEW listed \in SUBSET Paths, NEW sorted \in BOOLEAN
  PROVE  [files |-> files, listed |-> listed, sorted |-> sorted] \in Tree
BY DEF Tree, Files, FileContent

\* What Asked and ChangesAsAsked say of a file's contents.
Wanted(was, content, now) ==
  IF NoFile \in {was, content} THEN now = content
  ELSE /\ now # NoFile
       /\ content.use # was.use => now.use = content.use
       /\ content.refs \ was.refs \subseteq now.refs
       /\ (was.refs \ content.refs) \cap now.refs = {}

OnlyWanted(was, content, now, then) ==
  IF NoFile \in {was, content, now, then} THEN then = content
  ELSE /\ then.use # now.use => then.use = content.use /\ content.use # was.use
       /\ then.refs \ now.refs \subseteq content.refs \ was.refs
       /\ now.refs \ then.refs \subseteq was.refs \ content.refs

LEMMA WantedIsAsked ==
  ASSUME NEW r, NEW files, NEW now, NEW then
  PROVE  /\ Asked(r, files) <=>
              Wanted(req[r].was, req[r].content, files[req[r].target])
         /\ ChangesAsAsked(r, now, then) <=>
              OnlyWanted(req[r].was, req[r].content, now, then)
BY DEF Asked, ChangesAsAsked, Wanted, OnlyWanted

\* A merge of one file shows what ours asks for, and changes nothing else in theirs.
LEMMA FileMergeFacts ==
  ASSUME NEW base \in FileContent, NEW ours \in FileContent, NEW theirs \in FileContent,
         {base, ours} # {NoFile}, FileMerges(base, ours, theirs)
  PROVE  LET file == FileMerge(base, ours, theirs) IN
         /\ file \in FileContent
         /\ base # ours => Wanted(base, ours, file)
         /\ file # theirs => OnlyWanted(base, ours, theirs, file)
<1> DEFINE file == FileMerge(base, ours, theirs)
<1>1. CASE LineMerges(base, ours, theirs)
  <2>1. file = IF ours = base THEN theirs ELSE ours
    BY <1>1 DEF FileMerge, LineMerge
  <2>2. base = ours \/ base = theirs \/ ours = theirs
    BY <1>1 DEF LineMerges
  <2>3. base # ours => Wanted(base, ours, file)
    BY <2>1, <2>2 DEF Wanted
  <2>4. file # theirs => OnlyWanted(base, ours, theirs, file)
    BY <2>1, <2>2 DEF OnlyWanted
  <2> QED
    BY <2>1, <2>3, <2>4
<1>2. CASE ~LineMerges(base, ours, theirs)
  <2>1. /\ NoFile \notin {base, ours, theirs}
        /\ LineMerges(base.use, ours.use, theirs.use)
    BY <1>2 DEF FileMerges
  <2>2. base \in Content /\ ours \in Content /\ theirs \in Content
    BY <2>1 DEF FileContent
  <2>3. file = [refs |-> SetMerge(base.refs, ours.refs, theirs.refs),
                use |-> LineMerge(base.use, ours.use, theirs.use)]
    BY <1>2 DEF FileMerge
  <2>4. /\ file.refs = SetMerge(base.refs, ours.refs, theirs.refs)
        /\ file.use = IF ours.use = base.use THEN theirs.use ELSE ours.use
    BY <2>3 DEF LineMerge
  <2>5. file \in Content
    <3>1. SetMerge(base.refs, ours.refs, theirs.refs) \in SUBSET Names
      BY <2>2, ContentFacts DEF SetMerge
    <3>2. LineMerge(base.use, ours.use, theirs.use) \in Uses \cup {Free}
      BY <2>2, ContentFacts DEF LineMerge
    <3> QED
      BY <2>3, <3>1, <3>2, ContentFacts
  <2> HIDE DEF file
  <2>6. file # NoFile
    BY <2>5, ContentFacts
  <2>7. Wanted(base, ours, file)
    BY <2>1, <2>4, <2>6 DEF Wanted, SetMerge
  <2>8. OnlyWanted(base, ours, theirs, file)
    BY <2>1, <2>4, <2>6 DEF OnlyWanted, SetMerge
  <2> QED
    BY <2>5, <2>7, <2>8 DEF FileContent, file
<1> QED
  BY <1>1, <1>2

-----------------------------------------------------------------------------
\* Frames.  What a request knows stays true while nobody pushes ...
LEMMA SoundStays ==
  ASSUME NEW r \in Requests, Sound(r), req'[r] = req[r],
         main' = main, tip' = tip, took \subseteq took'
  PROVE  Sound(r)'
<1>1. Fresh(r) => Fresh(r)'
  BY DEF Fresh
<1>2. HasMerged(r) => HasMerged(r)'
  <2>1. Asked(r, req[r].head.files)' <=> Asked(r, req[r].head.files)
    BY DEF Asked
  <2>2. \A now, then : ChangesAsAsked(r, now, then)' <=> ChangesAsAsked(r, now, then)
    BY DEF ChangesAsAsked
  <2> QED
    BY <2>1, <2>2 DEF HasMerged
<1> QED
  BY <1>1, <1>2 DEF Sound

\* ... and when somebody does: what r asks for has been pushed if its commit has.
LEMMA SoundAfterPush ==
  ASSUME NEW r \in Requests, Sound(r), Going(r), req'[r] = req[r],
         req[r].base \in Nat, tip \in Nat, tip' = tip + 1,
         took' = took \cup {x \in Requests : req[x].phase \in Phases /\ Asked(x, main'.files)}
  PROVE  Sound(r)'
<1>1. req[r].base # tip' /\ req[r].base <= tip' /\ took \subseteq took'
  BY DEF Sound
<1>2. Fresh(r) => Fresh(r)'
  BY <1>1 DEF Fresh
<1>3. ASSUME HasMerged(r) PROVE HasMerged(r)'
  <2>1. Asked(r, req[r].head.files)' <=> Asked(r, req[r].head.files)
    BY DEF Asked
  <2>2. req[r].head.files = main'.files => r \in took'
    BY <1>3 DEF HasMerged, Going
  <2>3. req[r].phase = "saving" => r \in took'
    BY <1>1, <1>3 DEF HasMerged
  <2> QED
    BY <1>1, <1>3, <2>1, <2>2, <2>3 DEF HasMerged
<1> QED
  BY <1>1, <1>2, <1>3 DEF Sound

\* A step of r that pushes nothing.
LEMMA Local ==
  ASSUME RepositoryInv, NEW r \in Requests, NEW new \in Request \cup Outcome,
         req' = [req EXCEPT ![r] = new], UNCHANGED <<main, tip, faults, last, merged>>,
         took' \in SUBSET Requests, took \subseteq took',
         new.phase \in Phases => Sound(r)', new.phase = "ok" => r \in took'
  PROVE  RepositoryInv'
<1>1. req \in [Requests -> Request \cup Outcome]
  BY DEF RepositoryInv
<1>2. req' \in [Requests -> Request \cup Outcome]
  BY <1>1
<1>3. req'[r] = new /\ \A x \in Requests : x # r => req'[x] = req[x]
  BY <1>1
<1>4. TypeOK'
  BY <1>2 DEF RepositoryInv, TypeOK
<1>5. ASSUME NEW x \in Requests, Going(x)' PROVE Sound(x)'
  <2>1. CASE x = r
    BY <1>3, <1>5, <2>1 DEF Going
  <2>2. CASE x # r
    <3>1. Going(x) /\ req'[x] = req[x]
      BY <1>3, <1>5, <2>2 DEF Going
    <3> QED
      BY <3>1, SoundStays DEF RepositoryInv
  <2> QED
    BY <2>1, <2>2
<1>6. SuccessIsSaved'
  BY <1>3 DEF RepositoryInv, SuccessIsSaved
<1>7. ReferencesResolve' /\ ListIsComplete' /\ OneFilePerResource'
  BY DEF RepositoryInv, ReferencesResolve, ListIsComplete, OneFilePerResource
<1> QED
  BY <1>2, <1>4, <1>5, <1>6, <1>7 DEF RepositoryInv

\* A push of r.
LEMMA Pushed ==
  ASSUME RepositoryInv, NEW r \in Requests, NEW new \in Request \cup Outcome,
         req' = [req EXCEPT ![r] = new], faults' \in 0..MaxFaults,
         NEW tree \in Tree, NEW how \in {"checked", "skipped", "merged"},
         Publish(r, tree, how),
         how = "checked" => Compare(tree.files),
         how # "merged" => tree.listed = FilesOf(tree.files),
         how # "merged" /\ ~merged => OnePath(tree.files),
         new.phase \in Phases => Sound(r)', new.phase = "ok" => r \in took'
  PROVE  RepositoryInv'
<1>1. req \in [Requests -> Request \cup Outcome] /\ TypeOK
  BY DEF RepositoryInv
<1>2. req' \in [Requests -> Request \cup Outcome]
  BY <1>1
<1>3. req'[r] = new /\ \A x \in Requests : x # r => req'[x] = req[x]
  BY <1>1
<1>4. /\ main' = tree /\ tip' = tip + 1 /\ last' = how
      /\ merged' = (merged \/ how = "merged")
      /\ took' = took \cup {x \in Requests : req[x].phase \in Phases /\ Asked(x, main'.files)}
  BY DEF Publish
<1>5. TypeOK'
  BY <1>1, <1>2, <1>4 DEF TypeOK
<1>6. ASSUME NEW x \in Requests, Going(x)' PROVE Sound(x)'
  <2>1. CASE x = r
    BY <1>3, <1>6, <2>1 DEF Going
  <2>2. CASE x # r
    <3>1. Going(x) /\ req'[x] = req[x] /\ Sound(x)
      BY <1>3, <1>6, <2>2 DEF Going, RepositoryInv
    <3> QED
      BY <1>1, <1>4, <3>1, GoingFacts, SoundAfterPush DEF TypeOK
  <2> QED
    BY <2>1, <2>2
<1>7. SuccessIsSaved'
  BY <1>3, <1>4 DEF RepositoryInv, SuccessIsSaved
<1>8. ReferencesResolve' /\ ListIsComplete'
  BY <1>4 DEF RepositoryInv, ReferencesResolve, ListIsComplete
<1>9. OneFilePerResource'
  BY <1>4 DEF OneFilePerResource
<1> QED
  BY <1>2, <1>5, <1>6, <1>7, <1>8, <1>9 DEF RepositoryInv

LEMMA MaxFaultsIsNat == MaxFaults \in Nat
BY RepositoryAssumption, Zenon

LEMMA FaultSpent ==
  ASSUME TypeOK, faults > 0, faults' = faults - 1
  PROVE  faults' \in 0..MaxFaults
BY MaxFaultsIsNat DEF TypeOK

LEMMA FailFacts ==
  ASSUME req \in [Requests -> Request \cup Outcome], NEW r \in Requests,
         NEW error \in Errors, Fail(r, error)
  PROVE  \E new \in Outcome : req' = [req EXCEPT ![r] = new] /\ new.phase = "failed"
<1> DEFINE new == [phase |-> "failed", error |-> error, count |-> req[r].count]
<1>1. new \in Outcome /\ new.phase = "failed"
  BY GoingFacts DEF Outcome
<1> HIDE DEF new
<1>2. req' = [req EXCEPT ![r] = new]
  BY DEF Fail, new
<1> QED
  BY <1>1, <1>2

LEMMA FailKeeps ==
  ASSUME RepositoryInv, NEW r \in Requests, NEW error \in Errors, Fail(r, error),
         UNCHANGED <<main, tip, faults, history>>
  PROVE  RepositoryInv'
<1>1. /\ took \in SUBSET Requests
      /\ req \in [Requests -> Request \cup Outcome]
  BY DEF RepositoryInv, TypeOK
<1>2. PICK new \in Outcome : req' = [req EXCEPT ![r] = new] /\ new.phase = "failed"
  BY <1>1, FailFacts
<1>3. new.phase \notin Phases /\ new.phase # "ok"
  BY <1>2 DEF Phases
<1> QED
  BY <1>1, <1>2, <1>3, Local DEF history

Ok == [phase |-> "ok", error |-> "none", count |-> 0]

LEMMA OutcomeFacts ==
  /\ Ok \in Outcome /\ Ok.phase \notin Phases
  /\ NoRequest \in Outcome /\ NoRequest.phase \notin Phases /\ NoRequest.phase # "ok"
<1>1. 0 \in 0..3 /\ "none" \in Errors
  BY DEF Errors
<1> QED
  BY <1>1 DEF Ok, NoRequest, Outcome, Phases

LEMMA InitInv == Init => RepositoryInv
<1> SUFFICES ASSUME Init PROVE RepositoryInv
  OBVIOUS
<1>1. NoRequest \in Outcome /\ NoRequest.phase \notin Phases /\ NoRequest.phase # "ok"
  BY OutcomeFacts
<1>2. PICK files \in [Paths -> (UNION {Contents[n] : n \in Names}) \cup {NoFile}] :
         /\ Compare(files) /\ OnePath(files)
         /\ main = [files |-> files, listed |-> FilesOf(files), sorted |-> TRUE]
  BY DEF Init
<1>3. UNION {Contents[n] : n \in Names} \subseteq Content
  BY RepositoryAssumption
<1>4. files \in Files /\ FilesOf(files) \in SUBSET Paths
  BY <1>3 DEF Files, FileContent, FilesOf
<1>5. main \in Tree
  BY <1>2, <1>4, TreesAre
<1>6. /\ tip = 0 /\ req = [r \in Requests |-> NoRequest] /\ faults = MaxFaults
      /\ took = {} /\ last = "none" /\ merged = FALSE
  BY DEF Init
<1>7. req \in [Requests -> Request \cup Outcome]
  BY <1>1, <1>6
<1>8. TypeOK
  <2>0. MaxFaults \in Nat /\ faults = MaxFaults /\ tip = 0
    BY <1>6, RepositoryAssumption, Zenon
  <2>1. tip \in Nat /\ faults \in 0..MaxFaults
    BY <2>0
  <2> QED
    BY <1>5, <1>6, <1>7, <2>1 DEF TypeOK
<1>9. ReferencesResolve /\ ListIsComplete /\ OneFilePerResource
  BY <1>2, <1>6 DEF ReferencesResolve, ListIsComplete, OneFilePerResource
<1>10. SuccessIsSaved /\ \A r \in Requests : ~Going(r)
  BY <1>1, <1>6 DEF SuccessIsSaved, Going
<1> QED
  BY <1>7, <1>8, <1>9, <1>10 DEF RepositoryInv

-----------------------------------------------------------------------------
\* The steps before the push.

\* The file a request changes is the only one of its resource, if each had one.
LEMMA FileForFacts ==
  ASSUME NEW files \in Files, NEW o \in Requestable, NEW p \in FileFor(files, o)
  PROVE  /\ p \in Paths /\ p[1] = o.name
         /\ o.content \in FileContent /\ o.skip \in BOOLEAN
         /\ {files[p], o.content} # {NoFile}
         /\ OnePath(files) => OnePath([files EXCEPT ![p] = o.content])
<1>1. /\ o.name \in Names /\ o.home \in Homes /\ o.home \in Locations[o.name]
      /\ o.content \in FileContent /\ o.skip \in BOOLEAN
      /\ o.method \in {"save", "delete"}
  BY DEF Requestable, Operations, FileContent
<1>2. o.method = "save" => o.content # NoFile
  BY ContentFacts DEF Requestable, Operations
<1>3. <<o.name, o.home>> \in Paths
  BY <1>1 DEF Paths
<1>4. CASE PathsOf(files, o.name) # {}
  <2>1. p \in PathsOf(files, o.name)
    BY <1>4 DEF FileFor
  <2>2. p \in Paths /\ files[p] # NoFile /\ p[1] = o.name
    BY <2>1 DEF PathsOf, FilesOf
  <2>3. OnePath(files) => OnePath([files EXCEPT ![p] = o.content])
    BY <2>2 DEF OnePath, FilesOf, Files
  <2> QED
    BY <1>1, <2>2, <2>3
<1>5. CASE PathsOf(files, o.name) = {}
  <2>1. o.method = "save" /\ p = <<o.name, o.home>>
    BY <1>1, <1>5 DEF FileFor
  <2>2. \A q \in FilesOf(files) : q[1] # o.name
    BY <1>5 DEF PathsOf
  <2>3. OnePath(files) => OnePath([files EXCEPT ![p] = o.content])
    BY <1>3, <2>1, <2>2 DEF OnePath, FilesOf, Files
  <2> QED
    BY <1>1, <1>2, <1>3, <2>1, <2>3
<1> QED
  BY <1>4, <1>5

LEMMA CloneKeeps ==
  ASSUME RepositoryInv, NEW r \in Requests, NEW o \in Requestable, NEW p \in Paths,
         Clone(r, o, p)
  PROVE  RepositoryInv'
<1> DEFINE files == [main.files EXCEPT ![p] = o.content]
           work == Kustomization(main.files, files, main.files[p] = NoFile)
           new == [phase |-> "written", head |-> main, base |-> tip, skip |-> o.skip,
                   work |-> work, target |-> p, was |-> main.files[p],
                   content |-> o.content, count |-> 1]
<1>1. /\ main \in Tree /\ tip \in Nat /\ took \in SUBSET Requests
      /\ req \in [Requests -> Request \cup Outcome] /\ main.files \in Files
  BY TreeFacts DEF RepositoryInv, TypeOK
<1>2. p \in FileFor(main.files, o) /\ (o.skip \/ Compare(files))
  BY DEF Clone, Validated
<1>3. /\ o.content \in FileContent /\ o.skip \in BOOLEAN
      /\ {main.files[p], o.content} # {NoFile}
      /\ OnePath(main.files) => OnePath(files)
  BY <1>1, <1>2, FileForFacts
<1>4. /\ req' = [req EXCEPT ![r] = new]
      /\ took' = IF o.content = main.files[p] THEN took \cup {r} ELSE took
      /\ UNCHANGED <<main, tip, faults, last, merged>>
  BY DEF Clone
<1>5. files \in Files /\ main.files[p] \in FileContent
  BY <1>1, <1>3 DEF Files
<1>6. /\ work = [files |-> files, listed |-> FilesOf(files), sorted |-> ~(main.files[p] = NoFile)]
      /\ work.files = files /\ work.listed = FilesOf(files)
  BY DEF Kustomization
<1>7. work \in Tree
  <2>1. FilesOf(files) \in SUBSET Paths
    BY DEF FilesOf
  <2>2. (~(main.files[p] = NoFile)) \in BOOLEAN
    OBVIOUS
  <2> HIDE DEF files, work
  <2> QED
    BY <1>5, <1>6, <2>1, <2>2, TreesAre
<1> HIDE DEF work
<1>8. new \in Request
  <2>1. 1 \in 1..3 /\ "written" \in Phases
    BY DEF Phases
  <2> QED
    BY <1>1, <1>3, <1>5, <1>7, <2>1 DEF Request, FileContent
<1>9. /\ new.phase = "written" /\ new.head = main /\ new.base = tip /\ new.skip = o.skip
      /\ new.work = work /\ new.target = p /\ new.was = main.files[p]
      /\ new.content = o.content
  OBVIOUS
<1>10. req'[r] = new
  BY <1>1, <1>4
<1> HIDE DEF new
<1>11. Sound(r)'
  <2>1. Fresh(r)'
    BY <1>2, <1>3, <1>4, <1>6, <1>9, <1>10 DEF Fresh
  <2> QED
    BY <1>1, <1>3, <1>4, <1>9, <1>10, <2>1 DEF Sound
<1>12. took \subseteq took' /\ took' \in SUBSET Requests
  BY <1>1, <1>4
<1> QED
  BY <1>4, <1>8, <1>9, <1>11, <1>12, Local

LEMMA FetchKeeps ==
  ASSUME RepositoryInv, NEW r \in Requests, Fetch(r) PROVE RepositoryInv'
<1> DEFINE head == req[r].head
<1>1. /\ req \in [Requests -> Request \cup Outcome] /\ took \in SUBSET Requests
      /\ UNCHANGED <<main, tip, faults, history>>
      /\ req[r].phase = "written"
  BY DEF RepositoryInv, TypeOK, Fetch
<1>2. Going(r) /\ req[r] \in Request /\ Sound(r)
  BY <1>1, GoingFacts DEF Going, Phases, RepositoryInv
<1>3. PICK pc \in {"saving", "merging"} :
         /\ req' = [req EXCEPT ![r].phase = pc]
         /\ pc = "saving" =>
              req[r].base = tip \/ (head.files = main.files /\ head.listed = main.listed)
  BY DEF Fetch
<1> DEFINE new == [req[r] EXCEPT !.phase = pc]
<1>4. new \in Request
  BY <1>2 DEF Request, Phases
<1>5. /\ new.phase = pc /\ new.head = req[r].head /\ new.base = req[r].base
      /\ new.work = req[r].work /\ new.skip = req[r].skip /\ new.target = req[r].target
      /\ new.was = req[r].was /\ new.content = req[r].content
  BY <1>2 DEF Request
<1>6. req' = [req EXCEPT ![r] = new] /\ req'[r] = new
  BY <1>1, <1>3
<1> HIDE DEF new
<1>7. Fresh(r) => Fresh(r)'
  BY <1>1, <1>5, <1>6 DEF Fresh, history
<1>8. ASSUME HasMerged(r) PROVE HasMerged(r)'
  <2>1. Asked(r, req[r].head.files)' <=> Asked(r, req[r].head.files)
    BY <1>1, <1>5, <1>6 DEF Asked
  <2>2. pc = "saving" => r \in took
    BY <1>1, <1>3, <1>8 DEF HasMerged
  <2> QED
    BY <1>1, <1>5, <1>6, <1>8, <2>1, <2>2 DEF HasMerged, history
<1>9. Sound(r)'
  BY <1>1, <1>2, <1>5, <1>6, <1>7, <1>8 DEF Sound
<1>10. new.phase # "ok"
  BY <1>5
<1> QED
  BY <1>1, <1>4, <1>6, <1>9, <1>10, Local DEF history

LEMMA SaveConfigCleanKeeps ==
  ASSUME RepositoryInv, NEW r \in Requests, SaveConfigClean(r) PROVE RepositoryInv'
<1>1. /\ req[r].phase = "saving" /\ req[r].work = req[r].head
      /\ req' = [req EXCEPT ![r] = Ok]
      /\ UNCHANGED <<main, tip, faults, history>>
  BY DEF SaveConfigClean, Succeed, Ok
<1>2. /\ req \in [Requests -> Request \cup Outcome] /\ took \in SUBSET Requests
      /\ Going(r) /\ Sound(r)
  BY <1>1 DEF RepositoryInv, TypeOK, Going, Phases
<1>3. CASE Fresh(r)
  <2>1. req[r].head.files \in Files /\ req[r].target \in Paths
    BY <1>2, GoingFacts, TreeFacts
  <2>2. req[r].content = req[r].head.files[req[r].target]
    BY <1>1, <1>3, <2>1 DEF Fresh, Files
  <2> QED
    BY <1>1, <1>2, <1>3, <2>2, OutcomeFacts, Local DEF Fresh, history
<1>4. CASE HasMerged(r)
  BY <1>1, <1>2, <1>4, OutcomeFacts, Local DEF HasMerged, history
<1> QED
  BY <1>2, <1>3, <1>4 DEF Sound

\* The rest fail before they have an effect.
LEMMA RefusalsKeep ==
  ASSUME RepositoryInv, NEW r \in Requests,
         \/ \E o \in Requestable : CloneRefused(r, o)
         \/ MergeConflicts(r) \/ NothingToCommit(r) \/ Abort(r)
  PROVE  RepositoryInv'
<1>1. /\ \E error \in Errors : Fail(r, error)
      /\ UNCHANGED <<main, tip, faults, history>>
  BY DEF CloneRefused, MergeConflicts, NothingToCommit, Abort, Errors
<1> QED
  BY <1>1, FailKeeps

-----------------------------------------------------------------------------
\* The pushes: PushesKeepOthers holds of each.
KeepsOthers ==
  \A p \in Paths : main'.files[p] # main.files[p] =>
    \E r \in Requests : /\ req[r].phase \in {"saving", "pushing"}
                        /\ req'[r] # req[r]
                        /\ req[r].target = p
                        /\ ChangesAsAsked(r, main.files[p], main'.files[p])

LEMMA SaveConfigKeeps ==
  ASSUME RepositoryInv, NEW r \in Requests, SaveConfig(r)
  PROVE  RepositoryInv' /\ KeepsOthers
<1>1. /\ req[r].phase = "saving" /\ req[r].work # req[r].head
      /\ req \in [Requests -> Request \cup Outcome] /\ TypeOK
  BY DEF SaveConfig, RepositoryInv
<1>2. Going(r) /\ Sound(r)
  BY <1>1 DEF RepositoryInv, Going, Phases
<1>3. Fresh(r) /\ req[r].work \in Tree
  BY <1>1, <1>2, GoingFacts DEF Sound, HasMerged
<1>4. CASE ~Accepted(r)
  <2>1. Fail(r, "push") /\ UNCHANGED <<main, tip, faults, history>>
    BY <1>4 DEF SaveConfig
  <2> QED
    BY <2>1, FailKeeps DEF KeepsOthers, Errors
<1>5. CASE Accepted(r)
  <2>1. PICK how \in {"checked", "skipped"} :
           /\ how = "checked" => ~req[r].skip
           /\ Publish(r, req[r].work, how)
    <3>1. CASE req[r].skip
      BY <1>5, <3>1 DEF SaveConfig
    <3>2. CASE ~req[r].skip
      BY <1>5, <3>2 DEF SaveConfig
    <3> QED
      BY <3>1, <3>2
  <2>2. PICK new \in Outcome :
           /\ req' = [req EXCEPT ![r] = new] /\ faults' \in 0..MaxFaults
           /\ new.phase \in {"ok", "failed"}
    <3>1. CASE Succeed(r) /\ UNCHANGED faults
      BY <1>1, <3>1, OutcomeFacts DEF Succeed, Ok, TypeOK
    <3>2. CASE faults > 0 /\ faults' = faults - 1 /\ Fail(r, "call")
      <4>1. faults' \in 0..MaxFaults
        BY <1>1, <3>2, FaultSpent
      <4>2. PICK new \in Outcome : /\ req' = [req EXCEPT ![r] = new]
                                   /\ new.phase = "failed"
        BY <1>1, <3>2, FailFacts DEF Errors
      <4> QED
        BY <4>1, <4>2
    <3> QED
      BY <1>5, <3>1, <3>2 DEF SaveConfig
  <2>3. req'[r] = new /\ req'[r] # req[r]
    BY <1>1, <2>2
  <2>4. req[r].base = tip /\ req[r].head = main
    BY <1>3, <1>5 DEF Accepted, Fresh
  <2>5. /\ req[r].head.files \in Files /\ req[r].target \in Paths
        /\ req[r].was \in FileContent /\ req[r].content \in FileContent
    BY <1>1, <1>2, GoingFacts, TreeFacts
  <2>6. /\ req[r].work.files[req[r].target] = req[r].content
        /\ \A p \in Paths : p # req[r].target => req[r].work.files[p] = main.files[p]
        /\ main.files[req[r].target] = req[r].was
    BY <1>3, <2>4, <2>5 DEF Fresh, Files
  <2>7. r \in took'
    <3>1. Asked(r, req[r].work.files) \/ req[r].was = req[r].content
      <4>1. req[r].was # req[r].content =>
              Wanted(req[r].was, req[r].content, req[r].content)
        BY DEF Wanted
      <4> QED
        BY <2>6, <4>1, WantedIsAsked
    <3>2. req[r].was = req[r].content => r \in took
      BY <1>3 DEF Fresh
    <3> QED
      BY <1>2, <2>1, <3>1, <3>2 DEF Publish, Going
  <2>8. RepositoryInv'
    <3>1. how = "checked" => Compare(req[r].work.files)
      BY <1>3, <2>1 DEF Fresh
    <3>2. req[r].work.listed = FilesOf(req[r].work.files)
      BY <1>3 DEF Fresh
    <3>3. ~merged => OnePath(req[r].work.files)
      BY <1>3, <2>4 DEF Fresh, RepositoryInv, OneFilePerResource
    <3>4. new.phase \notin Phases
      BY <2>2 DEF Phases
    <3> QED
      BY <1>3, <2>1, <2>2, <2>7, <3>1, <3>2, <3>3, <3>4, Pushed
  <2>9. KeepsOthers
    <3> SUFFICES ASSUME NEW p \in Paths, main'.files[p] # main.files[p]
                 PROVE  /\ req[r].target = p
                        /\ ChangesAsAsked(r, main.files[p], main'.files[p])
      BY <1>1, <2>3 DEF KeepsOthers
    <3>1. main' = req[r].work
      BY <2>1 DEF Publish
    <3>2. req[r].target = p
      BY <2>6, <3>1
    <3>3. OnlyWanted(req[r].was, req[r].content, req[r].was, req[r].content)
      BY <2>6, <3>1, <3>2 DEF OnlyWanted
    <3> QED
      BY <2>6, <3>1, <3>2, <3>3, WantedIsAsked
  <2> QED
    BY <2>8, <2>9
<1> QED
  BY <1>4, <1>5

\* What the merge makes of the commit, and of what r asks for.
LEMMA MergeKeeps ==
  ASSUME RepositoryInv, NEW r \in Requests, Merge(r) PROVE RepositoryInv'
<1> DEFINE base == req[r].head
           ours == req[r].work
           p == req[r].target
<1>1. /\ req \in [Requests -> Request \cup Outcome] /\ TypeOK /\ took \in SUBSET Requests
      /\ req[r].phase = "merging" /\ ours # base
      /\ UNCHANGED <<main, tip, faults, history>>
  BY DEF RepositoryInv, TypeOK, Merge
<1>2. Going(r) /\ req[r] \in Request /\ Sound(r)
  BY <1>1, GoingFacts DEF Going, Phases, RepositoryInv
<1>3. /\ Fresh(r) /\ {req[r].was, req[r].content} # {NoFile}
  BY <1>1, <1>2 DEF Sound, HasMerged
<1>4. /\ base \in Tree /\ ours \in Tree /\ p \in Paths /\ main \in Tree
      /\ req[r].was \in FileContent /\ req[r].content \in FileContent /\ tip \in Nat
  BY <1>1, <1>2, GoingFacts DEF TypeOK
<1>5. /\ base.files \in Files /\ ours.files \in Files /\ main.files \in Files
      /\ base.listed \in SUBSET Paths /\ ours.listed \in SUBSET Paths
      /\ main.listed \in SUBSET Paths /\ main.sorted \in BOOLEAN
  BY <1>4, TreeFacts
<1>6. base.files[p] = req[r].was /\ ours.files[p] = req[r].content
  BY <1>3, <1>4, <1>5 DEF Fresh, Files
<1>7. PICK q \in Successors(base.files, ours.files, main.files, p),
           s \in SUBSET StaleLines(base, ours, main) :
         /\ FileMerges(base.files[p], ours.files[p], main.files[q])
         /\ req' = [req EXCEPT ![r] = [@ EXCEPT !.phase = "pushing",
                                        !.head = MergedTree(base, ours, main, p, q, s),
                                        !.work = MergedTree(base, ours, main, p, q, s),
                                        !.base = tip, !.target = q]]
  BY DEF Merge
<1>8. q \in Paths /\ s \in SUBSET Paths
  BY <1>4, <1>5, <1>7 DEF Successors, FilesOf, StaleLines
<1> DEFINE file == FileMerge(base.files[p], ours.files[p], main.files[q])
           tree == MergedTree(base, ours, main, p, q, s)
           new == [req[r] EXCEPT !.phase = "pushing", !.head = tree, !.work = tree,
                                 !.base = tip, !.target = q]
<1>9. /\ file \in FileContent
      /\ req[r].was # req[r].content => Wanted(req[r].was, req[r].content, file)
      /\ file # main.files[q] =>
           OnlyWanted(req[r].was, req[r].content, main.files[q], file)
  <2>1. main.files[q] \in FileContent
    BY <1>5, <1>8 DEF Files
  <2> QED
    BY <1>3, <1>4, <1>6, <1>7, <2>1, FileMergeFacts
<1> HIDE DEF file
<1>10. tree.files = [main.files EXCEPT ![q] = file]
  BY DEF MergedTree, file
<1>11. tree \in Tree
  <2>1. [main.files EXCEPT ![q] = file] \in Files
    BY <1>5, <1>9 DEF Files
  <2>2. SetMerge(base.listed, ours.listed, main.listed) \cup s \in SUBSET Paths
    BY <1>5, <1>8 DEF SetMerge
  <2>3. (ours.listed = base.listed /\ ours.sorted = base.sorted /\ main.sorted) \in BOOLEAN
    OBVIOUS
  <2>4. tree = [files |-> [main.files EXCEPT ![q] = file],
                listed |-> SetMerge(base.listed, ours.listed, main.listed) \cup s,
                sorted |-> ours.listed = base.listed /\ ours.sorted = base.sorted
                           /\ main.sorted]
    BY Zenon DEF MergedTree, file
  <2> HIDE DEF tree, base, ours
  <2> QED
    BY <2>1, <2>2, <2>3, <2>4, TreesAre
<1> HIDE DEF tree
<1>12. new \in Request
  BY <1>2, <1>4, <1>8, <1>11 DEF Request, Phases
<1>13. /\ new.phase = "pushing" /\ new.head = tree /\ new.work = tree /\ new.base = tip
       /\ new.target = q /\ new.was = req[r].was /\ new.content = req[r].content
  BY <1>2 DEF Request
<1>14. req' = [req EXCEPT ![r] = new] /\ req'[r] = new
  BY <1>1, <1>7 DEF tree
<1> HIDE DEF new
<1>15. tree.files[q] = file /\ \A x \in Paths : x # q => tree.files[x] = main.files[x]
  BY <1>5, <1>8, <1>10 DEF Files
<1>16. HasMerged(r)'
  <2>1. Asked(r, req[r].head.files)' \/ r \in took
    <3>1. CASE req[r].was = req[r].content
      BY <1>3, <3>1 DEF Fresh
    <3>2. CASE req[r].was # req[r].content
      <4>1. Wanted(new.was, new.content, tree.files[new.target])
        BY <1>9, <1>13, <1>15, <3>2
      <4> QED
        BY <1>13, <1>14, <4>1 DEF Asked, Wanted
    <3> QED
      BY <3>1, <3>2
  <2>2. ASSUME NEW x \in Paths, tree.files[x] # main.files[x]
        PROVE  x = q /\ ChangesAsAsked(r, main.files[x], req[r].head.files[x])'
    <3>1. x = q
      BY <1>15, <2>2
    <3>2. OnlyWanted(new.was, new.content, main.files[x], tree.files[x])
      BY <1>9, <1>13, <1>15, <2>2, <3>1
    <3> QED
      BY <1>1, <1>13, <1>14, <3>1, <3>2 DEF ChangesAsAsked, OnlyWanted, history
  <2> QED
    BY <1>1, <1>13, <1>14, <2>1, <2>2 DEF HasMerged, history
<1>17. Sound(r)'
  BY <1>1, <1>3, <1>4, <1>13, <1>14, <1>16 DEF Sound
<1>18. new.phase # "ok"
  BY <1>13
<1> QED
  BY <1>1, <1>12, <1>14, <1>17, <1>18, Local DEF history

\* A retried push starts over from the commit that was merged.
LEMMA RetryFacts ==
  ASSUME req \in [Requests -> Request \cup Outcome], NEW r \in Requests, Going(r),
         NEW base \in Nat, Retry(r, base)
  PROVE  \E new \in Request \cup Outcome :
           /\ req' = [req EXCEPT ![r] = new] /\ new.phase # "ok" /\ new # req[r]
           /\ new.phase \in Phases =>
                /\ new.phase = "written" /\ new.base = base /\ new.head = req[r].head
                /\ new.work = req[r].work /\ new.target = req[r].target
                /\ new.was = req[r].was /\ new.content = req[r].content
<1>1. req[r] \in Request /\ req[r].count \in 1..3
  BY GoingFacts
<1>2. CASE req[r].count = 3
  <2>1. Fail(r, "push") /\ "push" \in Errors
    BY <1>2 DEF Retry, Errors
  <2>2. PICK new \in Outcome : req' = [req EXCEPT ![r] = new] /\ new.phase = "failed"
    BY <2>1, FailFacts
  <2>3. new.phase \notin Phases /\ req[r].phase \in Phases
    BY <2>2 DEF Phases, Going
  <2> QED
    BY <2>2, <2>3
<1>3. CASE req[r].count # 3
  <2> DEFINE new == [req[r] EXCEPT !.phase = "written", !.count = @ + 1, !.base = base]
  <2>1. req' = [req EXCEPT ![r] = new]
    BY <1>3 DEF Retry
  <2>2. req[r].count + 1 \in 1..3 /\ req[r].count + 1 # req[r].count
    BY <1>1, <1>3
  <2>3. "written" \in Phases
    BY DEF Phases
  <2>4. new \in Request
    BY <1>1, <2>2, <2>3 DEF Request
  <2>5. /\ new.phase = "written" /\ new.base = base /\ new.head = req[r].head
        /\ new.work = req[r].work /\ new.target = req[r].target
        /\ new.was = req[r].was /\ new.content = req[r].content
        /\ new.count = req[r].count + 1
    BY <1>1 DEF Request
  <2> HIDE DEF new
  <2> QED
    BY <2>1, <2>2, <2>4, <2>5
<1> QED
  BY <1>2, <1>3

LEMMA PushKeeps ==
  ASSUME RepositoryInv, NEW r \in Requests, Push(r)
  PROVE  RepositoryInv' /\ KeepsOthers
<1>1. /\ req[r].phase = "pushing" /\ took \in SUBSET Requests
      /\ req \in [Requests -> Request \cup Outcome] /\ TypeOK /\ tip \in Nat
  BY DEF Push, RepositoryInv, TypeOK
<1>2. Going(r) /\ Sound(r)
  BY <1>1 DEF RepositoryInv, Going, Phases
<1>3. /\ HasMerged(r) /\ req[r].head \in Tree /\ req[r].base \in Nat
      /\ {req[r].was, req[r].content} # {NoFile} /\ req[r].base <= tip
  BY <1>1, <1>2, GoingFacts DEF Sound, Fresh
<1>4. CASE ~Accepted(r)
  <2>1. Retry(r, req[r].base) /\ UNCHANGED <<main, tip, faults, history>>
    BY <1>4 DEF Push
  <2>2. PICK new \in Request \cup Outcome :
           /\ req' = [req EXCEPT ![r] = new] /\ new.phase # "ok" /\ new # req[r]
           /\ new.phase \in Phases =>
                /\ new.phase = "written" /\ new.base = req[r].base
                /\ new.head = req[r].head
                /\ new.work = req[r].work /\ new.target = req[r].target
                /\ new.was = req[r].was /\ new.content = req[r].content
    BY <1>1, <1>2, <1>3, <2>1, RetryFacts
  <2>3. req'[r] = new /\ req[r].base # tip
    BY <1>1, <1>4, <2>2 DEF Accepted
  <2>4. ASSUME new.phase \in Phases PROVE Sound(r)'
    <3>1. Asked(r, req[r].head.files)' <=> Asked(r, req[r].head.files)
      BY <2>2, <2>3, <2>4 DEF Asked
    <3>2. HasMerged(r)'
      BY <1>3, <2>1, <2>2, <2>3, <2>4, <3>1 DEF HasMerged, history
    <3> QED
      BY <1>3, <2>1, <2>2, <2>3, <2>4, <3>2 DEF Sound
  <2>5. RepositoryInv'
    BY <1>1, <2>1, <2>2, <2>4, Local DEF history
  <2> QED
    BY <2>1, <2>5 DEF KeepsOthers
<1>5. CASE Accepted(r)
  <2>1. Publish(r, req[r].head, "merged")
    BY <1>5 DEF Push
  <2>2. /\ main' = req[r].head /\ tip' = tip + 1 /\ tip' \in Nat
        /\ took' = took \cup {x \in Requests : req[x].phase \in Phases
                                                 /\ Asked(x, req[r].head.files)}
    BY <1>1, <2>1 DEF Publish
  <2>3. r \in took'
    BY <1>2, <1>3, <2>2 DEF HasMerged, Going
  <2>4. PICK new \in Request \cup Outcome :
           /\ req' = [req EXCEPT ![r] = new] /\ faults' \in 0..MaxFaults /\ new # req[r]
           /\ new.phase \in Phases =>
                /\ new.phase = "written" /\ new.base = tip' /\ new.head = req[r].head
                /\ new.work = req[r].work /\ new.target = req[r].target
                /\ new.was = req[r].was /\ new.content = req[r].content
    <3>1. CASE Succeed(r) /\ UNCHANGED faults
      <4>1. req' = [req EXCEPT ![r] = Ok] /\ Ok # req[r] /\ faults' \in 0..MaxFaults
        BY <1>1, <3>1 DEF Succeed, Ok, TypeOK
      <4> QED
        BY <4>1, OutcomeFacts
    <3>2. CASE faults > 0 /\ faults' = faults - 1 /\ Retry(r, tip')
      <4>1. faults' \in 0..MaxFaults
        BY <1>1, <3>2, FaultSpent
      <4> QED
        BY <1>1, <1>2, <2>2, <3>2, <4>1, RetryFacts
    <3> QED
      BY <1>5, <3>1, <3>2 DEF Push
  <2>5. req'[r] = new
    BY <1>1, <2>4
  <2>6. ASSUME new.phase \in Phases PROVE Sound(r)'
    <3>1. HasMerged(r)'
      BY <1>3, <2>2, <2>3, <2>4, <2>5, <2>6 DEF HasMerged
    <3>2. tip' <= tip'
      BY <2>2
    <3> QED
      BY <1>3, <2>4, <2>5, <2>6, <3>1, <3>2 DEF Sound
  <2>7. RepositoryInv'
    BY <1>3, <2>1, <2>3, <2>4, <2>6, Pushed
  <2>8. KeepsOthers
    <3> SUFFICES ASSUME NEW p \in Paths, main'.files[p] # main.files[p]
                 PROVE  /\ req[r].target = p
                        /\ ChangesAsAsked(r, main.files[p], main'.files[p])
      BY <1>1, <2>4, <2>5 DEF KeepsOthers
    <3> QED
      BY <1>1, <1>3, <1>5, <2>2 DEF HasMerged, Accepted
  <2> QED
    BY <2>7, <2>8
<1> QED
  BY <1>4, <1>5

-----------------------------------------------------------------------------
LEMMA NextInv == RepositoryInv /\ [Next]_vars => RepositoryInv' /\ KeepsOthers
<1> SUFFICES ASSUME RepositoryInv, [Next]_vars PROVE RepositoryInv' /\ KeepsOthers
  OBVIOUS
<1>1. ASSUME NEW r \in Requests, SaveConfig(r) \/ Push(r)
      PROVE  RepositoryInv' /\ KeepsOthers
  BY <1>1, SaveConfigKeeps, PushKeeps
<1>2. ASSUME NEW r \in Requests, NEW o \in Requestable, NEW p \in Paths, Clone(r, o, p)
      PROVE  RepositoryInv' /\ main' = main
  BY <1>2, CloneKeeps DEF Clone
<1>3. ASSUME NEW r \in Requests, Fetch(r) \/ SaveConfigClean(r) \/ Merge(r)
      PROVE  RepositoryInv' /\ main' = main
  BY <1>3, FetchKeeps, SaveConfigCleanKeeps, MergeKeeps
  DEF Fetch, SaveConfigClean, Merge
<1>4. ASSUME NEW r \in Requests,
             \/ \E o \in Requestable : CloneRefused(r, o)
             \/ MergeConflicts(r) \/ NothingToCommit(r) \/ Abort(r)
      PROVE  RepositoryInv' /\ main' = main
  BY <1>4, RefusalsKeep DEF CloneRefused, MergeConflicts, NothingToCommit, Abort
<1>5. CASE UNCHANGED vars
  <2>1. main' = main /\ tip' = tip /\ req' = req /\ faults' = faults /\ took' = took
        /\ last' = last /\ merged' = merged
    BY <1>5 DEF vars, history
  <2>2. ASSUME NEW r \in Requests, Going(r)' PROVE Sound(r)'
    BY <2>1, <2>2, SoundStays DEF RepositoryInv, Going
  <2> QED
    BY <2>1, <2>2
    DEF RepositoryInv, TypeOK, KeepsOthers, ReferencesResolve, ListIsComplete,
        OneFilePerResource, SuccessIsSaved
<1>6. main' = main => KeepsOthers
  BY DEF KeepsOthers
<1> QED
  BY <1>1, <1>2, <1>3, <1>4, <1>5, <1>6 DEF Next

LEMMA InvAlways == Spec => []RepositoryInv
<1>1. RepositoryInv /\ [Next]_vars => RepositoryInv'
  BY NextInv
<1> QED
  BY <1>1, InitInv, PTL DEF Spec

\* Branch, clones and requests stay what they are declared as.
THEOREM TypeCorrect == Spec => []TypeOK
<1>1. RepositoryInv => TypeOK
  BY DEF RepositoryInv
<1> QED
  BY <1>1, InvAlways, PTL

\* A checked push that meets nobody else's leaves a tree in which every reference
\* resolves (Save and Delete, resourcecompare.go).
THEOREM CheckedPushIsValid == Spec => []ReferencesResolve
<1>1. RepositoryInv => ReferencesResolve
  BY DEF RepositoryInv
<1> QED
  BY <1>1, InvAlways, PTL

\* Only git's merges can leave a kustomization that misses a file or lists one too
\* many (updateKustomization).
THEOREM KustomizationIsComplete == Spec => []ListIsComplete
<1>1. RepositoryInv => ListIsComplete
  BY DEF RepositoryInv
<1> QED
  BY <1>1, InvAlways, PTL

\* Only git's merges can give a resource a second file (GetNode, UpdateNode).
THEOREM ResourcesAreUnique == Spec => []OneFilePerResource
<1>1. RepositoryInv => OneFilePerResource
  BY DEF RepositoryInv
<1> QED
  BY <1>1, InvAlways, PTL

\* A request that reports success has had its change on the remote branch, through
\* merges, renames, refused pushes and lost answers (PushToGit, SaveConfig).
THEOREM SuccessMeansSaved == Spec => []SuccessIsSaved
<1>1. RepositoryInv => SuccessIsSaved
  BY DEF RepositoryInv
<1> QED
  BY <1>1, InvAlways, PTL

\* A push changes one file, in what its request asks: nobody's earlier push is
\* undone (SaveConfig, retryAutoMerge).
THEOREM NobodyIsOverwritten == Spec => PushesKeepOthers
<1>1. RepositoryInv /\ [Next]_vars => [KeepsOthers]_vars
  BY NextInv
<1>2. Spec => [][KeepsOthers]_vars
  BY <1>1, InvAlways, PTL DEF Spec
<1> QED
  BY <1>2 DEF PushesKeepOthers, KeepsOthers
=============================================================================
