------------------------- MODULE ProductRepository -------------------------
(***************************************************************************)
(* The git repository of a product, as requests to the API server change   *)
(* it.  A request clones the repository, loads the resources, changes one, *)
(* compares the whole tree with its rules, renders the kustomization and   *)
(* pushes; when somebody else has pushed since, it merges and pushes what  *)
(* git has merged.  Each request works in a clone and a node tree of its   *)
(* own; the options and the last tree that requests share are left out.    *)
(***************************************************************************)
EXTENDS Naturals, FiniteSets

CONSTANTS Requests,   \* requests to the API server
          Names,      \* resources
          Homes,      \* directories
          Locations,  \* the directories the file of each resource may lie in
          Uses,       \* what two resources may not both take
          Contents,   \* the contents users write for each resource
          MaxFaults   \* bound of the model: pushes whose answer is lost

\* refs: the resources of Names it refers to; use: what it takes, such as a cluster
\* or the path of a pipeline.
Free == "free"
Content == [refs : SUBSET Names, use : Uses \cup {Free}]
NoFile == [refs |-> {}, use |-> "no file"]
Paths == {p \in Names \X Homes : p[2] \in Locations[p[1]]}

ASSUME RepositoryAssumption ==
  /\ Locations \in [Names -> SUBSET Homes]
  /\ Contents \in [Names -> SUBSET Content]
  /\ Free \notin Uses /\ "no file" \notin Uses
  /\ MaxFaults \in Nat

\* The commit's files, and the kustomization: the files it lists, and whether it
\* lists them in the order in which Load finds them.
Tree == [files : [Paths -> Content \cup {NoFile}], listed : SUBSET Paths, sorted : BOOLEAN]

Operations ==
  [method : {"save"}, name : Names, home : Homes, content : Content, skip : BOOLEAN]
    \cup [method : {"delete"}, name : Names, home : Homes, content : {NoFile}, skip : BOOLEAN]
Requestable ==
  {o \in Operations : /\ o.home \in Locations[o.name]
                      /\ o.method = "save" => o.content \in Contents[o.name]}

VARIABLES
  main,     \* the remote branch
  tip,      \* how many pushes it has seen
  req,      \* the requests, with their clones
  faults,   \* faults left
  took,     \* history: requests whose change has been on the remote branch
  last,     \* history: how the last push was made
  merged    \* history: whether git has merged anything

history == <<took, last, merged>>
vars == <<main, tip, req, faults, history>>

Phases == {"written", "saving", "merging", "pushing"}
Errors == {"none", "call", "push", "commit"}

\* head: the local branch; base: the push it is based on; work: the working tree;
\* target: the file the request changes, from was to content; count: RretryCount.
Request == [phase : Phases, head : Tree, base : Nat, work : Tree, skip : BOOLEAN, target : Paths,
            was : Content \cup {NoFile}, content : Content \cup {NoFile}, count : 1..3]
\* A request that has not started, or is over; error: the call that failed ("call" is
\* any but commit and push, and a broken rule).
Outcome == [phase : {"new", "ok", "failed"}, error : Errors, count : 0..3]
NoRequest == [phase |-> "new", error |-> "none", count |-> 0]

TypeOK ==
  /\ main \in Tree
  /\ tip \in Nat
  /\ \A r \in Requests : req[r] \in Request \cup Outcome
  /\ faults \in 0..MaxFaults
  /\ took \in SUBSET Requests
  /\ last \in {"none", "checked", "skipped", "merged"}
  /\ merged \in BOOLEAN

-----------------------------------------------------------------------------
(* The rules for a product's resources. *)

FilesOf(files) == {p \in Paths : files[p] # NoFile}
PathsOf(files, n) == {p \in FilesOf(files) : p[1] = n}

\* Compare: what a resource refers to exists, and no two take the same.
References(files) ==
  \A p \in FilesOf(files) : \A n \in files[p].refs : PathsOf(files, n) # {}
Exclusive(files) ==
  \A p, q \in FilesOf(files) : p # q /\ files[p].use # Free => files[p].use # files[q].use
Compare(files) == References(files) /\ Exclusive(files)

OnePath(files) == \A p, q \in FilesOf(files) : p[1] = q[1] => p = q

\* Mutant of Kustomization: it names the resources, not their files.
KustomizationByName(loaded, files, created) ==
  [files |-> files, listed |-> {p[1] : p \in FilesOf(files)}, sorted |-> ~created]

\* Mutant of Kustomization: rendered from the files as they were loaded.
KustomizationOfLoaded(loaded, files, created) ==
  [files |-> files, listed |-> FilesOf(loaded), sorted |-> TRUE]

\* updateKustomization: a created file comes last, the others as Load finds them.
Kustomization(loaded, files, created) ==
  [files |-> files, listed |-> FilesOf(files), sorted |-> ~created]

\* Any valid tree, as a request that creates nothing leaves it.
Init ==
  /\ \E files \in [Paths -> (UNION {Contents[n] : n \in Names}) \cup {NoFile}] :
       /\ \A p \in FilesOf(files) : files[p] \in Contents[p[1]]
       /\ Compare(files)
       /\ OnePath(files)
       /\ main = [files |-> files, listed |-> FilesOf(files), sorted |-> TRUE]
  /\ tip = 0
  /\ req = [r \in Requests |-> NoRequest]
  /\ faults = MaxFaults
  /\ took = {}
  /\ last = "none"
  /\ merged = FALSE

-----------------------------------------------------------------------------
(* Clone, load, change, compare and write: all in the request's own clone.  *)

\* Mutant of FileFor: a resource is looked for in its directory only.
FileForHome(files, o) == {<<o.name, o.home>>}

\* GetNode finds the file of a resource in whatever directory it lies; a new file
\* goes to the directory the resource asks for.
FileFor(files, o) ==
  IF PathsOf(files, o.name) # {} THEN PathsOf(files, o.name)
  ELSE IF o.method = "save" THEN {<<o.name, o.home>>} ELSE {}

\* UpdateNode refuses to move a resource to another directory.
MayWrite(files, o, p) == o.method = "save" => o.home = p[2]

\* Mutant of Validated: the tree is compared before the change.
ValidatedAsLoaded(loaded, files) == Compare(loaded)

Validated(loaded, files) == Compare(files)

Succeed(r) == req' = [req EXCEPT ![r] = [phase |-> "ok", error |-> "none", count |-> 0]]
Fail(r, error) ==
  req' = [req EXCEPT ![r] = [phase |-> "failed", error |-> error, count |-> req[r].count]]

Clone(r, o, p) ==
  LET files == [main.files EXCEPT ![p] = o.content] IN
  /\ req[r] = NoRequest
  /\ p \in FileFor(main.files, o)
  /\ MayWrite(main.files, o, p)
  /\ o.skip \/ Validated(main.files, files)
  /\ req' = [req EXCEPT ![r] =
       [phase |-> "written", head |-> main, base |-> tip, skip |-> o.skip,
        work |-> Kustomization(main.files, files, main.files[p] = NoFile),
        target |-> p, was |-> main.files[p], content |-> o.content, count |-> 1]]
  /\ took' = IF o.content = main.files[p] THEN took \cup {r} ELSE took
  /\ UNCHANGED <<main, tip, faults, last, merged>>

\* The resource is not there, may not move, or breaks a rule.
CloneRefused(r, o) ==
  /\ req[r] = NoRequest
  /\ \/ FileFor(main.files, o) = {}
     \/ \E p \in FileFor(main.files, o) :
          \/ ~MayWrite(main.files, o, p)
          \/ ~o.skip /\ ~Validated(main.files, [main.files EXCEPT ![p] = o.content])
  /\ Fail(r, "call")
  /\ UNCHANGED <<main, tip, faults, history>>

-----------------------------------------------------------------------------
(* The remote branch.                                                       *)

\* Mutant of Accepted: a forced push.
AcceptedForced(r) == TRUE

\* The remote takes a push that builds on its last commit.
Accepted(r) == req[r].base = tip

\* What r asks for can be seen in the files.
Asked(r, files) ==
  LET was == req[r].was  content == req[r].content  now == files[req[r].target] IN
  IF NoFile \in {was, content} THEN now = content
  ELSE /\ now # NoFile
       /\ content.use # was.use => now.use = content.use
       /\ content.refs \ was.refs \subseteq now.refs
       /\ (was.refs \ content.refs) \cap now.refs = {}

Publish(r, tree, how) ==
  /\ main' = tree
  /\ tip' = tip + 1
  /\ took' = took \cup {x \in Requests : req[x].phase \in Phases /\ Asked(x, tree.files)}
  /\ last' = how
  /\ merged' = (merged \/ how = "merged")

\* PushToGit: fetch, and compare the local with the remote branch.  Two
\* kustomizations with the same lines, not both sorted, may yet differ.
Fetch(r) ==
  LET head == req[r].head IN
  /\ req[r].phase = "written"
  /\ \/ /\ req[r].base = tip \/ (head.files = main.files /\ head.listed = main.listed)
        /\ req' = [req EXCEPT ![r].phase = "saving"]
     \/ /\ req[r].base # tip
        /\ head # main \/ ~head.sorted
        /\ req' = [req EXCEPT ![r].phase = "merging"]
  /\ UNCHANGED <<main, tip, faults, history>>

SaveConfigClean(r) ==
  /\ req[r].phase = "saving"
  /\ req[r].work = req[r].head
  /\ Succeed(r)
  /\ UNCHANGED <<main, tip, faults, history>>

\* Commit and push; a refused push is not tried again.
SaveConfig(r) ==
  /\ req[r].phase = "saving"
  /\ req[r].work # req[r].head
  /\ IF Accepted(r)
     THEN /\ Publish(r, req[r].work, IF req[r].skip THEN "skipped" ELSE "checked")
          /\ \/ Succeed(r) /\ UNCHANGED faults
             \/ /\ faults > 0
                /\ faults' = faults - 1
                /\ Fail(r, "call")
     ELSE /\ Fail(r, "push")
          /\ UNCHANGED <<main, tip, faults, history>>

-----------------------------------------------------------------------------
(* git merge: base is the commit cloned, ours the request's, theirs the     *)
(* remote's; ours differs from base in one file, and in the kustomization.  *)

SetMerge(base, ours, theirs) == (ours \cap theirs) \cup (ours \ base) \cup (theirs \ base)

\* Lines merge where one side has changed them, or both alike; fields are lines
\* of their own.
LineMerges(base, ours, theirs) == base \in {ours, theirs} \/ ours = theirs
LineMerge(base, ours, theirs) == IF ours = base THEN theirs ELSE ours

FileMerges(base, ours, theirs) ==
  \/ LineMerges(base, ours, theirs)
  \/ NoFile \notin {base, ours, theirs} /\ LineMerges(base.use, ours.use, theirs.use)
FileMerge(base, ours, theirs) ==
  IF LineMerges(base, ours, theirs) THEN LineMerge(base, ours, theirs)
  ELSE [refs |-> SetMerge(base.refs, ours.refs, theirs.refs),
        use |-> LineMerge(base.use, ours.use, theirs.use)]

\* The file that takes our change of p: p, or, when they have removed p, a file
\* they have added, which git may take for p renamed.
Successors(base, ours, theirs, p) ==
  {p} \cup {q \in FilesOf(theirs) : /\ base[q] = NoFile
                                    /\ theirs[p] = NoFile
                                    /\ base[p] # NoFile
                                    /\ ours[p] \notin {NoFile, base[p]}}

\* A base that is not sorted may leave a line that one side has removed.
StaleLines(base, ours, theirs) ==
  {p \in base.listed : ~base.sorted /\ ((p \in ours.listed) # (p \in theirs.listed))}

\* The merge of our change of p, taken by q, with the stale lines s.
MergedTree(base, ours, theirs, p, q, s) ==
  [files |-> [theirs.files EXCEPT ![q] = FileMerge(base.files[p], ours.files[p], theirs.files[q])],
   listed |-> SetMerge(base.listed, ours.listed, theirs.listed) \cup s,
   sorted |-> ours.listed = base.listed /\ ours.sorted = base.sorted /\ theirs.sorted]

\* Both sides have changed the file, or the kustomization.
MayConflict(base, ours, theirs, p) ==
  \/ base.files[p] \notin {ours.files[p], theirs.files[p]}
  \/ /\ ours.listed # base.listed \/ ours.sorted # base.sorted
     /\ theirs.listed # base.listed \/ ~base.sorted \/ ~theirs.sorted

\* retryAutoMerge: fetch, commit, merge.
Merge(r) ==
  LET base == req[r].head
      ours == req[r].work
      p == req[r].target IN
  /\ req[r].phase = "merging"
  /\ ours # base
  /\ \E q \in Successors(base.files, ours.files, main.files, p),
        s \in SUBSET StaleLines(base, ours, main) :
       LET tree == MergedTree(base, ours, main, p, q, s) IN
       /\ FileMerges(base.files[p], ours.files[p], main.files[q])
       /\ req' = [req EXCEPT ![r] = [@ EXCEPT !.phase = "pushing", !.head = tree, !.work = tree,
                                              !.base = tip, !.target = q]]
  /\ UNCHANGED <<main, tip, faults, history>>

MergeConflicts(r) ==
  /\ req[r].phase = "merging"
  /\ req[r].work # req[r].head
  /\ MayConflict(req[r].head, req[r].work, main, req[r].target)
  /\ Fail(r, "call")
  /\ UNCHANGED <<main, tip, faults, history>>

\* git commit fails on a clean working tree: after a merge whose push was refused,
\* and when the request changes nothing.
NothingToCommit(r) ==
  /\ req[r].phase = "merging"
  /\ req[r].work = req[r].head
  /\ Fail(r, "commit")
  /\ UNCHANGED <<main, tip, faults, history>>

\* Mutant of Retry: the error is dropped.
RetryDropped(r, base) == Succeed(r)

\* A failed push: PushToGit again, unless that was the third time.
Retry(r, base) ==
  IF req[r].count = 3 THEN Fail(r, "push")
  ELSE req' = [req EXCEPT ![r].phase = "written", ![r].count = @ + 1, ![r].base = base]

Push(r) ==
  /\ req[r].phase = "pushing"
  /\ IF Accepted(r)
     THEN /\ Publish(r, req[r].head, "merged")
          /\ \/ Succeed(r) /\ UNCHANGED faults
             \/ /\ faults > 0
                /\ faults' = faults - 1
                /\ Retry(r, tip')
     ELSE /\ Retry(r, req[r].base)
          /\ UNCHANGED <<main, tip, faults, history>>

\* A call fails before it has an effect, or the server is stopped.
Abort(r) ==
  /\ req[r].phase \in Phases
  /\ Fail(r, "call")
  /\ UNCHANGED <<main, tip, faults, history>>

Next ==
  \E r \in Requests :
    \/ \E o \in Requestable : CloneRefused(r, o) \/ (\E p \in Paths : Clone(r, o, p))
    \/ Fetch(r) \/ SaveConfigClean(r) \/ SaveConfig(r)
    \/ Merge(r) \/ MergeConflicts(r) \/ NothingToCommit(r) \/ Push(r)
    \/ Abort(r)

Spec == Init /\ [][Next]_vars

-----------------------------------------------------------------------------
(* Properties. *)

\* A push of a request that has compared, of a tree nobody else has pushed to,
\* leaves a tree in which every reference resolves and nothing is taken twice,
\* whatever the merges and unchecked requests before it have left (Save, Delete).
ReferencesResolve == last = "checked" => Compare(main.files)

\* Unless git has merged it, the kustomization lists the files there are: it can be
\* built, and deploys every resource (updateKustomization).
ListIsComplete == last # "merged" => main.listed = FilesOf(main.files)

\* As long as git merges nothing, a resource has one file, though requests may name
\* different directories for it (GetNode, UpdateNode).
OneFilePerResource == ~merged => OnePath(main.files)

\* A request that reports success has had its change on the remote branch, in the
\* file of the resource or in the one git has taken for it (PushToGit, SaveConfig).
SuccessIsSaved == \A r \in Requests : req[r].phase = "ok" => r \in took

\* From now to then, a file changes as r asks and in nothing else.
ChangesAsAsked(r, now, then) ==
  LET was == req[r].was  content == req[r].content IN
  IF NoFile \in {was, content, now, then} THEN then = content
  ELSE /\ then.use # now.use => then.use = content.use /\ content.use # was.use
       /\ then.refs \ now.refs \subseteq content.refs \ was.refs
       /\ now.refs \ then.refs \subseteq was.refs \ content.refs

\* A push changes the one file its request is about, in what the request asks: what
\* others have pushed since the clone is kept (SaveConfig, retryAutoMerge).
PushesKeepOthers ==
  [][\A p \in Paths : main'.files[p] # main.files[p] =>
       \E r \in Requests : /\ req[r].phase \in {"saving", "pushing"}
                           /\ req'[r] # req[r]
                           /\ req[r].target = p
                           /\ ChangesAsAsked(r, main.files[p], main'.files[p])]_vars

\* "If automatic merge fails will retry three times" (PushToGit): a request that has
\* seen the push of its merge refused gives up after the third, unless the retry
\* meets a conflict or a call fails.
RetriesThreeTimes ==
  \A r \in Requests : req[r].phase = "failed" /\ req[r].count > 1 =>
    req[r].count = 3 \/ req[r].error = "call"
=============================================================================
