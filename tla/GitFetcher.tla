----------------------------- MODULE GitFetcher -----------------------------
(***************************************************************************)
(* remoteregistry/git.Fetcher: manifests read from a local clone of a git  *)
(* branch.  Each operation holds g.mu from its first line to its last, so  *)
(* it is one step; upstream moves between steps.  The clone is made on     *)
(* first use, of the branch of WithBranch, and pulled before every later   *)
(* read; the pulls name no branch, so they follow the remote's HEAD.  A    *)
(* pull that fails leaves the old working tree, which is then served.      *)
(* WithCloneDir keeps the clone in a directory that outlives Close and the *)
(* process.                                                                *)
(*                                                                         *)
(* A file is the number of the commit that last changed it, 0 when it is   *)
(* not there; an id has a file for each extension that CandidatePaths      *)
(* tries.                                                                  *)
(***************************************************************************)
EXTENDS Integers, FiniteSets

CONSTANTS
    Cids,       \* the ids fetched: template ids, with or without environment
    EnvCids,    \* those with an environment: id.env
    Dirs,       \* directories a clone can be in
    NoDir,      \* the empty path, the nil repository, the directory not there
    Initial,    \* what the branch holds to begin with
    Written,    \* bound: the files <<id, extension>> that commits change
    MaxCommits, \* bound: commits made upstream
    MaxCloses   \* bound: Close calls and process restarts

cloneDir == CHOOSE d \in Dirs : TRUE
ASSUME DirsAssumption == NoDir \notin Dirs /\ Dirs # {}
ASSUME CidsAssumption == EnvCids \subseteq Cids

\* .yaml, .yml and .json, in the order in which they are tried.
Exts == 1..3
ASSUME WrittenAssumption == Written \subseteq Cids \X Exts

\* commit 0 stands for no commit: an absent file, an empty clone.
Files == [Exts -> Nat]
Tree  == [commit : Nat, files : [Cids -> Files]]
Empty == [commit |-> 0, files |-> [i \in Cids |-> [x \in Exts |-> 0]]]

ASSUME TreesAssumption == NoDir \notin Tree
ASSUME InitialAssumption ==
    /\ Initial \in Tree
    /\ \A i \in Cids, x \in Exts : Initial.files[i][x] <= Initial.commit

VARIABLES
    Remote,     \* whether the URL is one to pull from (not file://)
    Persistent, \* whether WithCloneDir was given
    OnHead,     \* whether the branch of WithBranch is the remote's HEAD
    upstream,   \* that branch: its head commit and that commit's files
    head,       \* the remote's HEAD, or the last commit it has in common with
                \* the branch
    disk,       \* the working tree in each directory, or NoDir
    repo,       \* g.repo: the directory of the opened repository
    localDir,   \* g.localDir
    reply,      \* what the last Fetch or Stat returned; pulled, which no caller
                \* sees, is whether its pull or clone succeeded
    closes

options == <<Remote, Persistent, OnHead>>
origin  == <<upstream, head>>
gitVars == <<options, origin, disk, repo, localDir, reply, closes>>

\* ext is the extension found, rev the commit of that file.
Reply  == [kind : {"none", "ok", "notfound", "failed"}, ext : Exts, rev : Nat, pulled : BOOLEAN]
Failed == [kind |-> "failed", ext |-> 1, rev |-> 0, pulled |-> FALSE]

GitInit ==
    /\ Remote \in BOOLEAN /\ Persistent \in BOOLEAN
    /\ OnHead \in BOOLEAN /\ (OnHead \/ Remote)
    /\ upstream = Initial /\ head = Initial
    /\ disk = [d \in Dirs |-> NoDir]
    /\ repo = NoDir
    /\ localDir = NoDir
    /\ reply = [Failed EXCEPT !.kind = "none"]
    /\ closes = 0

-----------------------------------------------------------------------------
\* The working tree that PullContext leaves; net is whether the remote is
\* reached.  It fast-forwards to the remote's HEAD.  When the tree is ahead of
\* that, it is up to date or cannot be fast-forwarded, and a failure is logged:
\* the tree is kept.
Pull(tree, net) == IF Remote /\ net /\ tree.commit <= head.commit THEN head ELSE tree

\* A repository is open: pull.
Refresh(net) ==
    /\ repo # NoDir
    /\ disk' = [disk EXCEPT ![repo] = Pull(@, net)]
    /\ UNCHANGED <<repo, localDir>>

OpenWithoutPull(net) ==
    /\ repo = NoDir /\ Persistent /\ disk[cloneDir] # NoDir
    /\ localDir' = cloneDir
    /\ repo' = cloneDir
    /\ UNCHANGED disk

\* The directory of WithCloneDir already holds a clone: open it and pull.
Open(net) ==
    /\ repo = NoDir /\ Persistent /\ disk[cloneDir] # NoDir
    /\ localDir' = cloneDir
    /\ repo' = cloneDir
    /\ disk' = [disk EXCEPT ![cloneDir] = Pull(@, net)]

\* Opening fails, as it may for what an interrupted clone left behind.
OpenFails ==
    /\ repo = NoDir /\ Persistent /\ disk[cloneDir] # NoDir
    /\ disk[cloneDir].commit = 0
    /\ localDir' = cloneDir
    /\ UNCHANGED <<disk, repo>>

\* Where to clone to: the directory given, or a new temporary one.
CloneTargets ==
    {d \in Dirs : disk[d] = NoDir /\ (Persistent => d = cloneDir)}

\* The clone is of the configured branch; the pull that follows finds nothing
\* newer.
Clone(net) ==
    /\ repo = NoDir /\ net
    /\ \E d \in CloneTargets :
          /\ disk' = [disk EXCEPT ![d] = upstream]
          /\ localDir' = d
          /\ repo' = d

CloneFailsLeavingDir ==
    /\ repo = NoDir
    /\ \E d \in CloneTargets : disk' = [disk EXCEPT ![d] = Empty]
    /\ localDir' = NoDir
    /\ UNCHANGED repo

\* A failed clone takes its directory with it.  When the directory given
\* cannot even be made, localDir keeps its name.
CloneFails ==
    /\ repo = NoDir
    /\ CloneTargets # {}
    /\ localDir' \in {NoDir} \cup (IF Persistent THEN {cloneDir} ELSE {})
    /\ UNCHANGED <<disk, repo>>

EnsureClone(net) == Refresh(net) \/ Open(net) \/ Clone(net)
EnsureFails == OpenFails \/ CloneFails

\* The extension of the file found, none or one: the first that is there.
resolvePath(files) == {x \in Exts : files[x] # 0 /\ \A y \in 1..(x - 1) : files[y] = 0}

\* The tree in g.localDir once ensureClone has run; without a localDir that
\* would be the working directory of the process.
LocalTree == IF localDir' = NoDir THEN Empty ELSE disk'[localDir']
LocalFiles(id) == LocalTree.files[id]

NotFound(net) == [Failed EXCEPT !.kind = "notfound", !.pulled = net]
Found(x, rev, net) == [kind |-> "ok", ext |-> x, rev |-> rev, pulled |-> net]

\* Of an id with an environment or without.
Fetch(id) ==
    /\ \/ EnsureFails /\ reply' = Failed
       \/ \E net \in BOOLEAN :
          /\ EnsureClone(net)
          /\ \/ resolvePath(LocalFiles(id)) = {} /\ reply' = NotFound(net)
             \/ \E x \in resolvePath(LocalFiles(id)) :
                   reply' = Found(x, LocalFiles(id)[x], net)
    /\ UNCHANGED <<options, origin, closes>>

\* Stat takes template ids only: ValidateID rejects id.env for its dot.  It
\* looks for the file anew, and Log finds the commit that last changed that
\* one, in a shallow clone maybe the oldest commit it has, or no commit.
Stat(id) ==
    /\ \/ id \in EnvCids /\ reply' = Failed /\ UNCHANGED <<disk, repo, localDir>>
       \/ id \notin EnvCids /\ EnsureFails /\ reply' = Failed
       \/ \E net \in BOOLEAN :
          /\ id \notin EnvCids
          /\ EnsureClone(net)
          /\ \/ resolvePath(LocalFiles(id)) = {} /\ reply' = NotFound(net)
             \/ \E x \in resolvePath(LocalFiles(id)) :
                \E rev \in {0} \cup LocalFiles(id)[x] .. LocalTree.commit : reply' = Found(x, rev, net)
    /\ UNCHANGED <<options, origin, closes>>

CloseKeepingRepo ==
    /\ closes < MaxCloses
    /\ closes' = closes + 1
    /\ localDir # NoDir
    /\ localDir' = NoDir
    /\ disk' = IF Persistent THEN disk ELSE [disk EXCEPT ![localDir] = NoDir]
    /\ UNCHANGED <<options, origin, repo, reply>>

\* A Close without a clone returns at once.
Close ==
    /\ closes < MaxCloses
    /\ closes' = closes + 1
    /\ localDir # NoDir
    /\ repo' = NoDir
    /\ localDir' = NoDir
    /\ disk' = IF Persistent THEN disk ELSE [disk EXCEPT ![localDir] = NoDir]
    /\ UNCHANGED <<options, origin, reply>>

\* The process ends and another one starts with the same options.  With a
\* clone under way, WithCloneDir finds what it left.  (A temporary directory
\* is left to the system.)
Restart ==
    /\ closes < MaxCloses
    /\ closes' = closes + 1
    /\ repo' = NoDir
    /\ localDir' = NoDir
    /\ IF Persistent
       THEN disk' \in {disk} \cup (IF repo = NoDir /\ disk[cloneDir] = NoDir
                                   THEN {[disk EXCEPT ![cloneDir] = Empty]}
                                   ELSE {})
       ELSE disk' = [d \in Dirs |-> NoDir]
    /\ reply' = [Failed EXCEPT !.kind = "none"]
    /\ UNCHANGED <<options, origin>>

\* Someone commits a change of one manifest to the branch, or its removal.
Commit(id, x, removed) ==
    /\ upstream.commit < MaxCommits /\ <<id, x>> \in Written
    /\ removed => upstream.files[id][x] # 0
    /\ LET n == upstream.commit + 1
       IN  upstream' = [commit |-> n,
                        files |-> [upstream.files EXCEPT ![id][x] = IF removed THEN 0 ELSE n]]
    /\ head' = IF OnHead THEN upstream' ELSE head
    /\ UNCHANGED <<options, disk, repo, localDir, reply, closes>>

\* The branch of WithBranch is merged into the one that is the remote's HEAD.
Merge ==
    /\ ~OnHead
    /\ head # upstream
    /\ head' = upstream
    /\ UNCHANGED <<options, upstream, disk, repo, localDir, reply, closes>>

-----------------------------------------------------------------------------
GitTypeOK ==
    /\ Remote \in BOOLEAN /\ Persistent \in BOOLEAN /\ OnHead \in BOOLEAN
    /\ upstream \in Tree /\ head \in Tree
    /\ disk \in [Dirs -> Tree \cup {NoDir}]
    /\ repo \in Dirs \cup {NoDir}
    /\ localDir \in Dirs \cup {NoDir}
    /\ reply \in Reply
    /\ closes \in Nat

(***************************************************************************)
(* The paths that Fetch and Stat read are those of the repository they     *)
(* pull: whenever a repository is open, localDir is its directory and that *)
(* directory is there, through every Close, failed open and failed clone.  *)
(***************************************************************************)
OpenRepoIsLocal == repo # NoDir => localDir = repo /\ disk[repo] # NoDir

(***************************************************************************)
(* No operation leaves a temporary clone that nothing points to and that   *)
(* no Close could remove.                                                  *)
(***************************************************************************)
NoOrphanClone ==
    ~Persistent => \A d \in Dirs : disk[d] # NoDir => localDir = d
=============================================================================
