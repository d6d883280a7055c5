------------------------ MODULE RemoteRegistryProofs ------------------------
(***************************************************************************)
(* Theorems about RemoteRegistry over GitFetcher, for any callers, ids,    *)
(* directories and bounds, with or without WithCloneDir, and for remote    *)
(* and local URLs.                                                         *)
(***************************************************************************)
EXTENDS RemoteRegistry, TLAPS

LEMMA Constants ==
    /\ AnyId \in Ids
    /\ Ids \subseteq Cids
    /\ cloneDir \in Dirs /\ NoDir \notin Dirs /\ NoDir \notin Tree
  BY IdsAssumption, DirsAssumption, TreesAssumption DEF AnyId, cloneDir

LEMMA TreeFiles ==
    ASSUME NEW T \in Tree
    PROVE  /\ T.commit \in Nat
           /\ \A id \in Cids : T.files[id] \in Files
           /\ \A id \in Cids, x \in Exts : T.files[id][x] \in Nat
  BY DEF Tree, Files

\* The candidates of an id: one or two, among the fetched ids.
LEMMA CandidateIDs ==
    ASSUME NEW i \in Ids
    PROVE  /\ Len(fetchCandidateIDs(i)) \in 1..2
           /\ \A k \in 1..Len(fetchCandidateIDs(i)) :
                 fetchCandidateIDs(i)[k] \in {EnvOf[i], i} \cap Cids
  <1>1. EnvOf[i] \in Cids /\ i \in Cids
    BY EnvOfAssumption, CidsAssumption, Constants
  <1>2. CASE EnvOf[i] = i
    BY <1>1, <1>2 DEF fetchCandidateIDs
  <1>3. CASE EnvOf[i] # i
    <2>1. fetchCandidateIDs(i) = <<EnvOf[i], i>>
      BY <1>3 DEF fetchCandidateIDs
    <2>2. /\ Len(<<EnvOf[i], i>>) = 2
          /\ <<EnvOf[i], i>>[1] = EnvOf[i] /\ <<EnvOf[i], i>>[2] = i
      OBVIOUS
    <2>3. QED
      BY <1>1, <2>1, <2>2
  <1>4. QED
    BY <1>2, <1>3

LEMMA Values ==
    /\ Empty \in Tree /\ Failed \in Reply /\ 1 \in Exts
    /\ \A id \in Cids, x \in Exts : Empty.files[id][x] = 0
    /\ \A k \in {"none", "notfound", "failed", "cancelled"} :
          Fail(k) \in Answer /\ Fail(k).kind = k
    /\ \A b \in Loaded, v \in Nat, x \in Exts :
          /\ Ok(b, v, x) \in Answer /\ Ok(b, v, x).kind = "ok"
          /\ Ok(b, v, x).tpl.rev = b.rev /\ Ok(b, v, x).tpl.ext = b.ext
          /\ Ok(b, v, x).tpl.version = v /\ Ok(b, v, x).tpl.vext = x
  <1>1. 1 \in Exts
    BY DEF Exts
  <1>2. Empty \in Tree /\ \A id \in Cids, x \in Exts : Empty.files[id][x] = 0
    BY DEF Empty, Tree, Files
  <1>3. Failed \in Reply
    BY <1>1 DEF Failed, Reply
  <1>4. NoTemplate \in Template
    BY <1>1 DEF NoTemplate, Template
  <1>5. ASSUME NEW b \in Loaded, NEW v \in Nat, NEW x \in Exts
        PROVE  /\ Ok(b, v, x) \in Answer /\ Ok(b, v, x).kind = "ok"
               /\ Ok(b, v, x).tpl.rev = b.rev /\ Ok(b, v, x).tpl.ext = b.ext
               /\ Ok(b, v, x).tpl.version = v /\ Ok(b, v, x).tpl.vext = x
    BY DEF Ok, Answer, Template, Loaded
  <1>6. QED
    BY <1>1, <1>2, <1>3, <1>4, <1>5 DEF Fail, Answer

(***************************************************************************)
(* The fetcher                                                             *)
(***************************************************************************)

\* Without a repository there is no temporary clone; with WithCloneDir no
\* clone but the one in its directory.
ClonesInv ==
    /\ ~Persistent /\ repo = NoDir => \A d \in Dirs : disk[d] = NoDir
    /\ Persistent => \A d \in Dirs \ {cloneDir} : disk[d] = NoDir
    /\ Persistent => repo \in {NoDir, cloneDir} /\ localDir \in {NoDir, cloneDir}

GitInv == GitTypeOK /\ OpenRepoIsLocal /\ NoOrphanClone /\ ClonesInv

LEMMA NoReply ==
    /\ [Failed EXCEPT !.kind = "none"] \in Reply
    /\ \A net \in BOOLEAN : NotFound(net) \in Reply /\ NotFound(net).kind = "notfound"
                           /\ NotFound(net).rev = 0 /\ NotFound(net).ext = 1
    /\ \A x \in Exts, r \in Nat, net \in BOOLEAN :
          /\ Found(x, r, net) \in Reply /\ Found(x, r, net).kind = "ok"
          /\ Found(x, r, net).ext = x /\ Found(x, r, net).rev = r
          /\ Found(x, r, net).pulled = net
    /\ Failed.kind = "failed" /\ Failed.rev = 0 /\ Failed.ext = 1
  BY Values DEF Failed, Reply, NotFound, Found

LEMMA GitInitInv == GitInit => GitInv
  BY NoReply, Values, Constants, InitialAssumption
  DEF GitInit, GitInv, GitTypeOK, OpenRepoIsLocal, NoOrphanClone, ClonesInv

(***************************************************************************)
(* What ensureClone leaves if it succeeds: the repository of directory d,  *)
(* whose tree is upstream's or that of what was there, pulled.             *)
(***************************************************************************)
Ensured(net, d) ==
    /\ repo' = d /\ localDir' = d /\ d # NoDir
    /\ disk' = [disk EXCEPT ![d] = disk'[d]]
    /\ \/ disk'[d] = upstream
       \/ disk[d] # NoDir /\ disk'[d] = Pull(disk[d], net)
    /\ \A e \in Dirs \ {d} : disk[e] = NoDir
    /\ Persistent => d = cloneDir

LEMMA Ensures ==
    ASSUME GitInv, NEW net \in BOOLEAN, EnsureClone(net)
    PROVE  \E d \in Dirs : Ensured(net, d)
  <1> USE Constants DEF GitInv, GitTypeOK
  <1>1. CASE Refresh(net)
    <2>1. /\ repo \in Dirs /\ localDir = repo /\ disk[repo] # NoDir
          /\ repo' = repo /\ localDir' = localDir
          /\ disk' = [disk EXCEPT ![repo] = Pull(disk[repo], net)]
      BY <1>1 DEF Refresh, OpenRepoIsLocal
    <2>2. disk'[repo] = Pull(disk[repo], net)
      BY <2>1
    <2>3. \A e \in Dirs \ {repo} : disk[e] = NoDir
      BY <2>1 DEF NoOrphanClone, ClonesInv
    <2>4. Ensured(net, repo)
      BY <2>1, <2>2, <2>3 DEF Ensured, ClonesInv
    <2>5. QED
      BY <2>1, <2>4
  <1>2. CASE Open(net)
    <2>1. /\ Persistent /\ disk[cloneDir] # NoDir /\ repo' = cloneDir /\ localDir' = cloneDir
          /\ disk' = [disk EXCEPT ![cloneDir] = Pull(disk[cloneDir], net)]
      BY <1>2 DEF Open
    <2>2. disk'[cloneDir] = Pull(disk[cloneDir], net)
      BY <2>1
    <2>3. Ensured(net, cloneDir)
      BY <2>1, <2>2 DEF Ensured, ClonesInv
    <2>4. QED
      BY <2>3
  <1>3. CASE Clone(net)
    <2>1. PICK d \in CloneTargets : /\ disk' = [disk EXCEPT ![d] = upstream]
                                    /\ localDir' = d /\ repo' = d
      BY <1>3 DEF Clone
    <2>2. d \in Dirs /\ disk[d] = NoDir /\ (Persistent => d = cloneDir) /\ repo = NoDir
      BY <1>3, <2>1 DEF CloneTargets, Clone
    <2>3. disk'[d] = upstream
      BY <2>1, <2>2
    <2>4. Ensured(net, d)
      BY <2>1, <2>2, <2>3 DEF Ensured, ClonesInv
    <2>5. QED
      BY <2>2, <2>4
  <1>4. QED
    BY <1>1, <1>2, <1>3 DEF EnsureClone

LEMMA EnsuredInv ==
    ASSUME GitInv, NEW net \in BOOLEAN, NEW d \in Dirs, Ensured(net, d),
           reply' \in Reply, UNCHANGED <<options, origin, closes>>
    PROVE  GitInv'
  <1> USE Constants DEF GitInv, GitTypeOK, options, origin
  <1>1. disk'[d] \in Tree /\ \A e \in Dirs \ {d} : disk'[e] = NoDir
    BY DEF Ensured, Pull
  <1>2. GitTypeOK'
    BY <1>1 DEF Ensured
  <1>3. OpenRepoIsLocal' /\ NoOrphanClone' /\ ClonesInv'
    BY <1>1 DEF Ensured, OpenRepoIsLocal, NoOrphanClone, ClonesInv
  <1>4. QED
    BY <1>2, <1>3

LEMMA EnsureFailsInv ==
    ASSUME GitInv, EnsureFails, reply' \in Reply, UNCHANGED <<options, origin, closes>>
    PROVE  GitInv' /\ UNCHANGED <<disk, repo>>
  BY Constants
  DEF EnsureFails, OpenFails, CloneFails, GitInv, GitTypeOK, OpenRepoIsLocal, NoOrphanClone,
      ClonesInv, options, origin

\* The files of ensureClone's tree.
LEMMA FilesAre ==
    ASSUME GitInv, NEW net \in BOOLEAN, NEW d \in Dirs, Ensured(net, d), NEW id \in Cids
    PROVE  /\ LocalTree = disk'[d] /\ LocalTree \in Tree
           /\ LocalFiles(id) = disk'[d].files[id]
           /\ \A x \in Exts : LocalFiles(id)[x] \in Nat
  <1>1. LocalTree = disk'[d] /\ LocalTree \in Tree
    BY Constants DEF GitInv, GitTypeOK, Ensured, LocalTree, Pull
  <1>2. QED
    BY <1>1, TreeFiles DEF LocalFiles

(***************************************************************************)
(* Fetch and Stat: they fail, or they find a file of an ensured clone.     *)
(***************************************************************************)
\* Reply r is of the file that tree T has for id, or of its absence.
Read(T, id, r, net) ==
    /\ r.pulled = net
    /\ \/ r.kind = "notfound"
       \/ r.kind = "ok" /\ r.ext \in resolvePath(T.files[id]) /\ r.rev = T.files[id][r.ext]

LEMMA Fetches ==
    ASSUME GitInv, NEW id \in Cids, Fetch(id)
    PROVE  /\ GitInv' /\ UNCHANGED <<options, origin, closes>>
           /\ \/ reply'.kind = "failed" /\ UNCHANGED <<disk, repo>>
              \/ \E net \in BOOLEAN, d \in Dirs :
                    Ensured(net, d) /\ Read(disk'[d], id, reply', net)
  <1>1. UNCHANGED <<options, origin, closes>>
    BY DEF Fetch
  <1>2. CASE EnsureFails /\ reply' = Failed
    BY <1>1, <1>2, EnsureFailsInv, Values, NoReply
  <1>3. ASSUME NEW net \in BOOLEAN, EnsureClone(net),
               \/ resolvePath(LocalFiles(id)) = {} /\ reply' = NotFound(net)
               \/ \E x \in resolvePath(LocalFiles(id)) :
                     reply' = Found(x, LocalFiles(id)[x], net)
        PROVE  /\ GitInv'
               /\ \E d \in Dirs : Ensured(net, d) /\ Read(disk'[d], id, reply', net)
    <2>1. PICK d \in Dirs : Ensured(net, d)
      BY <1>3, Ensures
    <2>2. /\ LocalFiles(id) = disk'[d].files[id]
          /\ \A x \in Exts : LocalFiles(id)[x] \in Nat
      BY <2>1, FilesAre
    <2>3. reply' \in Reply /\ Read(disk'[d], id, reply', net)
      <3>1. CASE reply' = NotFound(net)
        BY <3>1, NoReply DEF Read, NotFound, Failed
      <3>2. CASE \E x \in resolvePath(LocalFiles(id)) : reply' = Found(x, LocalFiles(id)[x], net)
        <4>1. PICK x \in resolvePath(LocalFiles(id)) : reply' = Found(x, LocalFiles(id)[x], net)
          BY <3>2
        <4>2. x \in Exts
          BY DEF resolvePath
        <4>3. QED
          BY <2>2, <4>1, <4>2, NoReply DEF Read
      <3>3. QED
        BY <1>3, <3>1, <3>2
    <2>4. GitInv'
      BY <1>1, <2>1, <2>3, EnsuredInv
    <2>5. QED
      BY <2>1, <2>3, <2>4
  <1>4. QED
    BY <1>1, <1>2, <1>3 DEF Fetch

\* Reply r has no commit, or one that is not before that of the file found.
Dated(T, id, r) ==
    \/ r.rev = 0
    \/ r.ext \in resolvePath(T.files[id]) /\ T.files[id][r.ext] <= r.rev

LEMMA Stats ==
    ASSUME GitInv, NEW id \in Cids, Stat(id)
    PROVE  /\ GitInv' /\ UNCHANGED <<options, origin, closes>>
           /\ \/ reply'.rev = 0 /\ UNCHANGED <<disk, repo>>
              \/ \E net \in BOOLEAN, d \in Dirs :
                    Ensured(net, d) /\ Dated(disk'[d], id, reply')
  <1>1. UNCHANGED <<options, origin, closes>>
    BY DEF Stat
  <1>2. CASE reply' = Failed /\ UNCHANGED <<disk, repo, localDir>>
    <2>1. GitInv'
      BY <1>1, <1>2, Values
      DEF GitInv, GitTypeOK, OpenRepoIsLocal, NoOrphanClone, ClonesInv, options, origin
    <2>2. QED
      BY <1>1, <1>2, <2>1, NoReply
  <1>3. CASE EnsureFails /\ reply' = Failed
    BY <1>1, <1>3, EnsureFailsInv, Values, NoReply
  <1>4. ASSUME NEW net \in BOOLEAN, EnsureClone(net),
               \/ resolvePath(LocalFiles(id)) = {} /\ reply' = NotFound(net)
               \/ \E x \in resolvePath(LocalFiles(id)) :
                  \E rev \in {0} \cup LocalFiles(id)[x] .. LocalTree.commit :
                     reply' = Found(x, rev, net)
        PROVE  /\ GitInv'
               /\ \E d \in Dirs : Ensured(net, d) /\ Dated(disk'[d], id, reply')
    <2>1. PICK d \in Dirs : Ensured(net, d)
      BY <1>4, Ensures
    <2>2. /\ LocalFiles(id) = disk'[d].files[id]
          /\ \A x \in Exts : LocalFiles(id)[x] \in Nat
          /\ LocalTree.commit \in Nat
      BY <2>1, FilesAre, TreeFiles
    <2>3. reply' \in Reply /\ Dated(disk'[d], id, reply')
      <3>1. CASE reply' = NotFound(net)
        BY <3>1, NoReply DEF Dated
      <3>2. CASE \E x \in resolvePath(LocalFiles(id)) :
                 \E rev \in {0} \cup LocalFiles(id)[x] .. LocalTree.commit :
                    reply' = Found(x, rev, net)
        <4>1. PICK x \in resolvePath(LocalFiles(id)) :
                   \E rev \in {0} \cup LocalFiles(id)[x] .. LocalTree.commit :
                      reply' = Found(x, rev, net)
          BY <3>2
        <4>2. PICK rev \in {0} \cup LocalFiles(id)[x] .. LocalTree.commit :
                      reply' = Found(x, rev, net)
          BY <4>1
        <4>3. x \in Exts
          BY DEF resolvePath
        <4>4. rev \in Nat /\ (rev = 0 \/ LocalFiles(id)[x] <= rev)
          BY <2>2, <4>3
        <4>5. /\ reply' \in Reply /\ reply'.ext = x /\ reply'.rev = rev
          BY <4>2, <4>3, <4>4, NoReply
        <4>6. QED
          BY <2>2, <4>4, <4>5 DEF Dated
      <3>3. QED
        BY <1>4, <3>1, <3>2
    <2>4. GitInv'
      BY <1>1, <2>1, <2>3, EnsuredInv
    <2>5. QED
      BY <2>1, <2>3, <2>4
  <1>5. QED
    BY <1>1, <1>2, <1>3, <1>4 DEF Stat

LEMMA CloseInv == GitInv /\ Close => GitInv'
  BY Constants
  DEF Close, GitInv, GitTypeOK, OpenRepoIsLocal, NoOrphanClone, ClonesInv, options, origin

LEMMA RestartInv == GitInv /\ Restart => GitInv'
  <1> SUFFICES ASSUME GitInv, Restart
               PROVE  GitInv'
    OBVIOUS
  <1> USE Constants, NoReply, Values DEF GitInv, GitTypeOK, options, origin
  <1>1. /\ repo' = NoDir /\ localDir' = NoDir /\ closes' = closes + 1
        /\ reply' = [Failed EXCEPT !.kind = "none"] /\ UNCHANGED <<options, origin>>
    BY DEF Restart
  <1>2. CASE Persistent
    <2>1. disk' = disk \/ disk' = [disk EXCEPT ![cloneDir] = Empty]
      BY <1>2 DEF Restart
    <2>2. GitTypeOK'
      BY <1>1, <2>1
    <2>3. OpenRepoIsLocal' /\ NoOrphanClone' /\ ClonesInv'
      BY <1>1, <1>2, <2>1 DEF OpenRepoIsLocal, NoOrphanClone, ClonesInv
    <2>4. QED
      BY <2>2, <2>3
  <1>3. CASE ~Persistent
    <2>1. disk' = [d \in Dirs |-> NoDir]
      BY <1>3 DEF Restart
    <2>2. GitTypeOK'
      BY <1>1, <2>1
    <2>3. OpenRepoIsLocal' /\ NoOrphanClone' /\ ClonesInv'
      BY <1>1, <1>3, <2>1 DEF OpenRepoIsLocal, NoOrphanClone, ClonesInv
    <2>4. QED
      BY <2>2, <2>3
  <1>4. QED
    BY <1>2, <1>3

LEMMA CommitInv ==
    ASSUME GitInv, NEW id \in Cids, NEW x \in Exts, NEW removed \in BOOLEAN,
           Commit(id, x, removed)
    PROVE  /\ GitInv' /\ UNCHANGED <<options, disk, repo, localDir, reply, closes>>
           /\ upstream'.commit = upstream.commit + 1
           /\ head' = IF OnHead THEN upstream' ELSE head
           /\ \A j \in Cids, y \in Exts :
                 upstream'.files[j][y] \in {0, upstream.files[j][y], upstream'.commit}
  <1> DEFINE n == upstream.commit + 1
             r == IF removed THEN 0 ELSE n
             file == [upstream.files[id] EXCEPT ![x] = r]
  <1>1. /\ upstream' = [commit |-> n, files |-> [upstream.files EXCEPT ![id] = file]]
        /\ head' = IF OnHead THEN upstream' ELSE head
        /\ UNCHANGED <<options, disk, repo, localDir, reply, closes>>
    BY DEF Commit
  <1>2. upstream \in Tree /\ head \in Tree
    BY DEF GitInv, GitTypeOK
  <1>3. n \in Nat /\ upstream.files \in [Cids -> Files]
    BY <1>2 DEF Tree
  <1>4. r \in {0, n} /\ r \in Nat
    BY <1>3
  <1> HIDE DEF r, n
  <1>5. file \in Files /\ \A y \in Exts : file[y] \in {upstream.files[id][y], r}
    BY <1>3, <1>4 DEF Files
  <1> HIDE DEF file
  <1>6. /\ upstream' \in Tree /\ upstream'.commit = n
        /\ upstream'.files[id] = file
        /\ \A j \in Cids \ {id} : upstream'.files[j] = upstream.files[j]
    BY <1>1, <1>3, <1>5 DEF Tree
  <1>7. GitInv'
    BY <1>1, <1>2, <1>6 DEF GitInv, GitTypeOK, OpenRepoIsLocal, NoOrphanClone, ClonesInv, options
  <1>8. \A j \in Cids, y \in Exts :
           upstream'.files[j][y] \in {0, upstream.files[j][y], upstream'.commit}
    BY <1>4, <1>5, <1>6
  <1>9. QED
    BY <1>1, <1>6, <1>7, <1>8 DEF n

(***************************************************************************)
(* The inductive invariant                                                 *)
(***************************************************************************)

\* No file of tree T is of a later commit than T.
Dates(T) == \A id \in Cids, x \in Exts : T.files[id][x] <= T.commit

\* T is S some commits later: each file is as it was, newer, or gone.
Evolves(S, T) ==
    /\ S.commit <= T.commit
    /\ \A id \in Cids, x \in Exts :
          T.files[id][x] \in {0, S.files[id][x]} \/ T.files[id][x] > S.commit

\* Tree S is a past tree of the branch, and one before the remote's HEAD
\* unless it is ahead of it.
Past(S) ==
    /\ Dates(S) /\ Evolves(S, upstream)
    /\ S.commit <= head.commit => Evolves(S, head)

TreesInv ==
    /\ Past(upstream) /\ Past(head)
    /\ OnHead => head = upstream
    /\ \A d \in Dirs : disk[d] # NoDir => Past(disk[d])

\* What caller c has loaded is in a tree that whatever Stat may read follows.
LoadedFrom(S, c) ==
    /\ Past(S) /\ \A d \in Dirs : disk[d] # NoDir => Evolves(S, disk[d])
    /\ loaded[c].ext \in resolvePath(S.files[Cid(c)])
    /\ loaded[c].rev = S.files[Cid(c)][loaded[c].ext]

LoadedInv(c) == \E S \in Tree : LoadedFrom(S, c)

\* A revision of a file that the branch has had since the call began.
Fresh(c, rev, ext) ==
    \/ rev > since[c].commit
    \/ \E id \in {EnvOf[req[c]], req[c]} : rev = since[c].files[id][ext]

AnswerInv(c) ==
    answer[c].kind = "ok" =>
        LET tpl == answer[c].tpl
        IN  /\ Remote /\ OnHead /\ refreshed[c] => Fresh(c, tpl.rev, tpl.ext)
            /\ tpl.version # 0 /\ tpl.vext <= tpl.ext => tpl.rev <= tpl.version

CallerInv(c) ==
    /\ at[c] \in 1..Len(fetchCandidateIDs(req[c]))
    /\ Evolves(since[c], upstream)
    /\ pc[c] = "stat" =>
          /\ LoadedInv(c)
          /\ Remote /\ OnHead /\ refreshed[c] => Fresh(c, loaded[c].rev, loaded[c].ext)
    /\ AnswerInv(c)

IInv == TypeOK /\ GitInv /\ TreesInv /\ \A c \in Callers : CallerInv(c)

LEMMA EvolvesSelf ==
    ASSUME NEW T \in Tree
    PROVE  Evolves(T, T) /\ Evolves(Empty, T) /\ Dates(Empty)
  BY TreeFiles, Values DEF Evolves, Dates, Empty

LEMMA EvolvesOn ==
    ASSUME NEW S \in Tree, NEW T \in Tree, NEW U \in Tree, Evolves(S, T), Evolves(T, U)
    PROVE  Evolves(S, U)
  <1>1. S.commit \in Nat /\ T.commit \in Nat /\ U.commit \in Nat
    BY TreeFiles
  <1>2. ASSUME NEW id \in Cids, NEW x \in Exts
        PROVE  U.files[id][x] \in {0, S.files[id][x]} \/ U.files[id][x] > S.commit
    <2>1. U.files[id][x] \in Nat /\ T.files[id][x] \in Nat
      BY TreeFiles
    <2>2. U.files[id][x] \in {0, T.files[id][x]} \/ U.files[id][x] > T.commit
      BY DEF Evolves
    <2>3. T.files[id][x] \in {0, S.files[id][x]} \/ T.files[id][x] > S.commit
      BY DEF Evolves
    <2>4. S.commit <= T.commit
      BY DEF Evolves
    <2>5. QED
      BY <1>1, <2>1, <2>2, <2>3, <2>4
  <1>3. S.commit <= U.commit
    BY <1>1 DEF Evolves
  <1>4. QED
    BY <1>2, <1>3 DEF Evolves

\* What a later tree has under the extension that was served, or under one
\* tried before it, is no older than what was served.
LEMMA LaterFiles ==
    ASSUME NEW S \in Tree, NEW T \in Tree, Dates(S), Evolves(S, T), NEW id \in Cids,
           NEW x \in resolvePath(S.files[id]), NEW y \in Exts, y <= x, T.files[id][y] # 0
    PROVE  S.files[id][x] <= T.files[id][y]
  <1>1. /\ x \in Exts /\ S.files[id][x] \in Nat /\ T.files[id][y] \in Nat /\ S.commit \in Nat
        /\ x \in Nat /\ y \in Nat /\ y >= 1
    BY TreeFiles DEF resolvePath, Exts
  <1>2. S.files[id][x] <= S.commit
    BY <1>1 DEF Dates
  <1>3. T.files[id][y] = S.files[id][y] \/ T.files[id][y] > S.commit
    BY DEF Evolves
  <1>4. CASE y = x
    BY <1>1, <1>2, <1>3, <1>4
  <1>5. CASE y < x
    <2>1. S.files[id][y] = 0
      BY <1>1, <1>5 DEF resolvePath
    <2>2. QED
      BY <1>1, <1>2, <1>3, <2>1
  <1>6. QED
    BY <1>1, <1>4, <1>5

LEMMA ReadOk ==
    ASSUME NEW T \in Tree, NEW id \in Cids, NEW x \in resolvePath(T.files[id])
    PROVE  x \in Exts /\ T.files[id][x] # 0
  BY DEF resolvePath

\* What the fetcher's operations do to the trees: a clone is as it was, or
\* as upstream is, or has been fast-forwarded to the remote's HEAD.
TreesMove ==
    /\ UNCHANGED origin
    /\ \A d \in Dirs : disk'[d] # NoDir =>
          \/ disk'[d] = upstream
          \/ disk[d] # NoDir /\ disk'[d] = disk[d]
          \/ disk[d] # NoDir /\ disk[d].commit <= head.commit /\ disk'[d] = head

LEMMA CidType ==
    ASSUME TypeOK, NEW c \in Callers, CallerInv(c)
    PROVE  Cid(c) \in Cids /\ Cid(c) \in {EnvOf[req[c]], req[c]}
  <1>1. req[c] \in Ids /\ at[c] \in 1..Len(fetchCandidateIDs(req[c]))
    BY DEF TypeOK, CallerInv
  <1>2. QED
    BY <1>1, CandidateIDs DEF Cid

LEMMA EnsuredMoves ==
    ASSUME GitInv, NEW net \in BOOLEAN, NEW d \in Dirs, Ensured(net, d), UNCHANGED origin
    PROVE  TreesMove
  BY DEF Ensured, TreesMove, GitInv, GitTypeOK, Pull

LEMMA CloseMoves == GitInv /\ Close => TreesMove
  BY DEF Close, TreesMove, GitInv, GitTypeOK

\* A restart may leave an empty clone in the place of none.
LEMMA RestartTrees == GitInv /\ TreesInv /\ Restart => TreesInv'
  <1> SUFFICES ASSUME GitInv, TreesInv, Restart
               PROVE  TreesInv'
    OBVIOUS
  <1>1. UNCHANGED origin /\ UNCHANGED options /\ upstream \in Tree /\ head \in Tree
    BY DEF Restart, GitInv, GitTypeOK
  <1>2. Past(Empty)
    BY <1>1, EvolvesSelf DEF Past
  <1>3. \A d \in Dirs : disk'[d] # NoDir => disk'[d] = Empty \/ (disk[d] # NoDir /\ disk'[d] = disk[d])
    BY Constants DEF Restart, GitInv, GitTypeOK
  <1>4. \A d \in Dirs : disk'[d] # NoDir => Past(disk'[d])
    BY <1>2, <1>3 DEF TreesInv
  <1>5. QED
    BY <1>1, <1>4 DEF TreesInv, Past, origin, options

LEMMA MovedTrees ==
    ASSUME TreesInv, TreesMove, UNCHANGED options
    PROVE  TreesInv'
  <1>1. \A d \in Dirs : disk'[d] # NoDir => Past(disk'[d])
    BY DEF TreesInv, TreesMove
  <1>2. QED
    BY <1>1 DEF TreesInv, TreesMove, Past, origin, options

\* What a caller has loaded stays behind what the fetcher's operations leave.
LEMMA MovedLoaded ==
    ASSUME GitTypeOK, TreesMove, NEW S \in Tree, Past(S),
           \A d \in Dirs : disk[d] # NoDir => Evolves(S, disk[d])
    PROVE  \A d \in Dirs : disk'[d] # NoDir => Evolves(S, disk'[d])
  <1> SUFFICES ASSUME NEW d \in Dirs, disk'[d] # NoDir
               PROVE  Evolves(S, disk'[d])
    OBVIOUS
  <1>1. CASE disk'[d] = upstream
    BY <1>1 DEF Past
  <1>2. CASE disk[d] # NoDir /\ disk'[d] = disk[d]
    BY <1>2
  <1>3. CASE disk[d] # NoDir /\ disk[d].commit <= head.commit /\ disk'[d] = head
    <2>1. /\ S.commit <= disk[d].commit
          /\ S.commit \in Nat /\ disk[d].commit \in Nat /\ head.commit \in Nat
      BY <1>3, TreeFiles DEF GitTypeOK, Evolves
    <2>2. QED
      BY <1>3, <2>1 DEF Past
  <1>4. QED
    BY <1>1, <1>2, <1>3 DEF TreesMove

\* A caller that does no more than return an error is as it was.
LEMMA Kept ==
    ASSUME TypeOK, GitTypeOK, UNCHANGED <<options, origin>>,
           NEW c \in Callers, CallerInv(c),
           pc'[c] = "stat" => pc[c] = "stat" /\ loaded'[c] = loaded[c] /\ TreesMove,
           answer'[c].kind = "ok" => answer'[c] = answer[c],
           req'[c] = req[c], at'[c] = at[c], since'[c] = since[c],
           refreshed'[c] => refreshed[c]
    PROVE  CallerInv(c)'
  <1>1. Cid(c)' = Cid(c) /\ Cid(c) \in Cids
    BY CidType DEF Cid, fetchCandidateIDs
  <1>2. (at[c] \in 1..Len(fetchCandidateIDs(req[c])))'
    BY DEF CallerInv, fetchCandidateIDs
  <1>3. Evolves(since[c], upstream)'
    BY DEF CallerInv, origin, Evolves
  <1>4. pc'[c] = "stat" => LoadedInv(c)'
    <2> SUFFICES ASSUME pc'[c] = "stat"
                 PROVE  LoadedInv(c)'
      OBVIOUS
    <2>1. PICK S \in Tree : LoadedFrom(S, c)
      BY DEF CallerInv, LoadedInv
    <2>2. \A d \in Dirs : disk'[d] # NoDir => Evolves(S, disk'[d])
      BY <2>1, MovedLoaded DEF LoadedFrom
    <2>3. Past(S)'
      BY <2>1 DEF LoadedFrom, Past, origin
    <2>4. LoadedFrom(S, c)'
      BY <1>1, <2>1, <2>2, <2>3 DEF LoadedFrom
    <2>5. QED
      BY <2>4 DEF LoadedInv
  <1>5. (pc[c] = "stat" /\ Remote /\ OnHead /\ refreshed[c] =>
            Fresh(c, loaded[c].rev, loaded[c].ext))'
    BY DEF CallerInv, Fresh, options
  <1>6. AnswerInv(c)'
    BY DEF CallerInv, AnswerInv, Fresh, options
  <1>7. QED
    BY <1>2, <1>3, <1>4, <1>5, <1>6 DEF CallerInv

(***************************************************************************)
(* What a step of a caller comes to: it returns an error, goes on to the   *)
(* next candidate, keeps what Fetch found, or returns it with what Stat    *)
(* found.                                                                  *)
(***************************************************************************)
Refused(c) ==
    /\ pc' = [pc EXCEPT ![c] = "idle"] /\ UNCHANGED <<at, loaded>>
    /\ \E k \in {"notfound", "failed", "cancelled"} : answer' = [answer EXCEPT ![c] = Fail(k)]

WentOn(c) ==
    /\ at[c] < Len(fetchCandidateIDs(req[c])) /\ at' = [at EXCEPT ![c] = @ + 1]
    /\ pc[c] = "fetch" /\ UNCHANGED <<pc, answer, loaded>>

\* Body b is what tree T has for id.
Body(T, id, b) == b.ext \in resolvePath(T.files[id]) /\ b.rev = T.files[id][b.ext]

Fetched(c) ==
    /\ pc' = [pc EXCEPT ![c] = "stat"] /\ UNCHANGED <<at, answer>>
    /\ \E net \in BOOLEAN, d \in Dirs, b \in Loaded :
          /\ Ensured(net, d) /\ Body(disk'[d], Cid(c), b)
          /\ loaded' = [loaded EXCEPT ![c] = b]
          /\ refreshed'[c] => net

\* Version v of extension x: none, or not before the file that was found.
Version(T, id, v, x) == x \in resolvePath(T.files[id]) /\ T.files[id][x] <= v

Answered(c) ==
    /\ pc[c] = "stat" /\ pc' = [pc EXCEPT ![c] = "idle"] /\ UNCHANGED <<at, loaded, refreshed>>
    /\ \E v \in Nat, x \in Exts :
          /\ answer' = [answer EXCEPT ![c] = Ok(loaded[c], v, x)]
          /\ \/ v = 0
             \/ \E net \in BOOLEAN, d \in Dirs : Ensured(net, d) /\ Version(disk'[d], Cid(c), v, x)

LEMMA FetchSteps ==
    ASSUME IInv, NEW c \in Callers, FetchCandidate(c)
    PROVE  /\ UNCHANGED <<req, ctxDone, calls, since>>
           /\ refreshed' \in [Callers -> BOOLEAN]
           /\ \A e \in Callers : refreshed'[e] => refreshed[e]
           /\ GitInv' /\ TreesMove /\ UNCHANGED <<options, origin>>
           /\ Refused(c) \/ WentOn(c) \/ Fetched(c)
  <1> USE DEF IInv
  <1>1. UNCHANGED <<req, ctxDone, calls, since>> /\ pc[c] = "fetch"
    BY DEF FetchCandidate
  <1>2. CASE ctxDone[c]
    <2>1. UNCHANGED <<gitVars, refreshed>> /\ Refused(c)
      BY <1>2 DEF FetchCandidate, Return, Refused
    <2>2. GitInv' /\ TreesMove
      BY <2>1
      DEF gitVars, options, origin, GitInv, GitTypeOK, OpenRepoIsLocal, NoOrphanClone, ClonesInv,
          TreesMove
    <2>3. QED
      BY <1>1, <2>1, <2>2 DEF TypeOK, gitVars
  <1>3. CASE ~ctxDone[c]
    <2>1. Cid(c) \in Cids /\ Fetch(Cid(c))
      BY <1>3, CidType DEF FetchCandidate
    <2>2. /\ GitInv' /\ UNCHANGED <<options, origin, closes>>
          /\ \/ reply'.kind = "failed" /\ UNCHANGED <<disk, repo>>
             \/ \E net \in BOOLEAN, d \in Dirs :
                   Ensured(net, d) /\ Read(disk'[d], Cid(c), reply', net)
      BY <2>1, Fetches
    <2>3. TreesMove
      <3>1. CASE reply'.kind = "failed" /\ UNCHANGED <<disk, repo>>
        BY <2>2, <3>1 DEF TreesMove
      <3>2. QED
        BY <2>2, <3>1, EnsuredMoves
    <2>4. refreshed' = [refreshed EXCEPT ![c] = refreshed[c] /\ reply'.pulled]
      BY <1>3 DEF FetchCandidate
    <2>5. reply' \in Reply
      BY <2>2 DEF GitInv, GitTypeOK
    <2>6. /\ refreshed' \in [Callers -> BOOLEAN] /\ (refreshed'[c] => reply'.pulled)
          /\ \A e \in Callers : refreshed'[e] => refreshed[e]
      BY <2>4, <2>5 DEF TypeOK, Reply
    <2>7. CASE reply'.kind = "notfound" /\ NextCandidate(c) /\ UNCHANGED loaded
      <3>1. Refused(c) \/ WentOn(c)
        BY <1>1, <2>7 DEF NextCandidate, Refused, WentOn, Return
      <3>2. QED
        BY <1>1, <2>2, <2>3, <2>6, <3>1
    <2>8. CASE Return(c, Fail("failed")) /\ UNCHANGED <<at, loaded>>
      <3>1. Refused(c)
        BY <2>8 DEF Refused, Return
      <3>2. QED
        BY <1>1, <2>2, <2>3, <2>6, <3>1
    <2>9. CASE /\ reply'.kind = "ok"
               /\ pc' = [pc EXCEPT ![c] = "stat"]
               /\ loaded' = [loaded EXCEPT ![c] = [rev |-> reply'.rev, ext |-> reply'.ext]]
               /\ UNCHANGED <<at, answer>>
      <3> DEFINE b == [rev |-> reply'.rev, ext |-> reply'.ext]
      <3>1. PICK net \in BOOLEAN, d \in Dirs :
                   Ensured(net, d) /\ Read(disk'[d], Cid(c), reply', net)
        BY <2>2, <2>9
      <3>2. b \in Loaded /\ Body(disk'[d], Cid(c), b)
        BY <2>5, <2>9, <3>1 DEF Body, Read, Reply, Loaded
      <3>3. refreshed'[c] => net
        BY <2>6, <3>1 DEF Read
      <3>4. Fetched(c)
        BY <2>9, <3>1, <3>2, <3>3 DEF Fetched
      <3>5. QED
        BY <1>1, <2>2, <2>3, <2>6, <3>4
    <2>10. QED
      BY <1>3, <2>7, <2>8, <2>9 DEF FetchCandidate
  <1>4. QED
    BY <1>2, <1>3

LEMMA StatSteps ==
    ASSUME IInv, NEW c \in Callers, StatCandidate(c)
    PROVE  /\ UNCHANGED <<req, ctxDone, calls, since>>
           /\ GitInv' /\ TreesMove /\ UNCHANGED <<options, origin>>
           /\ Answered(c)
  <1> USE DEF IInv
  <1>1. PICK own \in BOOLEAN :
           Return(c, Ok(loaded[c], IF own THEN 0 ELSE reply'.rev, reply'.ext))
    BY DEF StatCandidate
  <1> DEFINE v == IF own THEN 0 ELSE reply'.rev
  <1>2. /\ UNCHANGED <<req, ctxDone, calls, since, at, loaded, refreshed>> /\ pc[c] = "stat"
        /\ pc' = [pc EXCEPT ![c] = "idle"]
        /\ answer' = [answer EXCEPT ![c] = Ok(loaded[c], v, reply'.ext)]
    BY <1>1 DEF StatCandidate, Return
  <1>3. Cid(c) \in Cids /\ Stat(Cid(c))
    BY CidType DEF StatCandidate, StatId
  <1>4. /\ GitInv' /\ UNCHANGED <<options, origin, closes>>
        /\ \/ reply'.rev = 0 /\ UNCHANGED <<disk, repo>>
           \/ \E net \in BOOLEAN, d \in Dirs :
                 Ensured(net, d) /\ Dated(disk'[d], Cid(c), reply')
    BY <1>3, Stats
  <1>5. v \in Nat /\ reply'.ext \in Exts
    BY <1>4 DEF GitInv, GitTypeOK, Reply
  <1>6. CASE reply'.rev = 0 /\ UNCHANGED <<disk, repo>>
    <2>1. TreesMove
      BY <1>4, <1>6 DEF TreesMove
    <2>2. v = 0
      BY <1>6
    <2> HIDE DEF v
    <2>3. QED
      BY <1>2, <1>4, <1>5, <2>1, <2>2 DEF Answered
  <1>7. ASSUME NEW net \in BOOLEAN, NEW d \in Dirs,
               Ensured(net, d), Dated(disk'[d], Cid(c), reply')
        PROVE  TreesMove /\ Answered(c)
    <2>1. TreesMove
      BY <1>4, <1>7, EnsuredMoves
    <2>2. v = 0 \/ Version(disk'[d], Cid(c), v, reply'.ext)
      BY <1>7 DEF Dated, Version
    <2> HIDE DEF v
    <2>3. QED
      BY <1>2, <1>5, <1>7, <2>1, <2>2 DEF Answered
  <1>8. QED
    BY <1>2, <1>4, <1>6, <1>7

(***************************************************************************)
(* Each action keeps the invariant                                         *)
(***************************************************************************)
LEMMA CallInv ==
    ASSUME IInv, NEW c \in Callers, NEW i \in Ids, Call(c, i)
    PROVE  IInv'
  <1> USE DEF IInv, Call, gitVars, options, origin
  <1>1. TypeOK' /\ GitInv' /\ TreesInv'
    <2>1. upstream \in Tree /\ Fail("none") \in Answer
      BY Values DEF TypeOK, GitTypeOK
    <2>2. TypeOK'
      BY <2>1 DEF TypeOK, GitTypeOK
    <2>3. GitInv' /\ TreesInv'
      BY DEF GitInv, GitTypeOK, OpenRepoIsLocal, NoOrphanClone, ClonesInv, TreesInv, Past
    <2>4. QED
      BY <2>2, <2>3
  <1>2. TreesMove
    BY DEF TreesMove
  <1>3. ASSUME NEW e \in Callers, e # c
        PROVE  CallerInv(e)'
    BY <1>2, <1>3, Kept DEF TypeOK
  <1>4. CallerInv(c)'
    <2>1. /\ pc'[c] = "fetch" /\ req'[c] = i /\ at'[c] = 1
          /\ answer'[c] = Fail("none") /\ since'[c] = upstream
      BY DEF TypeOK
    <2>2. (at[c] \in 1..Len(fetchCandidateIDs(req[c])))'
      BY <2>1, CandidateIDs DEF fetchCandidateIDs
    <2>3. Evolves(since[c], upstream)'
      <3>1. Evolves(upstream, upstream)
        BY EvolvesSelf DEF TypeOK, GitTypeOK
      <3>2. QED
        BY <2>1, <3>1 DEF Evolves
    <2>4. AnswerInv(c)'
      BY <2>1 DEF AnswerInv, Fail
    <2>5. QED
      BY <2>1, <2>2, <2>3, <2>4 DEF CallerInv
  <1>5. QED
    BY <1>1, <1>3, <1>4

LEMMA CancelCtxInv ==
    ASSUME IInv, NEW c \in Callers, CancelCtx(c)
    PROVE  IInv'
  <1> USE DEF IInv, CancelCtx, gitVars, options, origin
  <1>1. TypeOK' /\ GitInv' /\ TreesInv'
    BY DEF TypeOK, GitTypeOK, GitInv, OpenRepoIsLocal, NoOrphanClone, ClonesInv, TreesInv, Past
  <1>2. TreesMove
    BY DEF TreesMove
  <1>3. ASSUME NEW e \in Callers
        PROVE  CallerInv(e)'
    BY <1>2, <1>3, Kept DEF TypeOK
  <1>4. QED
    BY <1>1, <1>3

LEMMA FetchCandidateInv ==
    ASSUME IInv, NEW c \in Callers, FetchCandidate(c)
    PROVE  IInv'
  <1> USE DEF IInv
  <1>1. /\ UNCHANGED <<req, ctxDone, calls, since>>
        /\ refreshed' \in [Callers -> BOOLEAN]
        /\ \A e \in Callers : refreshed'[e] => refreshed[e]
        /\ GitInv' /\ TreesMove /\ UNCHANGED <<options, origin>>
        /\ Refused(c) \/ WentOn(c) \/ Fetched(c)
    BY FetchSteps
  <1>2. GitTypeOK /\ GitTypeOK' /\ TreesInv'
    BY <1>1, MovedTrees DEF TypeOK, GitInv
  <1>3. CASE Refused(c)
    <2>1. PICK k \in {"notfound", "failed", "cancelled"} : answer' = [answer EXCEPT ![c] = Fail(k)]
      BY <1>3 DEF Refused
    <2>2. Fail(k) \in Answer /\ Fail(k).kind # "ok"
      BY Values
    <2>3. TypeOK'
      BY <1>1, <1>2, <1>3, <2>1, <2>2 DEF TypeOK, Refused
    <2>4. ASSUME NEW e \in Callers
          PROVE  CallerInv(e)'
      <3>1. /\ pc'[e] = "stat" => pc[e] = "stat" /\ loaded'[e] = loaded[e]
            /\ answer'[e].kind = "ok" => answer'[e] = answer[e]
            /\ at'[e] = at[e]
        BY <1>3, <2>1, <2>2 DEF TypeOK, Refused
      <3>2. QED
        BY <1>1, <1>2, <3>1, Kept
    <2>5. QED
      BY <1>1, <1>2, <2>3, <2>4
  <1>4. CASE WentOn(c)
    <2>1. req[c] \in Ids /\ at[c] \in 1..2
      BY DEF TypeOK
    <2>2. Len(fetchCandidateIDs(req[c])) \in 1..2
      BY <2>1, CandidateIDs
    <2>3. at[c] + 1 \in 1..Len(fetchCandidateIDs(req[c]))
      BY <1>4, <2>1, <2>2 DEF WentOn
    <2>4. TypeOK'
      <3>1. at[c] + 1 \in 1..2
        <4>1. \A m \in 1..2, n \in 1..2 : m < n => m + 1 \in 1..2
          OBVIOUS
        <4>2. QED
          BY <1>4, <2>1, <2>2, <4>1 DEF WentOn
      <3>2. at' \in [Callers -> 1..2]
        BY <1>4, <3>1 DEF TypeOK, WentOn
      <3>3. QED
        BY <1>1, <1>2, <1>4, <3>2 DEF TypeOK, WentOn
    <2>5. ASSUME NEW e \in Callers, e # c
          PROVE  CallerInv(e)'
      BY <1>1, <1>2, <1>4, <2>5, Kept DEF TypeOK, WentOn
    <2>6. CallerInv(c)'
      <3>1. (at[c] \in 1..Len(fetchCandidateIDs(req[c])))'
        BY <1>1, <1>4, <2>3 DEF TypeOK, WentOn, fetchCandidateIDs
      <3>2. Evolves(since[c], upstream)'
        BY <1>1 DEF CallerInv, origin
      <3>3. AnswerInv(c)'
        BY <1>1, <1>4 DEF CallerInv, AnswerInv, Fresh, options, WentOn
      <3>4. pc'[c] # "stat"
        BY <1>4 DEF WentOn
      <3>5. QED
        BY <3>1, <3>2, <3>3, <3>4 DEF CallerInv
    <2>7. QED
      BY <1>1, <1>2, <2>4, <2>5, <2>6
  <1>5. CASE Fetched(c)
    <2>1. PICK net \in BOOLEAN, d \in Dirs, b \in Loaded :
             /\ Ensured(net, d) /\ Body(disk'[d], Cid(c), b)
             /\ loaded' = [loaded EXCEPT ![c] = b]
             /\ refreshed'[c] => net
      BY <1>5 DEF Fetched
    <2>2. Cid(c) \in Cids /\ Cid(c) \in {EnvOf[req[c]], req[c]} /\ Cid(c)' = Cid(c)
      BY <1>1, <1>5, CidType DEF Cid, fetchCandidateIDs, Fetched
    <2>3. /\ disk'[d] \in Tree
          /\ \A e \in Dirs \ {d} : disk'[e] = NoDir
      BY <1>1, <1>2, <2>1, Constants DEF Ensured, GitTypeOK, GitInv, Pull
    <2>4. Past(disk'[d])
      <3>1. Past(disk[d])' /\ disk'[d] # NoDir
        BY <1>2, <2>3, Constants DEF TreesInv
      <3>2. QED
        BY <1>1, <3>1 DEF Past, origin
    <2>5. TypeOK'
      <3>1. loaded' \in [Callers -> Loaded]
        BY <2>1 DEF TypeOK
      <3>2. QED
        BY <1>1, <1>2, <1>5, <3>1 DEF TypeOK, Fetched
    <2>6. ASSUME NEW e \in Callers, e # c
          PROVE  CallerInv(e)'
      <3>1. /\ pc'[e] = pc[e] /\ loaded'[e] = loaded[e]
            /\ answer'[e] = answer[e] /\ at'[e] = at[e]
        BY <1>5, <2>1, <2>6 DEF TypeOK, Fetched
      <3>2. QED
        BY <1>1, <1>2, <3>1, Kept
    <2>7. CallerInv(c)'
      <3>1. loaded'[c] = b
        BY <2>1 DEF TypeOK
      <3>2. (at[c] \in 1..Len(fetchCandidateIDs(req[c])))'
        BY <1>1, <1>5 DEF CallerInv, Fetched, fetchCandidateIDs
      <3>3. Evolves(since[c], upstream)'
        BY <1>1 DEF CallerInv, origin
      <3>4. LoadedInv(c)'
        <4>1. PICK S \in Tree : S = disk'[d]
          BY <2>3
        <4>2. \A e \in Dirs : disk'[e] # NoDir => Evolves(S, disk'[e])
          BY <2>3, <4>1, EvolvesSelf
        <4>3. Past(S)'
          BY <1>1, <2>4, <4>1 DEF Past, origin
        <4>4. LoadedFrom(S, c)'
          BY <2>1, <2>2, <3>1, <4>1, <4>2, <4>3 DEF LoadedFrom, Body
        <4>5. QED
          BY <4>4 DEF LoadedInv
      <3>5. Remote /\ OnHead /\ refreshed'[c] => Fresh(c, b.rev, b.ext)
        <4>1. SUFFICES ASSUME Remote, OnHead, refreshed'[c]
                       PROVE  Fresh(c, b.rev, b.ext)
          OBVIOUS
        <4>2. disk'[d] = upstream
          <5>1. CASE disk[d] # NoDir /\ disk'[d] = Pull(disk[d], net)
            <6>1. disk[d].commit <= upstream.commit /\ head = upstream
              BY <4>1, <5>1 DEF TreesInv, Past, Evolves
            <6>2. QED
              BY <2>1, <4>1, <5>1, <6>1 DEF Pull
          <5>2. QED
            BY <2>1, <5>1 DEF Ensured
        <4>3. b.ext \in Exts /\ b.rev = upstream.files[Cid(c)][b.ext] /\ b.rev # 0
          BY <2>1, <2>2, <2>3, <4>2, ReadOk DEF Body
        <4>4. Evolves(since[c], upstream)
          BY DEF CallerInv
        <4>5. b.rev = since[c].files[Cid(c)][b.ext] \/ b.rev > since[c].commit
          BY <2>2, <4>3, <4>4 DEF Evolves
        <4>6. QED
          BY <2>2, <4>5 DEF Fresh
      <3>6. AnswerInv(c)'
        BY <1>1, <1>5 DEF CallerInv, AnswerInv, Fresh, options, Fetched
      <3>7. (Remote /\ OnHead /\ refreshed[c] => Fresh(c, loaded[c].rev, loaded[c].ext))'
        BY <1>1, <3>1, <3>5 DEF Fresh, options
      <3>8. QED
        BY <3>2, <3>3, <3>4, <3>6, <3>7 DEF CallerInv
    <2>8. QED
      BY <1>1, <1>2, <2>5, <2>6, <2>7
  <1>6. QED
    BY <1>1, <1>3, <1>4, <1>5

LEMMA StatCandidateInv ==
    ASSUME IInv, NEW c \in Callers, StatCandidate(c)
    PROVE  IInv'
  <1> USE DEF IInv
  <1>1. /\ UNCHANGED <<req, ctxDone, calls, since>>
        /\ GitInv' /\ TreesMove /\ UNCHANGED <<options, origin>>
        /\ Answered(c)
    BY StatSteps
  <1>2. GitTypeOK /\ GitTypeOK' /\ TreesInv'
    BY <1>1, MovedTrees DEF TypeOK, GitInv
  <1>3. PICK v \in Nat, x \in Exts :
           /\ answer' = [answer EXCEPT ![c] = Ok(loaded[c], v, x)]
           /\ \/ v = 0
              \/ \E net \in BOOLEAN, d \in Dirs : Ensured(net, d) /\ Version(disk'[d], Cid(c), v, x)
    BY <1>1 DEF Answered
  <1>4. loaded[c] \in Loaded
    BY DEF TypeOK
  <1>5. /\ Ok(loaded[c], v, x) \in Answer /\ answer'[c] = Ok(loaded[c], v, x)
        /\ answer'[c].tpl.rev = loaded[c].rev /\ answer'[c].tpl.ext = loaded[c].ext
        /\ answer'[c].tpl.version = v /\ answer'[c].tpl.vext = x
    BY <1>3, <1>4, Values DEF TypeOK
  <1>6. TypeOK'
    BY <1>1, <1>2, <1>3, <1>5 DEF TypeOK, Answered
  <1>7. ASSUME NEW e \in Callers, e # c
        PROVE  CallerInv(e)'
    <2>1. pc'[e] = pc[e] /\ answer'[e] = answer[e]
      BY <1>1, <1>3, <1>7 DEF TypeOK, Answered
    <2>2. QED
      BY <1>1, <1>2, <2>1, Kept DEF Answered
  <1>8. CallerInv(c)'
    <2>1. Remote /\ OnHead /\ refreshed[c] => Fresh(c, loaded[c].rev, loaded[c].ext)
      BY <1>1 DEF CallerInv, Answered
    <2>2. v # 0 /\ x <= loaded[c].ext => loaded[c].rev <= v
      <3>1. SUFFICES ASSUME NEW net \in BOOLEAN, NEW d \in Dirs, Ensured(net, d),
                            Version(disk'[d], Cid(c), v, x), x <= loaded[c].ext
                     PROVE  loaded[c].rev <= v
        BY <1>3
      <3>2. PICK S \in Tree : LoadedFrom(S, c)
        BY <1>1 DEF CallerInv, LoadedInv, Answered
      <3>3. disk'[d] \in Tree /\ Cid(c) \in Cids
        BY <1>2, <3>1, CidType, Constants DEF Ensured, GitTypeOK, Pull
      <3>4. Evolves(S, disk'[d])
        BY <1>1, <1>2, <3>2, <3>3, MovedLoaded, Constants DEF LoadedFrom
      <3>5. disk'[d].files[Cid(c)][x] # 0
        BY <3>1, <3>3, ReadOk DEF Version
      <3>6. S.files[Cid(c)][loaded[c].ext] <= disk'[d].files[Cid(c)][x]
        BY <3>1, <3>2, <3>3, <3>4, <3>5, LaterFiles DEF LoadedFrom, Past
      <3>7. /\ loaded[c].rev \in Nat /\ disk'[d].files[Cid(c)][x] \in Nat
            /\ loaded[c].rev = S.files[Cid(c)][loaded[c].ext]
            /\ disk'[d].files[Cid(c)][x] <= v
        BY <1>4, <3>1, <3>2, <3>3, TreeFiles DEF Loaded, LoadedFrom, Version
      <3>8. QED
        BY <3>6, <3>7
    <2>3. AnswerInv(c)'
      BY <1>1, <1>5, <2>1, <2>2 DEF AnswerInv, Fresh, options, Answered
    <2>4. (at[c] \in 1..Len(fetchCandidateIDs(req[c])))'
      BY <1>1 DEF CallerInv, Answered, fetchCandidateIDs
    <2>5. Evolves(since[c], upstream)'
      BY <1>1 DEF CallerInv, origin
    <2>6. pc'[c] # "stat"
      BY <1>1 DEF Answered, TypeOK
    <2>7. QED
      BY <2>3, <2>4, <2>5, <2>6 DEF CallerInv
  <1>9. QED
    BY <1>1, <1>2, <1>6, <1>7, <1>8

\* A restart ends every call; Close ends none.
LEMMA RestartAllInv == IInv /\ RestartAll => IInv'
  <1> SUFFICES ASSUME IInv, RestartAll
               PROVE  IInv'
    OBVIOUS
  <1> USE DEF IInv, RestartAll
  <1>1. GitInv' /\ TreesInv' /\ UNCHANGED <<options, origin>>
    BY RestartInv, RestartTrees DEF Restart
  <1>2. GitTypeOK /\ GitTypeOK'
    BY <1>1 DEF GitInv
  <1>3. Fail("none") \in Answer /\ Fail("none").kind # "ok"
    BY Values
  <1>4. TypeOK'
    BY <1>2, <1>3 DEF TypeOK
  <1>5. ASSUME NEW c \in Callers
        PROVE  CallerInv(c)'
    <2>1. pc'[c] # "stat" /\ answer'[c].kind # "ok"
      BY <1>3
    <2>2. QED
      BY <1>1, <1>2, <2>1, Kept DEF TypeOK
  <1>6. QED
    BY <1>1, <1>4, <1>5

LEMMA CloseAllInv == IInv /\ Close /\ UNCHANGED callVars => IInv'
  <1> SUFFICES ASSUME IInv, Close, UNCHANGED callVars
               PROVE  IInv'
    OBVIOUS
  <1> USE DEF IInv, callVars
  <1>1. GitInv' /\ TreesMove /\ UNCHANGED <<options, origin>>
    BY CloseInv, CloseMoves DEF Close
  <1>2. GitTypeOK /\ GitTypeOK' /\ TreesInv'
    BY <1>1, MovedTrees DEF TypeOK, GitInv
  <1>3. TypeOK'
    BY <1>2 DEF TypeOK
  <1>4. ASSUME NEW c \in Callers
        PROVE  CallerInv(c)'
    BY <1>1, <1>2, Kept DEF TypeOK
  <1>5. QED
    BY <1>1, <1>2, <1>3, <1>4

(***************************************************************************)
(* A commit moves the branch on, and its remote's HEAD with it or not at   *)
(* all; a merge moves that to the branch.  The trees and the callers stay. *)
(***************************************************************************)
Onwards ==
    /\ upstream' \in Tree /\ Dates(upstream') /\ Evolves(upstream, upstream')
    /\ \/ head' = upstream'
       \/ ~OnHead /\ head' = head /\ upstream.commit < upstream'.commit

LEMMA PastOnwards ==
    ASSUME GitTypeOK, TreesInv, Onwards, NEW S \in Tree, Past(S)
    PROVE  Past(S)'
  <1>1. Evolves(S, upstream')
    BY EvolvesOn DEF Past, Onwards, GitTypeOK
  <1>2. CASE head' = upstream'
    BY <1>1, <1>2 DEF Past
  <1>3. CASE head' = head
    BY <1>1, <1>3 DEF Past
  <1>4. QED
    BY <1>2, <1>3 DEF Onwards

LEMMA OnwardsInv ==
    ASSUME IInv, Onwards, GitInv', UNCHANGED <<options, disk>>, UNCHANGED callVars
    PROVE  IInv'
  <1> USE DEF IInv, callVars
  <1>1. GitTypeOK /\ GitTypeOK' /\ upstream \in Tree /\ head \in Tree
    BY DEF GitInv, GitTypeOK
  <1>2. TypeOK'
    BY <1>1 DEF TypeOK
  <1>3. TreesInv'
    <2>1. Past(upstream)'
      <3>1. Evolves(upstream', upstream')
        BY EvolvesSelf DEF Onwards
      <3>2. upstream'.commit <= head'.commit => Evolves(upstream', head')
        <4>1. CASE head' = upstream'
          BY <3>1, <4>1
        <4>2. CASE head' = head /\ upstream.commit < upstream'.commit
          <5>1. head.commit <= upstream.commit
            BY DEF TreesInv, Past, Evolves
          <5>2. /\ head.commit \in Nat /\ upstream.commit \in Nat
                /\ upstream'.commit \in Nat
            BY <1>1, TreeFiles DEF Onwards
          <5>3. ~(upstream'.commit <= head.commit)
            BY <4>2, <5>1, <5>2
          <5>4. QED
            BY <4>2, <5>3
        <4>3. QED
          BY <4>1, <4>2 DEF Onwards
      <3>3. QED
        BY <3>1, <3>2 DEF Past, Onwards
    <2>2. Past(head)'
      <3>1. CASE head' = upstream'
        BY <2>1, <3>1 DEF Past
      <3>2. CASE head' = head
        BY <1>1, <3>2, PastOnwards DEF TreesInv, Past
      <3>3. QED
        BY <3>1, <3>2 DEF Onwards
    <2>3. ASSUME NEW d \in Dirs, disk'[d] # NoDir
          PROVE  Past(disk[d])'
      <3>1. disk'[d] = disk[d] /\ disk[d] \in Tree /\ Past(disk[d])
        BY <1>1, <2>3 DEF GitTypeOK, TreesInv
      <3>2. QED
        BY <1>1, <3>1, PastOnwards DEF Past
    <2>4. OnHead' => head' = upstream'
      BY DEF Onwards, options
    <2>5. QED
      BY <2>1, <2>2, <2>3, <2>4 DEF TreesInv
  <1>4. ASSUME NEW c \in Callers
        PROVE  CallerInv(c)'
    <2>1. Cid(c)' = Cid(c)
      BY DEF Cid, fetchCandidateIDs
    <2>2. Evolves(since[c], upstream)'
      <3>1. since[c] \in Tree /\ Evolves(since[c], upstream)
        BY DEF TypeOK, CallerInv
      <3>2. Evolves(since[c], upstream')
        BY <1>1, <3>1, EvolvesOn DEF Onwards
      <3>3. QED
        BY <3>2 DEF Evolves
    <2>3. pc[c] = "stat" => LoadedInv(c)'
      <3>1. SUFFICES ASSUME pc[c] = "stat"
                     PROVE  LoadedInv(c)'
        OBVIOUS
      <3>2. PICK S \in Tree : LoadedFrom(S, c)
        BY <3>1 DEF CallerInv, LoadedInv
      <3>3. Past(S)'
        BY <1>1, <3>2, PastOnwards DEF LoadedFrom
      <3>4. LoadedFrom(S, c)'
        BY <2>1, <3>2, <3>3 DEF LoadedFrom
      <3>5. QED
        BY <3>4 DEF LoadedInv
    <2>4. (pc[c] = "stat" /\ Remote /\ OnHead /\ refreshed[c] =>
              Fresh(c, loaded[c].rev, loaded[c].ext))'
      BY DEF CallerInv, Fresh, options
    <2>5. AnswerInv(c)'
      BY DEF CallerInv, AnswerInv, Fresh, options
    <2>6. QED
      BY <2>2, <2>3, <2>4, <2>5 DEF CallerInv, fetchCandidateIDs
  <1>5. QED
    BY <1>2, <1>3, <1>4

LEMMA CommitAllInv ==
    ASSUME IInv, NEW id \in Cids, NEW x \in Exts, NEW removed \in BOOLEAN,
           Commit(id, x, removed), UNCHANGED callVars
    PROVE  IInv'
  <1> USE DEF IInv
  <1>1. /\ GitInv' /\ UNCHANGED <<options, disk, repo, localDir, reply, closes>>
        /\ upstream'.commit = upstream.commit + 1
        /\ head' = IF OnHead THEN upstream' ELSE head
        /\ \A j \in Cids, y \in Exts :
              upstream'.files[j][y] \in {0, upstream.files[j][y], upstream'.commit}
    BY CommitInv
  <1>2. upstream \in Tree /\ upstream' \in Tree
    BY <1>1 DEF GitInv, GitTypeOK
  <1>3. /\ upstream.commit \in Nat /\ upstream'.commit \in Nat
        /\ \A j \in Cids, y \in Exts : upstream.files[j][y] \in Nat
    BY <1>2, TreeFiles
  <1>4. Dates(upstream)
    BY DEF TreesInv, Past
  <1>5. Dates(upstream') /\ Evolves(upstream, upstream')
    <2> SUFFICES ASSUME NEW j \in Cids, NEW y \in Exts
                 PROVE  /\ upstream'.files[j][y] <= upstream'.commit
                        /\ \/ upstream'.files[j][y] \in {0, upstream.files[j][y]}
                           \/ upstream'.files[j][y] > upstream.commit
      BY <1>1, <1>3 DEF Dates, Evolves
    <2>1. upstream.files[j][y] <= upstream.commit /\ upstream.files[j][y] \in Nat
      BY <1>3, <1>4 DEF Dates
    <2>2. upstream'.files[j][y] \in {0, upstream.files[j][y], upstream'.commit}
      BY <1>1
    <2>3. QED
      BY <1>1, <1>3, <2>1, <2>2
  <1>6. Onwards
    BY <1>1, <1>2, <1>3, <1>5 DEF Onwards
  <1>7. QED
    BY <1>1, <1>6, OnwardsInv

LEMMA MergeAllInv == IInv /\ Merge /\ UNCHANGED callVars => IInv'
  <1> SUFFICES ASSUME IInv, Merge, UNCHANGED callVars
               PROVE  IInv'
    OBVIOUS
  <1> USE DEF IInv
  <1>1. /\ UNCHANGED <<options, upstream, disk, repo, localDir, reply, closes>>
        /\ head' = upstream
    BY DEF Merge
  <1>2. GitInv' /\ upstream \in Tree
    BY <1>1 DEF GitInv, GitTypeOK, OpenRepoIsLocal, NoOrphanClone, ClonesInv, options
  <1>3. Onwards
    BY <1>1, <1>2, EvolvesSelf DEF Onwards, TreesInv, Past
  <1>4. QED
    BY <1>1, <1>2, <1>3, OnwardsInv

LEMMA InitIInv == Init => IInv
  <1> SUFFICES ASSUME Init
               PROVE  IInv
    OBVIOUS
  <1> USE DEF Init
  <1>1. GitInv
    BY GitInitInv
  <1>2. /\ upstream = Initial /\ head = Initial /\ \A d \in Dirs : disk[d] = NoDir
        /\ Initial \in Tree /\ Dates(Initial) /\ Evolves(Initial, Initial)
    BY InitialAssumption, EvolvesSelf DEF GitInit, Dates
  <1>3. TypeOK
    <2>1. Fail("none") \in Answer /\ [rev |-> 0, ext |-> 1] \in Loaded
      BY Values DEF Loaded
    <2>2. QED
      BY <1>1, <2>1, Constants, Values DEF TypeOK, GitInv
  <1>4. TreesInv
    BY <1>2 DEF TreesInv, Past
  <1>5. ASSUME NEW c \in Callers
        PROVE  CallerInv(c)
    <2>1. AnswerInv(c)
      BY Values DEF AnswerInv
    <2>2. Evolves(since[c], upstream)
      <3>1. since[c] = Empty
        OBVIOUS
      <3>2. QED
        BY <1>2, <3>1, EvolvesSelf
    <2>3. 1 \in 1..Len(fetchCandidateIDs(req[c]))
      <3>1. Len(fetchCandidateIDs(AnyId)) \in 1..2
        BY Constants, CandidateIDs
      <3>2. QED
        BY <3>1 DEF fetchCandidateIDs
    <2>4. at[c] = 1 /\ pc[c] # "stat"
      OBVIOUS
    <2>5. QED
      BY <2>1, <2>2, <2>3, <2>4 DEF CallerInv
  <1>6. QED
    BY <1>1, <1>3, <1>4, <1>5 DEF IInv

LEMMA NextIInv == IInv /\ [Next]_vars => IInv'
  <1> SUFFICES ASSUME IInv, [Next]_vars
               PROVE  IInv'
    OBVIOUS
  <1>1. ASSUME NEW c \in Callers, NEW i \in Ids, Call(c, i)
        PROVE  IInv'
    BY <1>1, CallInv
  <1>2. ASSUME NEW c \in Callers, CancelCtx(c)
        PROVE  IInv'
    BY <1>2, CancelCtxInv
  <1>3. ASSUME NEW c \in Callers, FetchCandidate(c)
        PROVE  IInv'
    BY <1>3, FetchCandidateInv
  <1>4. ASSUME NEW c \in Callers, StatCandidate(c)
        PROVE  IInv'
    BY <1>4, StatCandidateInv
  <1>5. CASE RestartAll
    BY <1>5, RestartAllInv
  <1>6. CASE Close /\ UNCHANGED callVars
    BY <1>6, CloseAllInv
  <1>7. ASSUME NEW id \in Cids, NEW x \in Exts, NEW removed \in BOOLEAN,
               Commit(id, x, removed), UNCHANGED callVars
        PROVE  IInv'
    BY <1>7, CommitAllInv
  <1>8. CASE Merge /\ UNCHANGED callVars
    BY <1>8, MergeAllInv
  <1>9. CASE UNCHANGED vars
    <2>1. TypeOK' /\ GitInv' /\ TreesInv'
      BY <1>9
      DEF IInv, vars, gitVars, callVars, options, origin, TypeOK, GitTypeOK, GitInv,
          OpenRepoIsLocal, NoOrphanClone, ClonesInv, TreesInv, Past
    <2>2. TreesMove
      BY <1>9 DEF vars, gitVars, origin, TreesMove
    <2>3. ASSUME NEW c \in Callers
          PROVE  CallerInv(c)'
      BY <1>9, <2>2, Kept DEF IInv, vars, gitVars, callVars, TypeOK
    <2>4. QED
      BY <2>1, <2>3 DEF IInv
  <1>10. QED
    BY <1>1, <1>2, <1>3, <1>4, <1>5, <1>6, <1>7, <1>8, <1>9 DEF Next

-----------------------------------------------------------------------------
THEOREM Invariant == Spec => []IInv
  BY InitIInv, NextIInv, PTL DEF Spec

(***************************************************************************)
(* Every variable of the registry and of the fetcher keeps its type, the   *)
(* clone and what was read from it among them.                             *)
(***************************************************************************)
THEOREM TypeCorrect == Spec => []TypeOK
  <1>1. IInv => TypeOK
    BY DEF IInv
  <1>2. QED
    BY <1>1, Invariant, PTL

(***************************************************************************)
(* The repository that ensureClone pulls is in the directory that Fetch    *)
(* and Stat read, whatever fails and whenever Close is called.             *)
(***************************************************************************)
THEOREM RepoIsLocal == Spec => []OpenRepoIsLocal
  <1>1. IInv => OpenRepoIsLocal
    BY DEF IInv, GitInv
  <1>2. QED
    BY <1>1, Invariant, PTL

(***************************************************************************)
(* ensureClone and Close leave no temporary clone that no Close removes.   *)
(***************************************************************************)
THEOREM NoCloneIsLost == Spec => []NoOrphanClone
  <1>1. IInv => NoOrphanClone
    BY DEF IInv, GitInv
  <1>2. QED
    BY <1>1, Invariant, PTL

(***************************************************************************)
(* When the branch is the remote's HEAD, a GetTemplate whose clones and    *)
(* pulls all succeed answers with what the branch held when it began, or   *)
(* with something newer.                                                   *)
(***************************************************************************)
THEOREM AnswersAreFresh == Spec => []FreshUnlessPullFails
  <1>1. IInv => FreshUnlessPullFails
    BY DEF IInv, CallerInv, AnswerInv, Fresh, FreshUnlessPullFails
  <1>2. QED
    BY <1>1, Invariant, PTL

(***************************************************************************)
(* Metadata.Version, which a second call of the fetcher finds, is never    *)
(* older than the manifest it is attached to, of whatever branch the pulls *)
(* in between are, unless that manifest's file is no longer there and      *)
(* another one of a later extension is.                                    *)
(***************************************************************************)
THEOREM VersionsFollowBodies == Spec => []VersionNotOlderThanBody
  <1>1. IInv => VersionNotOlderThanBody
    BY DEF IInv, CallerInv, AnswerInv, VersionNotOlderThanBody
  <1>2. QED
    BY <1>1, Invariant, PTL
=============================================================================
