--------------------------- MODULE EmbedRegistry ----------------------------
(***************************************************************************)
(* embedregistry.Registry: every manifest of a file system parsed when the *)
(* registry is made, and never again.  It promises what fileregistry does, *)
(* by other means: its own names for the candidates, and the order of a    *)
(* walk in place of an order of extensions; and the root's partials for    *)
(* all manifests, where fileregistry takes those of each directory.  The   *)
(* files here are those of FileRegistry at one moment; manifests of other  *)
(* environments are left out.                                              *)
(***************************************************************************)
EXTENDS FileRegistry, FiniteSetsExt

CONSTANTS
    Walked,         \* the extensions in the order of fs.WalkDir, which is lexical
    BuildVersion    \* WithVersion, or NoVersion without it

ASSUME WalkedAssumption ==
    /\ Walked \in Seq(STRING)
    /\ {Walked[k] : k \in 1..Len(Walked)} = {Exts[k] : k \in 1..Len(Exts)}

\* The manifest of an id that the walk comes to at place k, if it is there.
FileAt(env, k) == [env |-> env, ext |-> Walked[k]]

\* The manifests that New parses: none of those among the root's partials.
UnderPartialsDir(i) == HasPartials /\ home[i] = PartialsDir

Embedded(i) == IF UnderPartialsDir(i) THEN {} ELSE Candidates \ Absent(i)

\* The places of the walk at which there is a manifest of the id.
Manifests(i, env) == {k \in 1..Len(Walked) : FileAt(env, k) \in Embedded(i)}

\* New fails if any manifest does, or has no partials it can parse.
NewFails ==
    \E i \in Ids : \E p \in Embedded(i) :
        \/ disk[i][p].content = "malformed"
        \/ HasPartials /\ (Skippable(partial[Root]) \/ partial[Root].content = "malformed")

\* The cache New makes: of two files with one id the later one stays.
Entry(i, env) ==
    IF Manifests(i, env) = {} THEN NoEntry
    ELSE LET last == FileAt(env, Max(Manifests(i, env)))
             file == disk[i][last]
         IN  [path |-> last, rev |-> file.rev,
              partial |-> IF HasPartials THEN partial[Root].rev ELSE 0,
              version |-> IF file.content = "versioned" THEN OwnVersion ELSE NoVersion]

CandidateIDsBaseFirst == IF HasEnv THEN <<FALSE, TRUE>> ELSE <<FALSE>>

\* The environments, id.env and id, in which a template is looked for.
candidateIDs == IF HasEnv THEN <<TRUE, FALSE>> ELSE <<FALSE>>

\* What Stat says of the candidate that was found.  The dot of id.env is no
\* valid id.
StatVersion(env) == IF env THEN NoVersion ELSE BuildVersion

EmbedGetTemplate(i) ==
    LET cached == {k \in 1..Len(candidateIDs) : Entry(i, candidateIDs[k]) # NoEntry}
        env    == candidateIDs[Min(cached)]
    IN  IF cached = {} THEN Fail("notfound")
        ELSE Ok(WithVersion(Entry(i, env), StatVersion(env)))

-----------------------------------------------------------------------------
OnlyManifest(i, p) == \A q \in Candidates \ Absent(i) : q.env = p.env => q = p

\* The two registries mean the same files by the pattern for partials.
SamePartials(i) == HasPartials => home[i] = Root

\* What caller c has seen of the files still holds: those it passed over are
\* absent, and the manifest it has read is there.
StillThere(c) ==
    /\ {idToPaths[k] : k \in 1..(at[c] - 1)} \subseteq Absent(req[c])
    /\ pc[c] # "parse" => Found(c) # NoFile /\ Found(c).rev = loaded[c].rev

(***************************************************************************)
(* A program may embed the directory it used to read: the registry made of *)
(* the files of this moment finds what a load of the file registry finds   *)
(* that ends in this step, if what the load has seen still holds.  It      *)
(* serves an environment's file where the other does, the same file unless *)
(* there are two that differ in the extension, and not found for not       *)
(* found; and it cannot be made where the other fails to parse.  Only an   *)
(* environment's file is without a version.  The partials are the same for *)
(* the manifests of the root.  Those of other directories need partials of *)
(* their own with the one registry, and none with the other, which leaves  *)
(* out what lies among the root's partials.                                *)
(***************************************************************************)
Agrees(c) ==
    LET i        == req[c]
        embedded == EmbedGetTemplate(i)
        template == loaded'[c]
    IN  StillThere(c) =>
          IF UnderPartialsDir(i) THEN ~NewFails => embedded.kind = "notfound"
          ELSE /\ answer'[c].kind = "failed" => \/ NewFails
                                                \/ pc[c] # "parse" /\ ~SamePartials(i)
               /\ ~NewFails /\ answer'[c].kind = "notfound" => embedded.kind = "notfound"
               /\ ~NewFails /\ pc'[c] = "stat" =>
                     /\ embedded.kind = "ok"
                     /\ embedded.tpl.path.env = template.path.env
                     /\ OnlyManifest(i, template.path) => embedded.tpl.rev = template.rev
                     /\ SamePartials(i) => embedded.tpl.partial = template.partial
                     /\ embedded.tpl.version = NoVersion =>
                           embedded.tpl.path.env \/ BuildVersion = NoVersion

Loading == {"parse", "glob", "partial"}

EmbeddedAgrees ==
    [][\A c \in Callers : pc[c] \in Loading /\ pc'[c] \notin Loading => Agrees(c)]_vars
=============================================================================
