# Verification of prompty

prompty is a Go library that loads prompt templates from registries (files,
embedded files, git, HTTP), renders them into chat executions, adapts those to
LLM providers, and brings structured answers back (retries, tool validation,
streamed JSON). This directory holds TLA+ models of the parts of it whose
correctness is a matter of order, interleaving or history, or of two pieces of
code that have to agree; TLC configurations that check them on small instances;
and proofs, checked by TLAPS, of the theorems that matter most.

    tlc -config CachedRegistry_safety.cfg MCCachedRegistry.tla   # one run
    tlapm CachedRegistryProofs.tla                              # one proof

`PROJECT.json` lists the runs, the mutants that show each property can fail,
the source lines every definition models, the hazards and the theorems.

## 1. The system

| Part | Source | State it keeps | Operations | What is hard | What makes it correct |
|---|---|---|---|---|---|
| Cached registry | `remoteregistry/cache.go` | TTL cache, in-flight fetches with waiter counts, under one RWMutex | GetTemplate, Evict, EvictAll | double-checked lookup, deduplication, callers that leave, fetches that outlive them | exact waiter counts, one live fetch per id, no answer behind the cache or past the TTL, nobody else's cancellation, every call returns |
| Remote registry, HTTP | `remoteregistry/registry.go`, `http.go` | none | GetTemplate, List, Stat | two reads of a source that changes between them; which error falls through to the next candidate | the version is not older than the body |
| Git fetcher | `remoteregistry/git/git.go` | clone directory and repository handle, under a mutex | Fetch, ListIDs, Stat, Close | stale clone when a pull fails, Close followed by use, a clone that fails half way | fresh unless a pull fails, when the branch is the remote's HEAD; no clone left behind |
| File registry | `fileregistry` | cache of parsed templates, under one RWMutex | GetTemplate, Reload, List, Stat | files rewritten while they are read; environment candidates; a walk and the reading of partials in several steps | one template per Reload, nothing older than the Reload after it, fall-through only past what could not be opened |
| Embedded registry | `embedregistry` | templates parsed once | New, GetTemplate, List, Stat | the file registry's promise by other means | it serves what the file registry would, as far as the two take a pattern for partials to mean the same files |
| Truncation | `ext/truncate`, `middleware/contextx` | none | Truncate | which messages are protected, which go together, when to stop | fewest and oldest turns dropped, whole turns, the rest fits |
| Structured stream | `stream_structured_output.go` | a byte state machine | feed, finish, the stream loop | any chunking of the same bytes, limits, early stop | the objects in order, no silent truncation, nothing after a break |
| Structured executor | `structured_output.go`, `tool_validation.go`, `executor.go` | a conversation that grows by retries | one attempt per call | isolation of the caller's history, every tool call answered | each request is the history and nothing else, and the correction reaches the model |
| Client and tracing | `adapter/client.go`, `client.go`, `middleware.go`, `ext/otelprompty` | a span, a connection | Execute, ExecuteStream | nested iterators that may be left at any point | the span ended once, with what the stream said |
| Adapters | `adapter/*` | none | Translate, ParseResponse | four renderings of one message model: merging, ordering, dropping, refusing | nothing is lost without an error; an answer can be sent back |
| Schemas | `schema.go`, `schema_reflect.go` | none | the schema of a Go type; strict and loose forms of a schema | a copy of the rules of encoding/json that has to agree with it | what the schema asks for decodes without loss |
| Code generator | `cmd/prompty-gen` | the files it writes | types of a manifest, constants, Render | two walks over one schema | the generated type takes the answers |
| Template | `template.go`, `payload.go`, `prompty.go` | parse trees, required variables | Format, FormatStruct, ValidateVariables, Normalize | two analyses of one template that must agree; splicing and merging messages | what is required suffices, what validates renders, merging loses nothing |
| Ownership | `clone.go`, `template.go`, `prompty.go` | shared template values | CloneTemplate, Format, WithMessages, Normalize, ... | aliasing between cached templates and what callers receive | a caller's write is seen by that caller only |
| Manifests | `manifest`, `parser/yaml` | none | Parse | decoding | not modelled |

How they interact. A caller asks a registry for a template. The cached registry
is wrapped around any other; the remote registry asks a fetcher, and the git
fetcher its clone, upstream and the file system. What a registry returns is a
clone (`CloneTemplate`), from which the caller renders executions; an execution
may be given a history, normalized, truncated, and handed to an invoker, which
is a client over a provider adapter, under middleware. The structured executor
and the structured stream sit on top of an invoker; the former asks for a schema
that is the prompt's or made of the Go type of the answer, and that type may
have been generated from the prompt's manifest. Nothing but the registries and
the fetcher holds a lock, and nothing but the cached registry starts a
goroutine.

## 2. The modules

| Module | Models | State, and what it stands for | Actions |
|---|---|---|---|
| `ReadThrough` | what a cached registry promises | `source` (the base's versions), `latest` (what the registry last obtained), each call's `floor` and `answer` | calls, replies, updates of the base, obtaining a version |
| `CachedRegistry` | `cache.go` | `cache`, `inflight` and the fields of `inflightFetch`; each caller's program counter, clock reading and flight | one per critical section of `r.mu`, one per step outside of it, for callers and for the fetch goroutine; Evict, EvictAll, time, updates, cancellation |
| `EvictHistory` | the above and a history variable | the base's version at the last Evict, and that when each call began | those of `CachedRegistry` but EvictAll and the passing of time |
| `FileRegistry` | `fileregistry/registry.go`, with the partials of `template.go:104` | the manifests, the directory of each id, the partial of each directory, the cache, the lock, each caller's place in its walk over the candidates | each file access is a step: reading a manifest, listing and reading its partials, the walk of Stat; Reload; writes and removals of manifests and partials |
| `EmbedRegistry` | `embedregistry/registry.go`, over the directory of `FileRegistry` | none: what New makes of the present files, and what GetTemplate finds in it | none |
| `GitFetcher` | `git.go` | clone directories, the open repository, the branch's commits, the remote's HEAD | ensureClone, pull, Close, restart, commits, merges: one step each, as each operation holds the mutex throughout |
| `RemoteRegistry` | `registry.go` over `GitFetcher` | each caller's candidate, body and version | Fetch and Stat of each candidate |
| `Truncate` | `truncate.go` | the messages marked as removed, the running total | one step per block |
| `StreamStructuredOutput` | `stream_structured_output.go` | the parser's fields, the queue of completed objects, the consumer | one step per byte, per chunk end, per yield; provider errors; breaks |
| `TracedStream` | `otel.go` and the streaming half of `adapter/client.go`, around the above | the source of the stream, its connection, the span, what the chunks have said | those of `StreamStructuredOutput`, each with what the enclosing iterators do in it |
| `Messages`, `Results` | the message types and helpers of `prompty.go`, `response.go`, `tool_validation.go`; functions that return a slice and an error | none | none |
| `StructuredExecutor` | `executor.go`, `structured_output.go`, `tool_validation.go` | a heap of executions and who holds which; the log of attempts | a library of steps: attempt, conclude, correct, answer tool calls, foreign writes |
| `SchemaTranslation` | strict form (OpenAI), tool input (Anthropic), `genai.Schema` (Gemini) of a JSON schema; what a schema means | none | none |
| `Adapters` | `adapter/openai`, `anthropic`, `gemini`, `ollama` | none: Translate and ParseResponse are operators | none |
| `SchemaReflect` | `schema_reflect.go` | none | none |
| `GoJson` | encoding/json, as the library decodes answers with it (external) | none | none |
| `TypesGen` | the types that `cmd/prompty-gen/gen` makes of a response format | none | none |
| `Conversation` | `StructuredExecutor` over an adapter: a plan, a client, a provider that answers as it likes | the steps of `StructuredExecutor` and what was sent and answered in each attempt | start an attempt, translate, answer, fail, be refused by middleware, write |
| `SchemaConversation` | the schemas of a conversation: what the provider is told, what the type of the answer takes | that of `Conversation` | those of `Conversation` |
| `Template` | `template.go`, `payload.go`, Normalize of `prompty.go` | the merged variables, the messages so far, the error | check, render or skip one message, splice, start or go on with a run |
| `Ownership` | every copy of `clone.go`, `template.go`, `prompty.go` | what each name stands for; for each field of each object, who allocated each of its levels; who wrote on which cell | load, hand out, render, derive, normalize, resolve, write |

`MC*` modules hold what TLC needs: catalogs of inputs and symmetry sets. The
translations of schemas reach `Adapters` and `Conversation` as constant
operators (`StrictSchema`, `ToolInputSchema`, `GenaiSchema`, `TypeSchema`), since
they recurse over data and a proof must not see them; `MCConversation` gives
them the operators of `SchemaTranslation` and `SchemaReflect`. The constant
`Strings` stands for the strings of the program.
Comments in each module say what is abstracted. The general rules: a template
in a registry is the version it was read from; a message is its role and its
parts, and a text the sequence of the atoms it was put together from, so that
concatenation can be followed; arguments of a tool call are what a JSON decoder
makes of them; in the stream a text is its bytes' classes; a variable is absent,
zero or set. A Go type is a record with its kind, and structs have names.

## 3. The runs

| Run | Question | Bounds, and why they are enough |
|---|---|---|
| `cache_safety` | is the cache's bookkeeping exact under every interleaving, and does it implement `ReadThrough`? | 2 callers, 3 calls, 3 fetches, an entry that expires, one update: a fetch can be left, replaced and overtaken, and its late end meets a newer entry. More callers only repeat these; the proofs cover any number. |
| `cache_returns` | does every call return? | 2 callers, 2 calls, 2 fetches; one waits for the other's fetch, which may hang |
| `cache_evict` | does an Evict make the next call fetch again? | the smallest instance that shows it does not (section 5) |
| `file_registry` | one template per Reload, nothing older than it, no file passed over, every call returns; does an embedded registry serve the same? | 2 callers, 2 calls, an id of the root or of a directory below it, an environment and a base name with two extensions each (four candidates), one partial beside each manifest (for a nested id the root's does not change), 2 writes or removals of a manifest or a partial, 1 Reload; `Busy` ends these once every call is answered; 1,479,088 states |
| `remote_git` | is the remote registry as fresh as its pulls, and is a clone ever lost? | 2 callers, 2 calls, 2 clone directories; the branch begins with `a.yml`, and two commits add or remove `a.yaml` or the environment's file: enough for the served file to go and an older one to be found; 1 Close or restart; 6,527,222 states |
| `truncate_drop` | are the fewest, oldest whole turns dropped? | all conversations of up to 4 messages of 5 kinds, every cost 0 to 2 or an error, budgets 0 to 3 |
| `truncate_tools` | are tool results ever left without their call? | as above, cost 1 (section 5) |
| `stream` | does any chunking of any document give its objects in order, no error only for a whole answer, and does the span tell? | 355 documents of up to two objects over braces, brackets, quotes, escapes, fences, malformed ones among them; every chunking, three limits, a break or a failure anywhere, a provider that streams and one that does not; 249,263 states |
| `executor_attempts` | does each attempt send the history and the corrections, to each of four providers, without losing a part; do schemas mean the same on their way, and do answers that follow them decode? | below |
| `template` | does formatting do what its own checks promise, and does Normalize lose anything? | all templates of up to 3 of 8 kinds of message, every payload over two variables and `Tools` (a value may be absent, zero, without the names inside of it, or whole), 3 defaults, 4 histories; 5,511,952 states |
| `ownership` | does a write reach anybody else? | 2 callers, 5 objects, 1 write: a chain of load, clone, render and derive takes four |
| `ownership_cached` | does a write reach the registry's template? | as above (section 5) |

`executor_attempts` has four families of plans, 889,216 states together, each
with every provider:

- prompts for the adapters alone: every role with every one and two parts of a
  catalog of all kinds (media by source and type, calls by what their arguments
  decode to, results with text, media and nothing), and conversations of up to
  three turns, since adapters merge neighbours. `TranslationKeepsContent`: what
  the provider reads is what the execution holds, in order, or there is an
  error. `PortableIsAccepted`: what every provider can express is refused by
  none. `CallsAreAnswered`, `AnswerIsShownBack`: what a provider answered can be
  put back into the conversation and reaches it again as it was.
- 391 response formats with a Go type generated from each. `SchemasMeanTheSame`
  compares, over 173 values, what the translated schema accepts with what
  the schema accepts; `GeneratedTypeFits` what the schema accepts with what
  decodes into the type.
- about 700 Go types whose schema is made by reflection: every way to embed up to
  two structs (by value, pointer, tagged, unexported), with fields of their own
  that shadow or clash, embedded once more; recursion, chains past the depth
  limit (`maxSchemaDepth` is 6 here, 32 in the code, and only its being passed
  matters). `SchemaFitsTheType`: they are read as encoding/json reads them.
- conversations retried `Attempts` (3) times with every kind of answer, error
  and refusal, and `DisturbedAttempts` (2) with one foreign write (`Scribbles`)
  at any moment. `WorkExecIsHistory` and `CorrectionsReachTheModel`: three
  attempts are what it takes for a correction to be followed by a transient
  error and then by another correction.

Every property of a passing run has at least one mutant: a plausible bug in the
code, written in the module, under which the run must fail. Deadlock is not
checked, since bounded runs end and the programs they model may stop. The
bounds (`MaxCalls`, `MaxTime`, `MaxVersion`, `MaxWrites`, `MaxReloads`,
`MaxCommits`, `Written`, `MaxCloses`, `Busy`, `MaxLen`, `MaxMessages`, `Attempts`,
`DisturbedAttempts`, `Scribbles`) are constants that guard the environment's or
the callers' actions; none of them cuts a handler short. `Flights` bounds the
fetches in the same way: each is started at most once. Type invariants of the
registries and of `Ownership` are not among the runs' properties: they are
proved.

## 4. Fairness

`CachedRegistry` checks liveness under `FairSpec`, which is weak fairness of
each caller's own steps: Go schedules a runnable goroutine, and its RWMutex
hands the lock to waiters in turn. Nothing is assumed of the base registry,
which may hang. So `CancelledCallsReturn` (a call whose context has ended
returns) needs no help from a fetch, and `CallsReturn` has the fetches' progress
as its premise: `FetchFairness => ...`, weak fairness of each fetch goroutine.
New calls, time, evictions and updates are not fair.

`FileRegistry` assumes weak fairness of each caller's steps. A caller that waits
for the write lock is only enabled while the lock is free, so what is needed in
general is the lock's freedom from starvation; with boundedly many calls each
holder releases it and weak fairness suffices. File system calls are taken to
return.

The other modules have no waiting in them: their calls end because they are
loops over data, and their properties are about what has happened by then.

## 5. What the code does otherwise than it says

Three runs show the code to disagree with what the repository says of it.

- `cache_evict`. `Evict` removes the cache entry and leaves the in-flight fetch,
  which may have read the base before it. A call that begins after the Evict
  joins that fetch, or hits the entry it stores, and no new fetch is made.
  A test comment (`remoteregistry/registry_test.go:507`) says that the next
  GetTemplate fetches again; that is so when nothing is in flight.
- `truncate_tools`. Turns are cut at every protected and every user message.
  When one of these stands between a tool call and its result, the call's turn
  can be dropped and the result stays. `ext/truncate/truncate.go:35` promises
  that tool invariants are preserved. Where no such message intervenes they are
  (`ToolTurnsAreWhole`).
- `ownership_cached`. `CloneTemplate` copies `PartialVariables` one level deep.
  A map or slice nested in a default is shared by the cached template and every
  clone of it, although `template.go:227` says callers cannot mutate the cached
  template.

What else is shared follows from the same model. A `maps.Clone` copies the outer
map only, so what is nested in it stays shared: partial variables between a
registry's template and all its clones, and message metadata between the parsed
messages that all clones share and each execution rendered from them, until that
execution is itself cloned. A struct stored as a value keeps its own maps through
every copy, `cloneMapAny` included. `ResolvedMedia` stores the bytes a fetcher
returned, which the fetcher may keep; cloning the result copies them. And
`Normalize` answers with its receiver when there are no messages, although
`prompty.go:179` says it returns a new execution: the caller then has two names
of one execution. `NoSharedCells` says that two different executions or
templates share nothing beyond this, and is proved.

The properties of the conversation carry exceptions, and each of them is a
behaviour worth knowing:

- A model that answers through OpenAI with arguments that are no JSON gets its
  answer shown back, as it should be, and `openai.go:393` then refuses it:
  every later attempt of that conversation fails in Translate
  (`CorrectionsReachTheModel`).
- Anthropic's adapter applies cache control to the parts inside a tool result,
  where the others drop it: a value it does not know is refused there alone
  (`Portable`).
- A structured answer that does not decode and makes tool calls is followed by a
  user message that says so, and its calls stay unanswered
  (`FeedbackFollows`).
- OpenAI's strict form makes an optional property nullable, but its `enum` does
  not get null: an optional enumeration that does not list null itself can no
  longer be left out (`OmitsAnEnumeration`).
- Gemini's schemas have enumerations of strings, and `gemini/schema.go:61-69`
  drops every other member: of `"type": ["string", "null"], "enum": ["a", null]`
  there remains an enumeration that refuses null, which the schema allows
  (`PicksNoString`).
- Reflection knows nothing of the `string` option of a json tag, of types that
  decode themselves (`time.Time` becomes an object without properties) or of
  embedded pointers to unexported structs, which encoding/json refuses to set;
  it asks for any string where a `[]byte` takes base64 only
  (`schema_reflect.go:45`), and for any integer where the type has a range
  (`:69-71`). What follows the schema may then not decode (`NotReflected`); and there is a diamond of embeddings in which encoding/json
  takes a field for unambiguous that reflection leaves out (`AmbiguousForGo`).
- Two paths of a schema can spell one generated type name, and two properties
  one field. The guard in `gen/schema.go:391` compares names that are equal only
  if the paths are spelled the same, so it never fires; the file then does not
  compile (`DeclaredOnce`).
- The embedded registry leaves an environment's template without the build
  version, since Stat refuses `id.env` as an id; and of two extensions it keeps
  the one that is later in the walk, where the file registry takes the first of
  its list (`EmbeddedAgrees`).
- The two registries take a pattern for partials to mean different files: the
  file registry takes it relative to the directory of each manifest
  (`fileregistry/registry.go:123`), the embedded one relative to the root
  (`embedregistry/registry.go:94`), and it leaves out manifests that lie among
  those partials. For an id of another directory one can fail where the other
  serves (`Agrees` says which).
- A partial that is removed between ParseGlob's listing and its reading, or that
  is a link to no file, gives an error that wraps `fs.ErrNotExist`. GetTemplate
  takes it for an absent manifest and goes on to the next candidate: the base
  file is served, and cached, although the environment's is there
  (`PassedOverWereAbsent`).
- The git fetcher clones the branch of `WithBranch`, but its pulls name no branch
  (`git.go:218`, `:279`), and go-git then follows the remote's HEAD. For another
  branch the clone stays at the commit it was made at, or is fast-forwarded to
  what has been merged into the remote's default branch; go-git may well report
  that all is up to date. `remoteregistry/git/README.md:21` says "branch to
  clone/pull". Until a Close, a temporary clone of such a branch is stale, and
  one of `WithCloneDir` for good (`FreshUnlessPullFails` is about branches that
  are the remote's HEAD).
- Fetch and Stat look for `id.yaml`, `id.yml` and `id.json` each for itself. When
  the file served is removed in between, the version is that of the next
  extension's file, and may be older than what it is attached to
  (`VersionNotOlderThanBody`).
- `adapter/adapter.go:42` tells a caller to call ResolvedMedia before the adapter when
  it has failed with `ErrMediaNotResolved`. `mediafetch/fetch.go:80-87` returns an empty body
  without an error, and `prompty.go:271-277` stores it: the part still has a URL
  and no data, and OpenAI and Ollama go on refusing it (`PortableIsAccepted`).
- An adapter's form states less of a media part than the part does. OpenAI gets
  a file without its MIME type or a name (`openai.go:358`), Gemini gets
  `application/octet-stream` where the MIME type is blank, and Ollama gets images
  without their type. `TranslationKeepsContent` compares the types a form can
  state (`Stated`), so two files of different types are the same to OpenAI.
- Of `{{ .user.name }}` only `user` is required (`payload.go:156`), but
  `missingkey=error` applies to every map: the template does not render when the
  map has no `name`, and neither does a range over maps that lack a name used in
  its body. Everything required is there, and Format fails half way
  (`RequiredVarsSuffice` says through which references this happens).

Behaviour that looks surprising is modelled as it is and listed as a hazard with
a note. It contradicts no statement of the repository that variables of range
elements are required of the payload, that Stat may describe another file than
the body's, and that a fence on one line with its object hides it. That an
optional message which refers through a partial only is always skipped does
contradict `prompty.go:360`, which skips one whose referenced variables are all
zero; the model does as the code does (references of kind `hidden`).

Seen on the way and not modelled: `adapter/openai/openai.go:508` yields the
stream's error after the consumer has broken out, which panics if there is one;
`Err` is nil there as long as `Next` was true. `cmd/prompty-gen/main.go:189`
names output files after the manifest's file and not, as its README says, after
the id, so two manifests of one base name overwrite each other. Required strings
and numbers that are empty or zero fail the validator's `required` tag of a
generated type.

## 6. Proofs

| Module | Theorem | For every | Along |
|---|---|---|---|
| `CachedRegistryProofs` | `TypeCorrect` | number of callers, ids, fetches, TTL and bounds | action by action |
| | `WaitersAreExact`, `LiveFetchesAreRegistered`, `CancellationIsOwn`, `ReadsAreMonotone`, `ExpiredEntriesAreRefetched` | the same | `IInv` below |
| `CachedRegistryProofs` | `CachedRegistryImplementsReadThrough` | the same | the mapping `RT` of `CachedRegistry`: a return maps to Reply, the publication of a registered fetch to Obtain, calls, cancellations and updates to theirs, all other steps to stuttering |
| `FileRegistryProofs` | `TypeCorrect`, `TemplatesAreStable`, `ReloadTakesEffect`, `PassedOverOnlyAbsent`, `EmbeddedServesTheSame` | callers, ids, extensions, with or without an environment and partials, orders of the walk, and bounds | `IInv` below |
| `RemoteRegistryProofs` | `TypeCorrect`, `RepoIsLocal`, `NoCloneIsLost`, `AnswersAreFresh`, `VersionsFollowBodies` | callers, ids, environments, directories, kept or temporary clones, branches that are the remote's HEAD or not, and bounds | `IInv` below |
| `OwnershipProofs` | `TypeCorrect`, `SharingIsBounded`, `WritesAreSeenByTheirWriter` | number of callers, objects and writes | `IInv` and `PrivInv` below |
| `TruncateProofs` | `ToolTurnsStayWhole`, `FewestOldestTurnsGo`, `ResultFits` | conversations of any length, costs and budgets | `IInv` below |
| `TracedStreamProofs` | `SpansAreEnded`, `BreaksAreFinal`, `ObjectsComeInOrder`, `SilenceMeansComplete`, `NothingFineIsRefused` | documents of any length and size limits | `IInv`, `StreamInv` and `AcceptInv` below |
| `TemplateProofs` | `RequiredIsEnough`, `ValidatedRenders`, `HistoryIsOnePiece`, `NormalizeKeepsMessages` | templates, defaults, payloads, histories and cache hints | `IInv` and `MergingInv` below |
| `ConversationProofs` | `NextConversationIsHistory`, `RetriesReachTheModel`, `PortableConversationsAreTaken`, `TranslationsKeepTheConversation`, `AnswersAreShownBack`, `CallsAreAlwaysAnswered` | plans (prompts of any length, tools, providers), answers, numbers of attempts and foreign writes, translations of schemas | `HistoryInv`, `LogInv`, `SentInv`, `WaitInv`, `AnswersInv`, `ShownInv` below |

**Cached registry.** None of the properties is inductive. A waiter count can
only be kept exact by knowing to which flights callers refer (`RefsInv`), and a
flight is registered exactly while its fetch runs uncancelled, which also says
that only a cancelled fetch ends with the shared context's error (`FlightsInv`).
That reads are monotone needs an order of versions: the base is at or ahead of a
registered fetch, that at or ahead of what the registry last obtained, and a
cached entry is the latter (`VersionsInv`). What a caller that found nothing
valid cached may still find is `UnservedInv`, and `AnswersInv` says that the
flight a caller waits for is registered still or ended with an answer good for
that caller: it was not cancelled under it. `IInv` is the conjunction of these
with `TypeOK` and `WaitersExact`. It uses `IdsAssumption`, `CallersAssumption`
(finitely many callers, so that waiters can be counted), `FlightsAssumption`,
`BoundsAssumption` and `NoEntryAssumption`.

**File registry.** What was returned since the last Reload is what is cached
(`ServedInv`), because a caller that loads holds the lock and its id is not
cached (`LockInv`); the latter is what the second lookup is for. A file that was
gone at a Reload stays gone, since each write has a number of its own
(`RevsInv`, `GoneInv`), and neither the cache nor a load under way has one that
was gone before the call began, manifest or partial. What a walk has passed over
was absent since the last Reload, because Reload waits for the lock
(`HolesInv`), or its partial was: what was listed and cannot be opened was
removed after the listing, or is a dangling link, and both are in `torn`
(`TornInv`). The steps of a caller fall into few forms (`Hit`, a return of an
error, a move, a candidate passed over, a load in one step or three, a
store), and each part of `IInv` is shown for the forms. The embedded registry
keeps of an id what the walk came to last, which is one of the files there are
(`WalkFinds`, `EntryIs`); that it serves an environment's file exactly when the
other does rests on the order of the candidates, an environment's before the
base ones (`Order`), and that a call under way has returned nothing on
`PendingInv`. It uses `IdsAssumption`, `ExtsAssumption`, `WalkedAssumption`,
`EnvAssumption`, `PartialsAssumption`, `NoCallerAssumption`, `NoFileAssumption`
and `NoEntryAssumption`.

**Git registry.** `GitInv` is about the fetcher alone: beside the two properties
it says which directories may hold a clone (`ClonesInv`). Trees are ordered by
`Evolves`: in a later one each file is as it was, newer than the whole earlier
tree, or gone. `TreesInv` says that upstream, the remote's HEAD and every clone
are `Past`: they evolve into the branch, and into the HEAD unless they are ahead
of it, so that a fast-forward never goes back. For each caller, upstream evolves
from what it was at the call, `LoadedInv` says that what was fetched is of a tree
that evolves into whatever Stat may read, and `AnswerInv` states the two
properties of the answer; `LaterFiles` is why a file found under the same
extension or one tried before it is no older. A clone that was just made or
pulled is upstream itself, when that is the HEAD. It uses `DirsAssumption`,
`TreesAssumption`, `InitialAssumption`, `CidsAssumption`, `IdsAssumption` and
`EnvOfAssumption`.

**Ownership.** A cell is named by the object that allocated it, so "nobody
shares it" becomes "its name is its holder's", where an object may be another
name of one that came before it (`NamesInv`). `OuterInv` and
`InnerInv` say this for the outer and the nested maps of every field, with the
exceptions of section 5, and `LevelInv` that no reference changes its level; `RefsTyped` and `KindsTyped` say which objects exist and what they
are. The step lemmas go by operation, all on top of `MakeInv`, which covers
whatever an operation allocates. Who sees what follows from who shares what:
`PrivInv` says that a cell of a field copied deeply has been written by its
holder alone. It is kept because a copy takes over the writes of what it is made
of, which is the copier's own or, at GetTemplate, the registry's, and the
registry never writes (`OwnersAssumption`: it is no caller); and because a write
reaches no such cell but the writer's (`OuterInv`, `InnerInv`). That free cells
are clean and references lead to live objects is `FreshInv`. From
`BoundAssumption`, `OwnersAssumption` and `FetcherAssumption`.

**Truncation.** What was removed is closed under `SameTurn` and has nothing
protected (`TurnInv`), because every block that is removed starts where a block
may start (`BlockInv`); `BlockIsWhole` shows from the definition of a block, with
the least element of a set of positions, that such a block is a turn. Once the
costs are counted (`TotalInv`), the running total is the sum over what is left,
what was removed is what is unprotected before the block, and each of it had to
go, because the sum over what is not older than it was over the budget when it
was removed. Sums over positions are reasoned about through their partial sums
(`UptoUnion`, `TokensAreAdded`, `TokensGrow`), by induction over the length. The
conversation is one whose tool messages answer some call (`InputInv`, from
`Init`). It uses `CostsAssumption` and `BudgetsAssumption`.

**Stream.** A span is unstarted, started or, exactly when the sequence is over,
ended (`BeforeInv`, `RunningInv`); the middleware's finish reason is there if a
native stream gave it (`ReasonInv`), and a consumer that broke out has ended the
sequence (`StoppedInv`). A step either goes on or runs what was deferred
(`StepEnds`). For this the bytes matter only in that each goes on or ends the
sequence with an error (`BytesEndOnce`).

What the consumer sees of the document rests on `StreamInv`. What was decoded
are the first objects (`YieldInv`), they end before the byte that is read next
or before the object that is captured, and no other has begun (`PlaceInv`); so a
capture that ends where an object does, and began where it began, is the next
one (`CapturedIsNext`). That a document that was left has no object to come
(`AfterDoc`) needs that brackets count only off the lines of fences
(`FenceInv`, `FenceStep`: the parser's flag says whether a line is a fence's),
and that an object outside of an array is alone (`ObjectIsAlone`).

Well-formedness says nothing of the parser's state: an object is known by
counting quotes that are not escaped and brackets that are not quoted
(`IsObject`), a byte being escaped by an odd number of backslashes before it.
`EscapedStep`, `QuotedStep` and `DepthStep` say how each count follows from that
of the place before; so the parser's `escape`, `inString` and `depth` agree with
the counts wherever it is in an object (`ItemInv`), and it takes for an array
what is one (`ArrayInv`). `AcceptInv` adds to them that nothing was refused. From
`DocumentsAssumption` and `SizeLimitsAssumption`: that the objects of a document
are told in their order, begin with a brace, and belong to its first value.

**Template.** A call that failed to render stopped at a message that was not
skipped, whose references fail on the merged variables, with nothing required
missing (`BlamesMessage`); that needs the check to have come first
(`RendersComplete`) and a failed call to be final (`GoesOnClean`). That a name
missing in the payload was required then follows because every reference the
walk sees is one it collects (`SeenIsCollected`); what is left are references it
does not see and names missing inside of a value (`MissingInside`). Of the messages, `MergingInv` says that those
rendered are the template's in their order (`RenderInv`), that splicing puts the
history between the leading system messages and the rest (`SpliceInv`, with
`SpliceIs`: there is such a place), and of Normalize what holds after each
message (`NormInv`): the content so far is kept, every part of a merged message
comes from a message with its hint (`Accounted`), texts are apart, and the last
message is a system message just if the last one read was. Merging appends to
the content (`MergeKeeps`) and separates (`MergeApart`). From `ToolsAssumption`,
`CachesAssumption`, `TemplatesAssumption` and `HistoriesAssumption`.

**Conversation.** `HistoryInv` says that the execution the executor works on is
the prompt and the corrections of the attempts so far, up to marks of others
where the API hands that execution out, and that so is the request that waits;
for structured answers the working copy is held by nobody else. `LogInv` says
what the corrections are made of: content that the provider said, so that its
calls have arguments this provider's adapter takes back or no JSON, and results
of one text each, one for every call, with its id and its name. That makes every correction `Fit`, which is what an adapter
needs to translate a message, unless it is poisoned, and then the adapter must
refuse it (`MessageErr`, `TranslateErr`, provider by provider); marks written by
others are texts and change neither (`FitsWithMarks`). `SentInv` keeps what was
sent as the translation of what was requested. `PortableFits` takes the portable
vocabulary to `Fit` for every provider at once.

That a translation keeps the conversation is shown block by block. What a part
says is read in four ways, as words, calls, results and media (`Read`), and what
a sequence says is the concatenation of what its members say (`Spread`). Each
block an adapter writes reads as the part it was made of (`Becomes`; media as far
as the provider's form states their type, `MediaBecomes` and
`RetypedUserParts`); so what
an adapter makes of a message, be it one message, several, or the parts of a
content, reads as the message did, in its order (`Kept`, adapter by adapter);
and so does the request as a whole, where the system texts of the prompt are
read apart, less the separators an adapter puts between two of them
(`TranslateKeeps`). `WaitInv` adds that a request in flight was let through.
Concatenation is reasoned about
by induction over the length of a sequence, done with the set of the lengths a
fact holds of (`SeqInduction`). It uses `PlansAssumption` and
`StringsAssumption`; nothing is assumed of the translations of schemas, which
are constants here.

What an adapter makes of an answer, and how it shows that answer again, is the
same argument with another reading: the words of an answer with the input of the
forced tool among them, and its calls without it (`Saying`), which is the one
thing `ParseResponse`, the conversation and `Translate` all keep. `AnswersInv`
says that the outcome of an attempt whose message was kept says what the
provider sent (`Told`), `ShownInv` that a request in flight, less the marks of
others, is the prompt with what the attempts left. What an attempt leaves says
one answer or none (`TraceSays`), what a request says is what its messages say
(`TurnsShown`, `SystemSaysNothing`), so the turns are the answers, one by one.

That calls are answered is about neighbours, so it needs more than what is
read: `Shows` says how each adapter lays a message out, one of user or assistant
as one of the same role, a tool message as messages of results alone and in
order (Anthropic and Gemini one, OpenAI and Ollama one for each), and that calls
come from calls. That the results in an outcome belong to the calls of its
answer (`Belong`) is in `LogInv`. A conversation is closed when each call in it is answered
or followed by feedback (`Closed`), and one that also begins with no results can
be put after any other (`ClosedConcat`, which needs that what follows a message
ends where the results end, `FollowingIs`). The trace of every attempt is closed
in every view of it (`Chunks`, `TraceChunk`), hence all of them together
(`ChunksFlatten`), with the prompt, which makes no calls, before them, and the
system messages taken out (`ClosedWithoutSystem`).

## 7. What is model-checked only, and what is left out

Model-checked only: liveness (`CallsReturn`, `CancelledCallsReturn`), which is
out of the prover's reach; and `SchemasMeanTheSame`, `SchemaFitsTheType` and
`GeneratedTypeFits`, whose operators recurse over schemas and types. That the
objects which the stream's run uses are well formed is evaluated there as well
(`WellFormedDocuments`).

Left out within the modelled parts: the wording of errors, logging, metrics; the
token counter's estimates; the preview in stream errors; text that templates
produce; the HTTP fetcher, which keeps no state; a process that
ends inside the checkout of a pull (go-git may leave HEAD ahead of the files); List, which is a listing of the
moment; media resolution as such (what it leaves is `ResolvedMedia`), which
fetches one URL after the other into a clone. Of the adapters: model options
(temperature and the like), the parameter schemas of tools (the same
translations as of response formats), `ParseStreamChunk`, which no code of the
library calls, and message parts given as pointers. Of templates: that a media
type of blanks only is empty, and that an empty one is inferred from the MIME
type, and the values `reflect` counts as zero or not (an empty list that is not
nil is not zero, a struct is when all its fields are); and the metadata of
messages, of which Normalize keeps that of the first in a run only. Of tracing: the span of
Execute, which has no loop to leave, and token counts. Of the code generator:
the flags and configuration, the files it writes, the constants, Render and the
tags for the validator. Keys of JSON objects are compared exactly, which is what
a model that follows a schema writes; encoding/json also folds case.

Not modelled: manifest parsing and the YAML parser (decoding of data), the
template functions, casts and token estimates (pure, unit-tested), media
download (one bounded HTTP request), examples and scripts.

## 8. Plan

The modules were written in this order: `CachedRegistry` with `ReadThrough`,
`FileRegistry`, `GitFetcher` with `RemoteRegistry`, `Truncate`,
`StreamStructuredOutput`, `StructuredExecutor`, `Ownership`, `Template`; then
`Adapters` with `Conversation`, `TracedStream`, `SchemaReflect` with `GoJson`,
`EmbedRegistry` and `TypesGen`. What would add most from here:

1. The rest of the code generator: output names, duplicate ids, and what is left
   behind when one of several files cannot be written.
2. The code fences of `structured_output.go` as an algorithm over characters
   that have a width.
3. The pipeline of Format, Truncate, Normalize and Translate as one model, with
   `TranslationKeepsContent` stated end to end.
