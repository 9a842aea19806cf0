# Commitscape in TLA+

Commitscape makes Reports about git repositories. A person opens a repository on the Site, which queues a
Build; the Builder runs it (git, then the Rust engine), publishes a Report, and the Site answers from it with
the help of the engine service. This directory holds TLA+ models of that pipeline, TLC configurations that
check them on small instances, and proofs, checked by TLAPS, that hold for instances of any size.

Paths below are relative to the repository. `PROJECT.json` lists, for every definition, the lines it models.

## Files

| module | what it is |
|---|---|
| `BuildQueue.tla` | the life of a Build: row, jobs, handlers, reaper |
| `BuildQueue_proofs.tla` | its inductive invariant and theorems |
| `Publication.tla` | from a finished export to a served Report: load, upload, transaction, clean-up, renames, removals |
| `Publication_proofs.tla` | that what is served is stored, that a Report keeps its Stored Index and its lines and never goes back, that nothing else is left in R2, and that Publication is a ReportStore |
| `ReportStore.tla` | abstract: what publishing promises the Site; implemented by Publication, used by Serving |
| `Serving.tla` | how the Site answers from a Report while others are published |
| `Holding.tla` | what the Builder's jobs wait for: repositories, memory; pruning |
| `RepoState.tla` | the engine cache of a repository, saved to R2, restored, forgotten |
| `HeadCheck.tla` | whether a Report is still current |
| `Survival.tla` | the counts of Surviving Lines: rows, jobs, handlers |
| `Ownership.tla` | which commit each line came from, brought forward from count to count |
| `Pulls.tla` | pull requests and reviews, read page by page and kept by webhooks |
| `EnginePacks.tla` | the packs the engine service loads and keeps |
| `Shares.tla` | Shared Reports: a row and an object |
| `GitHubCache.tla` | GitHub's answers, kept for a while |
| `Builder_proofs.tla` | about Survival and Holding |
| `Parts_proofs.tla` | about Ownership and Pulls, and about the parts `MCParts` holds together |
| `RepoState_proofs.tla` | about RepoState |
| `Serving_proofs.tla` | about Serving and EnginePacks |
| `Server_proofs.tla` | about HeadCheck, Shares and GitHubCache, as `MCServer` composes them |
| `Folds_proofs.tla` | lemmas about folds and sums over finite sets |
| `MC*.tla`, `*.cfg` | instances for TLC; `MCServer` and `MCParts` check several parts in one run, `MCPublication` two instances of one |

`tlc -config Server.cfg MCServer` checks a configuration, `tlapm BuildQueue_proofs.tla` proofs.

## Inventory

### Parts, state and operations

| part | code | state | operations |
|---|---|---|---|
| Build queue | `packages/server/src/{builds,queue}.ts`, `apps/builder/src/{main,job}.ts` | `builds` rows; pg-boss jobs in two lanes, one active per repository and lane; the Builder's advisory lock | `queueBuild`, the lanes' workers (`laneOf`, forward), `runJob`'s claim, `claimedJob`'s ends and resends, `queueMoreLines`, `reapBuilds` every five minutes |
| Publication | `apps/builder/src/{job,run,universe}.ts`, `packages/server/src/{stored-index,repos,reports}.ts` | `repositories`, `stored_indexes`, objects in R2 (packs, screens, Atlases) | `loadExport`, `publishBuild`, `makeLive`, `atlasJob`, `settleRepository` (a rename), `removeReports` |
| Holding and memory | `apps/builder/src/{clone,disk,admission}.ts` | a chain of promises per repository; megabytes in use and a queue; clones and caches on disk | `locked`/`holdingRepo`, `lineStoreOf`, `admitting`, `prune`, `sweep`, `repackClones` |
| Head check | `packages/server/src/builds.ts` (`whole`, `unchanged`, `refsUnchanged`), `job.ts` (`keptUnchanged`), `seeds.ts` | `checkedAt`, `reportRefs` of a repository | a Build that ends without work |
| State tier | `apps/builder/src/state.ts` | sealed chunks and a manifest in R2, a copy of the manifest on disk, `repo_states` | `saveState`, `restoreState`, `forgetStates` |
| Surviving Lines | `apps/builder/src/survival.ts` | `surviving` rows per Report version and person | `runSurvival`, again with twice the budget or from a full clone |
| Pull requests | `apps/builder/src/pulls.ts`, `packages/server/src/pulls.ts`, webhooks | pull requests, reviewers | pages from GitHub, `foldReview`, webhooks |
| Site answers | `apps/site/src/server/{answers,warm,repos}.ts` | pack remembered per Stored Index, answers kept by key | `packOf`, `withPack`, `reportAnswer`, `warmLoaded` |
| Engine service | `apps/engine/src/{packs,lru,work}.rs` | packs on disk and in memory by size, loads in flight | `get`, `load`, `fetch` |
| Shared Reports | `apps/site/src/server/shares.ts`, `packages/server/src/cleanup.ts` | `shares` rows and R2 objects | create, upload, read, delete, expire |
| GitHub cache, limits, lent tokens | `packages/server/src/{github-cache,lent}.ts`, `apps/site/src/server/limits.ts` | rows with a time; flights by key | read through, count, lend |
| Engine and CLI | `crates/` | none shared | an analysis of a git history; file formats |
| Pages | `apps/site`, `apps/landing`, `packages/{ui,data}` | none of their own | rendering and queries |

### How they interact

- Calls and rows: the Site inserts a `builds` row, then sends a job; the row and the job can part, and the
  reaper is what brings them together again.
- Jobs: pg-boss gives a job to a worker, expires it, keeps it through a crash, and never stops a handler.
- Shared state: the row of a repository is written by Builds, renames, removals, webhooks and the Site. A
  Build reads it several times and holds nothing in Postgres between two reads.
- Objects: R2 has no transactions, so what is in it and what Postgres says of it are kept together by order
  alone: upload, commit, delete.
- Promises: inside the Builder, a repository's clone and cache are held by one job at a time, and runs wait for memory.

### What is hard

Interleavings of handlers, reaper and the Site around one row; a crash between any two awaits; timeouts whose
retry races the old job; a publish in several steps over two stores; renames in the middle of a Build; waiting
for two things at once. Each is a line under `hazards` in `PROJECT.json`, with the properties that catch it
going wrong, or the reason none does.

### What makes each part correct

- Build queue: one handler per Build at a time; only an owner ends a running Build; every Build ends.
- Publication: what the Site is sent to is stored; a Report keeps its own Stored Index; it never goes back to
  an older head, nor from lines to none; nothing is left in R2 that nobody serves.
- Holding: no clone goes away under a job; memory is not oversold; the order of asking is kept; nobody waits for ever.
- Head check: a Report is called current only if its pack was made from the refs that are there.
- State tier: what the manifest names is stored, and what is restored is whole.
- Survival: what is recorded was counted at its Report's head, and counting ends. Ownership: what is brought
  forward is what blame would say from scratch.
- Pull requests: what is not asked for again is kept as GitHub has it; what is said of a reviewer is their last
  decision, in whatever order their reviews arrive.
- Site answers: an answer was made from a pack that was the Report's while it was asked for.
- Engine service: every file is one the budget counts; nobody waits on a load that is over.
- Shared Reports: an object has a row that will expire it. GitHub cache: what is given as fresh is.

## Modules and how they follow the code

### BuildQueue

A handler is a record in a *slot*, with the pg-boss job it works on: `job[s].pc` is where it stands between two
awaits another actor can see.

| `pc` | in the code |
|---|---|
| `waiting` | the job is in pg-boss |
| `forward`, `claim` | the worker has it (`laneOf`); the claim's update is next (`runJob`) |
| `working` | claimed; head check, token (`claimedJob`) |
| `holding` | in `build()`, the repository held; the quick phase may publish |
| `published`, `marked` | the full phase published; its row was ended (`end`) |
| `again`, `more` | the row is queued, or a quiet Build's row inserted; the job is not sent yet |
| `returning` | the handler returned; pg-boss has yet to complete the job |
| `dead` | the Builder stopped; the job is still active in pg-boss |

`row[b]` is the `builds` row: state, reason, partial, and in place of times the age that `reapBuilds` tells
apart (younger than `RESEND_AFTER`, older, past `LONGEST_JOB_SECONDS`). The reaper is split into its read of
open rows, its question to each lane and its update. Actions are named for what happens: `Insert` and `Send` are the
two awaits of `queueBuild`, `Claim` the one update of `runJob`, `TimesOut` and `SendAgain` the two halves of a
retry, and so on. Faults (a crash, a throw out of an await, a job's expiry under a live handler, a
repository that changes size) are counted, and bounded by `MaxFaults`.

Abstracted: priorities and `startAfter` (a waiting job may be fetched whenever its key is free), telemetry,
and everything a Build computes. Publication takes that up.

### Publication

One GitHub repository under the names it has had. `repos`, `index` and `r2` are the rows and the objects;
`at[b]` is a Build's handler, from `asked` over `holding` (the engine), `exported`, `loaded`, `uploaded` to
`cleanup`, which are the awaits of `build()` and `publishBuild`. It remembers where its clone and cache are
(`home`), its export, the Stored Index it loaded into, its pack, and what its transaction replaced. Homes are what
Builds wait for each other in (`HomeFree`, `holdingRepo`): a public repository's Builds share the one of its name, and a private
repository's have one each, named by the Build's id (`run.ts:173`). With `Private` a Build may find the repository
either, so two of them may overlap from their clones to their transactions. `Export` is of any head since the home was taken (`since`), as the
full clone may be older than the quick one: `caughtUp` lets a second clone that fails be (`run.ts:265`). `Commit` is
the whole transaction, `makeLive` included; `Cleanup` all that follows it. `Settle` is `settleRepository`,
`RemoveObjects` and `RemoveRow` the two stores of `removeReports`. `AtlasLooks` and `AtlasStored` are
`atlasJob`, split where it makes the Atlas. `spoiled` is history: whether a step has failed, or a fold of rows
happened, in a way that is known to leave an object behind.

Abstracted: an index or a pack is the head it was made at and whether its Mainline's lines are all counted.
Stats, people and counts, written in the same transaction, are left out. Which of two rows holds the newer
Report is a choice (`Settle`), which allows more than the code.

### ReportStore, and what implements it

A repository seen by the Site: the pack its row leads to (`served`), the packs in R2 (`kept`) and whether its
Report is being removed (`going`). `Publication` implements one for each name: `Store(n)` maps `served` to the pack of the
live index of `n`, `kept` to the objects that are packs. Every step of Publication, faults included, is a step
of every name's store or leaves it as it is (`ImplementsStore`). `Serving` EXTENDS the abstract store, so it
knows nothing of Builds but what the store allows.

### Serving

`RequestReadsRow` to `RequestEnds` are the awaits of `reportAnswer` with `packOf` and `withPack` inside it:
`memo` is `knownOf` with its ten seconds, `after` the `reportAt` a request read, and `tries` the second ask after
a pack was refused. `WarmForgets` to `WarmAsks` are `startWarming`, which works off `notices` one by one. Time
goes by in seconds, as `memo.at > (after + 1) * 1000` compares them, and passes at any step: in the middle of a
transaction, after it has stamped its Report, or of a read, before it is remembered. `overtaken` and `late` are history: the seconds
of the publications that went by while something was read, and whether what is remembered was overtaken by one of an earlier
second. `SameStamp` is whether two publications may be stamped with one second.

### Holding

`chain` is the map of promises of `clone.ts`: who holds a repository, then who waits. A job holds its
repository, brings the clone in a first run, copies its parent's line store while holding that too (a fork),
then makes its other runs. `waiting`, `going` and `used` are the gate of `admission.ts`, and `Pump` its loop,
which runs to its end in one turn. `Prunes` and `Pruned` are `prune`'s look at a lock (with the join of its
chain in the same turn) and the deletion. That a fork's parents make no cycle, and that there are finitely many
repositories, are assumptions, `HoldingAssumption`; the code relies on the first too (hazards).

### RepoState

One State: the cache on disk (`disk`, with the manifest kept beside it), the chunks and the manifest in R2
(`stored`, `manifest`), its row, the save under way and a restore for each job. A restore is started beside the
clones and awaited only by what follows a clone that came, so it has a program counter of its own beside its
job's `phase`. A chunk is uploaded (`SaveUploads`), or its upload fails: noticed, which ends the save (`SaveFails`), or not, when nothing
awaits it at that moment (`SaveMisses`; `missed` is history). `Save*` and `Restore*` are the awaits of `saveState` and `restoreState`, `Forget*` those of
`forgetStates`; a step may fail, the Builder stop, and `prune` delete the clone, at any of them.

### HeadCheck

Refs are a pair, a default branch and one other, each the number of its latest push. `covers` is what the
served pack was made from, `report` the row as Builds read it, `index` the head of the live Stored Index. A Build
reads its row (`BuildReadsRow`), asks the remote, and ends there if nothing has moved (`BuildIsKept`, by
`refsUnchanged`), else waits for the repository and makes a quick and a full clone, side by side, or the full one alone. Each phase
makes, loads and publishes, or fails; in between the full clone is caught up with the quick one (`BuildCatchesUp`), and goes on as it is
if that fails. A retry, or a Build for more lines, asks the remote nothing (`turn`). `seeds` is the nightly `queueSeeds`. Which Build's
refs are kept (`RefsOf`) is the code's rule: a first attempt's, before it cloned. The repository is a public one: the Builds of a private one do not wait for
each other, and which of the two is ahead is then open.

### Survival

`counts` are the `surviving` rows by Report version and person, `queue` and `worker` the jobs by their key,
`handler` who runs one. A handler's program counter follows `runSurvival`: hold the repository, run, mark, and when the budget
is over or the clone blobless, again with twice the budget or from a full clone. `headOf` is what a Report was
published at, `clone` where the kept clones are; Builds move both while a count waits for the repository.

### Ownership

The one computation modelled for what it computes, since what it keeps outlives it. `CameFrom` is one step of
blame (a whole file of the first parent that has it, else a line through `line_map`, a rename through
`rename_source`, a commit passed through), and `Blamed` blame from scratch, characterised by `BlamedAssumption`. A count
walks down the first-parent line to the head kept (`LineSteps`, `LineEnds`), carries unchanged files over,
walks the others (`WalkTakes`, `Walks`) and stops where owners are known. It may run out of time (`CountRunsOut`),
be killed, and what it kept may be saved and restored.

### Pulls

GitHub is a list of pull requests by the second of their last update, and a cursor a place in it. `read` is one
`readPulls`, page after page; `marks` the columns it goes on from; `rows` and `words` what is kept; `heard` is
history, the reviews a webhook or a read has told of. Webhooks (`keepPull`, `keepReview`) write at any moment and in any order, or are
lost (`HookLost`). `lateRows` and `overtaken` are history too: the pull requests whose row a webhook sent before their last update has
set back, and those of which an older review was told after a later one.

### EnginePacks

`asker[a].pc` goes over the awaits of `get` and `load`: the cell of the pack in `loading`, the fetch, counting the file in
`SizedLru`, the unpacking, counting it again under its unpacked name, opening, and forgetting what went to make
room. `onDisk` are files, `used` the names the budget counts. Which file goes first is a choice, so the model does
not depend on the order of the LRU.

### Shares

`share` and `object` are the row and what R2 holds; every upload, deletion and the clean-up has a place
between its two stores, where it may stop for good. `late` is history: objects put after a deletion had emptied R2 of them.

### GitHubCache

One key: `keptRow`, what GitHub says now and when it last said each answer (`github`, `saidAt`, history), and a flight
in each process, from the read of the row over the request to what is stored, revalidated, passed on or stale.

### Parts checked together

`MCServer` (the queue, the head check, Shared Reports, GitHub's answers) and `MCParts` (the States, Serving,
Ownership, Pulls, EnginePacks) hold parts that share no state with one another. A behaviour is of one part,
chosen in the initial state; the others stand still. It explores what each part would alone, and nothing more.
Parts that do share state meet in one module: Builds, renames, removals and Atlases in Publication, counts and
Builds in Survival, saves, restores, jobs and pruning in RepoState, publication and requests in Serving.

## What the runs check

| run | question | result |
|---|---|---|
| `server` | the queue: one Build and the quiet Build after it, three job places, a fault, a Site slow enough for the reaper to send again: are claims exclusive, do only owners end running Builds? The head check: two Builds, two pushes of two branches, the seeds: is what is left unchanged current? Shared Reports: do objects keep their rows? GitHub's answers: is what is given as fresh fresh? | holds |
| `queue_live` | does every Build asked for end, and the quiet Build after it, whichever fault happens once? | holds |
| `queue_partial` | a Build that published its quick Report and then fails ends `done`? | violated |
| `publication` | two Builds of a public repository, either under two names with renames between them, timeouts, crashes and deletions that fail, or under one with a push, a crash and a removal at any moment: is what is served stored, with its own index and its lines, never of an older head, nothing else left, and Publication a ReportStore? | holds |
| `publication_rename` | a rename in the middle of a Build: does the Report keep its Stored Index? | violated |
| `holding` | a fork's Build, a Build and a count of its parent, a Build of a third repository, with pruning: memory, clones, order, and does every wait end? | holds |
| `repo_state_outlived` | a Build gives its repository back while its restore writes: is what is moved into place whole? | violated |
| `repo_state_missed` | an upload fails while nothing awaits it: does the manifest name only what is stored? | violated |
| `survival` | two Reports, two heads, a count asked for, everyone's, a fault: is what is recorded of its Report's head, and do counts end? | holds |
| `parts` | States: is what a manifest names stored, through crashes and forgetting? Serving: are answers of a Report that was the repository's? Ownership: as blame, over a history with a merge, a rename and a revert? Pulls: is anything missed, do reviews fold alike? Engine: is every file counted, every cell in use? | holds |
| `heads_seeds` | a Build that appends and then fails: is a Report that the seeds mark checked current? | violated |
| `packs_once` | is a pack fetched once, however many ask? | violated |

### Findings

Each violated run checks one sentence of the repository's docs, comments or tests; `findings` in
`PROJECT.json` quotes it and names the line.

- `FullFailureEndsDone`: `claimedJob` knows what its own attempt published, not what an earlier one did.
- `ReportHasIndex` with renames in the middle of a Build: a rename between the load and the transaction deletes
  the Stored Index that the transaction then points at.
- `RestoredIsWhole` when a restore outlives its job: a Build whose clones fail does not await its restore, and
  the next job's restore empties the folder the first one then moves into place.
- `SavedIsStored`: an upload that fails while the next file is read is gone from `uploading` by the time the rest is awaited, so the save puts a manifest
  that names what R2 does not hold, and later saves do not upload it either.
- `CheckedIsCovered`: an appending load moves the head of the live index before the publish can fail, and the
  seeds compare with that head.
- `LoadedOnce`: an asker whose load failed takes the cell out of `loading` while others wait on it.

Also found while modelling, and left to a reader to weigh. None has a run; where a constant is named, setting it
in a run's configuration makes TLC show it.

- Queue: the attempt is kept in the job's data alone, so a Build whose job was lost is sent again as a first attempt, any number of
  times. The reaper may fail a Build that
  has a new, active job by then. A Build both kinds of seed carry may run as two jobs at once.
- Publication: a rename in the middle of a Build lets a quick Report replace one with lines. Two Builds of a private repository do not
  wait for each other (`run.ts:173`), so "A quick one never replaces one with lines" (`job.ts:291`) is not so of them; an older
  head may replace a newer one, and the first to publish drops the index the other has loaded (`Private`). A failed
  publish after an append leaves the index ahead of the Report (docs/working.md:101); a removal leaves the
  screens beside a pack; `settleRepository` drops Stored Indexes (`repos.ts:105`) whose packs nobody deletes.
- Serving: warm notices are worked off late, behind slow ones. `reportAt` is stamped before its transaction commits (`job.ts:343`), so what was
  read before, and comes to be remembered in a later second, answers for the new Report as if it had not been "read before
  `after`" (`answers.ts:41`): the history `late`, without which TLC finds `AnswersAreCurrent` violated. So it is, for want of another second,
  of a Report that is replaced within the second it is stamped with.
- Head check: a branch withdrawn, or pushed back to where it was, leaves refs ahead of the pack (`Withdrawn`).
- States: forgetting beside a Build that comes to use the State leaves a manifest with holes
  (`ForgetBeside`), and a cache that outlasts its clone is replaced under a run (`CacheMayOutlast`).
- Pulls: a null page in the middle of a whole read ends it as if it were done (`Gone`, `pulls.ts:219`); an
  update of the same second as the mark is not read (`SameSecond`); a webhook delivered late takes a row back (`webhooks.ts:144`, history
  `lateRows`). A decision told of after a later comment does not replace an earlier one (history `overtaken`): approved, then changes
  requested, then a comment, of which the second comes last, is said to be approved, since the time that `webhooks.ts:167` compares with is the
  comment's. The tests have "a reviewer's last word stands over later comments" (`apps/builder/src/pulls.test.ts:158`) of reviews in order.
- Survival: everyone's count past the last budget marks nobody (`survival.ts:124`), as its test says.
- Engine: hits in memory touch the name `.pack` though the kept file is `.unpacked` (`packs.rs:201`), so the disk goes first-in,
  first-out; screens are neither counted nor taken away with their pack; an unpacking that fails leaves its
  `.part`, and two that unpack one pack share it.
- Shared Reports: an object put after its deletion emptied R2 stays for ever (`shares.ts:39`, history `late`).
- GitHub cache: a 304 keeps the row on whatever it holds by then (`github-cache.ts:150`), so an answer may be given for
  `Ttl` and the time of a request.

### Bounds, and why they are enough

- BuildQueue: three slots hold a job, the duplicate the reaper or a slow Site sends, and the one a handler sends
  as it ends; the Site's and the reaper's sends leave one free so that no handler blocks on the bound. Two
  attempts are a first and a last one: the code only compares with `BUILD_ATTEMPTS`. One quiet Build shows the
  hand-over to the next. One fault in each behaviour; any number is the proofs' business. `queue_live` has all
  four kinds of fault and a Site that sends in time; `server` one that does not.
- Publication: two Builds (of one name they wait for each other, of two they run side by side), three Stored
  Indexes (one live, one loaded by each), two attempts; two heads where Reports are removed, and one where
  names change. The two Builds are symmetric (`SameBuilds` of `MCPublication`), whichever was asked under the old name. A public repository: with `Private` the properties that rest on Builds waiting for each other do not hold.
- Holding: four jobs over three repositories, a budget of four, and runs that fit together, fit alone, and are
  larger than the budget.
- RepoState: two jobs, since one repository is held by one at a time and only its restore outlives it; three chunks over two
  files, so that two caches share some; five rounds, enough to save, lose, restore and save again.
- Serving: two packs of one Stored Index (appended to) and one of another, a memory of two seconds over three, so
  that one is remembered, replaced, expired and read again; one publication in each second (`SameStamp`) but the last, in which none is begun (`NoNewReport`), one notice at a time; one request beside the warming, which share only
  the memory. The two packs of one index are symmetric (`SamePacks`), and so are the two Builds of
  the head check in `server` (`SameBuilds`).
- HeadCheck: two Builds, and each branch at its first push or its second (0 stands for a ref nobody read): one is read
  while another is published.
- Survival: two versions, two heads, one person and everyone, two handlers: one runs while another waits.
- Ownership: a history of seven commits with what blame tells apart (a line spaced anew and back, a rename with an edit, a
  merge in both orders), two settings, two counts and any of the seven heads for each; every history is the proofs' business.
- Pulls: two pull requests and pages of one or two, so that a read is cut between them; three updates between them, four of one that is alone (`LastIsAlone`), so that
  it is opened and reviewed three times; and two webhooks at once, so that one overtakes another.
- EnginePacks: two packs and two askers with room for two files, so that unpacking one takes the other's place. `packs_once` needs
  three askers: one fails, one waits, one comes new.
- Shares: two, two uploads, each with all ages. GitHubCache: two processes, two answers and none, a life of two
  seconds of five, requests of up to one.
- Deadlock is not checked: every model may stop when its Builds, jobs or requests have ended and no more are asked for.

### Fairness, and why the code justifies it

In `BuildQueue`, weak fairness of each handler (every git and engine run has a time limit, every update
settles), of a send, of pg-boss expiring a dead Builder's jobs, of the restart (the process manager) and of
the reaper's steps (a timer); strong fairness of the reaper's look at each Build, because a pass of
`reapBuilds` looks at all open Builds, so one that is open again and again is looked at. Two minutes pass; a
whole day need not. No fault is fair. In `Holding`, weak fairness of every await inside a job; neither a new
job nor a pruning is promised. In `Survival`, weak fairness of fetching a job and of the Builds' ends, and strong
fairness of each handler, which waits for a repository that Builds take too: the chain of promises is first in, first out, and
runs have time limits. The other modules have no fairness: their properties are about safety.

## What is proved

Every safety property of a passing run is a theorem, for any values of the constants that the module's own
assumptions allow. Where a theorem assumes more, the assumption is named here with what shows that it is needed.
Three of the six sentences that a run finds violated are theorems too, under an assumption about steps (`[][A]_vars`) that
names the one kind of step that breaks each: `FullFailureEndsDone`, `CheckedIsCovered` and `LoadedOnce`. For two others,
`ReportHasIndex` and `RestoredIsWhole`, the assumption is about a constant; what is left of `SavedIsStored` without the
chunks that step misses is proved as `StateIsStored`.

### The queue: `BuildQueue_proofs.tla`

For any sets of Builds, repositories and slots, any attempts, any set and number of faults:

- `TypeCorrect`: `Spec => []TypeOK`. In particular no job is sent past the last attempt or the last quiet Build.
- `ClaimIsExclusive`: `Spec => []OneHandlerPerBuild`.
- `OwnerAloneEnds`: `Spec => OnlyOwnerEnds`.

They assume `BuildQueueAssumption` and nothing else. `OneHandlerPerBuild` is not inductive: two jobs of a Build
may both stand at the claim, and only the row tells the second that it is too late. `IInv` therefore adds

- `Shape`: what a slot's fields say of each other (a slot that is not free has a Build, a handler at `more` has a
  child and quiet Builds left, one at `again` an attempt left), and that a reaper that read something read a Build;
- `ClaimedIsStarted`: while a handler has claimed a Build, its row is neither missing nor `queued`.

`Claim` asks for a queued row, so by `ClaimedIsStarted` nobody else has claimed it. What remains is that a row
is queued again only by the handler that claimed it (`TimesOut`), which leaves the claimed states in the same
step, and that a quiet Build's row is inserted where there was none. The lemma `SlotMoves` says once what
holds when one slot moves and claims nothing, and most actions follow from it. `OwnerAloneEnds` uses the same
invariant, action by action: with no fault counted, whoever takes a row out of `running` is its claimer
(`HandlerEndsOwn`), or a reaper that read it running.

- `FullFailureOfAFirstTry`: `Spec /\ [][FirstTries]_vars => FullFailureEndsDone`: what `queue_partial` finds violated holds as long as
  no job claims a Build that has published already, and no update that ends a Build throws. `KnowsInv` says that a handler then
  remembers (`quick`) what the row has published. Crashes, expiries, duplicates and reapers remain.

### Publication: `Publication_proofs.tla`

For any Builds and names, any number of indexes, pushes and attempts:

- `TypeCorrect`: `Spec => []TypeOK`, under the module's assumptions alone (`PublicationAssumption`, `NoneIsNoPack`).
- `ServedIsStored`: `Spec /\ [][Unraced]_vars => []PackIsThere`, of repositories public and private, with renames in the middle of Builds, and with removals of
  the same repositories. `Unraced`: no rename is settled between the two stores of a removal. It is needed: such a rename hands
  the index, whose pack is gone, to a row that is not removed. Where repositories are renamed and not removed, or the
  converse, it always holds (`UnracedAlone`). `NamedIsStored` says the same of every index, live or not.

`PackIsThere` speaks of one index and one object, but a handler elsewhere may be about to delete that object.
`IInv` says where a pack can be named, and that these places never meet:

- `Handlers`, `Pointers`, `Owners`: what a handler has made by its step; nothing points past the last id; what
  a row or a handler points at, and is there, belongs to that row;
- `NamedAreSpent`: a pack that is named anywhere is of a phase that is past its upload, so an upload makes a
  pack nobody names (`Spends` only grows, through retries and crashes);
- `Apart`: a pack that was uploaded and not committed is in no index and in no clean-up, and a clean-up's pack
  in no index. This is what makes the deletion after a commit safe;
- `Kept`: what is uploaded and what an index names is stored, the latter unless its repository is being removed.

- `IsAReportStore`: `Spec /\ [][Unraced]_vars => ImplementsStore`, and, where repositories are removed, renames are found
  between Builds (`BetweenBuilds`). The initial state is a store's, and each action is one of the
  store's or leaves it alone (`ActsAsStore`, one lemma for each kind of step): an upload stores, the
  transaction publishes what is stored (`Apart`, `Kept`), a clean-up discards what is served nowhere, a removal
  empties and then withdraws, and a rename withdraws from one name what it publishes under the other. `PacksKept` is the
  same set for all names, so a step of one repository is shown to leave what every other serves.

Of a public repository whose renames are found between Builds only (`OneByOne`; the violated run `publication_rename` shows that
`ReportHasIndex` needs the second, and with `Private` TLC finds each of these violated):

- `ReportKeepsIndex`: `Spec => []ReportHasIndex`; `NeverGoesBack`: `Spec => NeverBack`, but for a Build that takes its own quick Report
  back, from a full clone that could not be caught up;
- `QuickNeverReplacesLines`: `Spec => QuickKeepsLines`, though a quick Build looks only before its upload: what it
  found then is so until its transaction (`QuickFinds`), since whoever else could publish under its row waits for its clone;
- `NothingIsLeft`: `Spec => []NothingLeaks`, removals and crashes at any moment included. `NoneLeft` is the converse of `Kept`: as
  long as nothing is spoiled, every stored pack is live, or some handler has it, to make it live or to delete it (`Has`).

`Order` adds to `IInv` that handlers in flight hold different homes, each that of its row (`HoldsOne`); that what a
handler loaded is there for as long as its row, since only a handler of the same row would drop it
(`LoadedIsThere`); and that the Report a handler will replace is its own, or no newer than the remote was when the home was
taken (`Newest`), which what it exports is not older than (`HeadsBelow`).

### The Builder's jobs: `Builder_proofs.tla`

Survival, for any people, versions, heads, attempts, handlers and faults, from `SurvivalAssumption`:

- `SurvivalTypes`; `CountsAreOfTheirHead`: `SurvivalSpec => []CountsAreOfHead`.

A handler takes the head of its Report where it asks the engine, not when it was queued (`AtHead`), and a version's head
never changes; so what Builds publish or fetch while a count waits or runs does not matter.

Holding, for any jobs, forks without a cycle, sizes and budget, from `HoldingAssumption`:

- `HoldingTypesHold`, `RunsFitOrAreAlone`: `Spec => []FitsOrAlone`; `ClonesStay`: `Spec => []CloneStays`;
  `LetInInOrder`: `Spec => InOrder`;
- `NobodyIsStuckForGood`: `Spec => []NobodyIsStuck`: as long as anyone is in the chain of a repository, one of the steps that
  fairness is claimed for is not blocked (`CanGo`, which states their guards, as ENABLED is out of the prover's reach).

`HoldingInv`: who uses a repository is first in its chain (`HoldsWhatItUses`), so a pruner, which joins the chain too, is not;
each run is in one place (`RunsOfHolders`); a job past its first run has its clone (`HasItsClone`); and the gate
counts what goes (`GateCounts`). `Pump` lets in as many as it can at once, so the proof shows of its result, not of a single
run, that `used` is the sum of what goes.

Deadlock is two kinds of waiting that could close a circle: a fork holds its own repository and waits for its parent's, and
runs wait for memory. `WaitsInv` adds to `HoldingInv` that who waits is in the chain it waits in, and who is in a chain uses or
waits for its repository (`Joined`, `Waiters`), and that whatever waits at the gate, something goes (`GateMoves`: `Pump` lets the first in
when nothing goes). Then, were everybody stuck, who is first in each chain would wait for its parent's, and from fork to
parent one would never come to an end; but the repositories are finitely many and parents make no cycle.

### Ownership, pull requests, and the parts together: `Parts_proofs.tla`

Ownership, for any history, any settings and number of counts, from `OwnershipAssumption` and `BlamedAssumption` (blame from
scratch is where `CameFrom` leads):

- `OwnershipTypes`; `OwnersAreBlamed`: `OwnershipSpec => []OwnedAsBlamed`; `CompleteHasAll`: `OwnershipSpec => []CompleteIsWhole`;
- `CountsGoOn`: `OwnershipSpec => GoesOn`: a count of the head that is kept still has, or has found, the owners of each file that was kept
  (`GoesOnFrom`), so that keeping what it has when its time is up loses none.

`OwnershipInv` says what a count has on its way: what it goes on from is sound (`KnownOK`); down to where the
first-parent line has come, blame passes the unchanged files (`SameOK`, by `SameGoesDown`: blame takes a whole file to the
first parent that has it); a line is blamed as the line its walk has come to (`TracesOK`); owners found are blame's (`OwnersOK`); and no line of
a file taken up is lost (`NoneLost`), which is what makes a finished count complete.

Pulls, for any finite set of pull requests, sizes of a page, reviews and seconds, from `PullsAssumption`:

- `PullsTypes`, under that alone.
- `LastWordStands`: `PullsSpec => []LastWord`, under that alone. `WordsInv` says of each row what the reviews it has heard come to, in whatever order
  it heard them (`SaysOf`), with the one exception that `LastWord` itself makes.
- `KeptIsThrough`: `PullsSpec /\ []FewReviews => []KeptThrough` if no second sees two updates (`~SameSecond`), no page in
  the middle reads as a repository that is gone (`~Gone`), and no pull request has more reviews than a read takes
  (`FewReviews`: forty, `pulls.ts:54`). Each is something GitHub may do and the code does not look for; TLC shows the property
  violated where one is set. `KeptInv` says what a read answers for so far: everything its cursor has passed is kept, or on the
  page it holds (`Due`, `Held`), or was updated since and will be asked for again (`NodeStands`).

The parts that `MCParts` runs side by side, for all values of their constants:

- `PartsBehaveAlone`: `PartsSpec` implies the specification of each part, as a step of one leaves the variables of the others
  alone. So what is proved of a part holds there.
- `PartsTypes`: `PartsSpec => []PartsTypeOK`, from that and the five theorems about types.

### States: `RepoState_proofs.tla`

For any chunks, caches, files, jobs and rounds, from `StateAssumption`, in three layers:

- of every behaviour (`FitsInv`): `StateTypes`: `StateSpec => []StateTypeOK`;
- where a restore ends within its job (`~RestoreMayOutlive`, `AloneInv`): `NoCacheIsReplaced`: `StateSpec => []CacheNotReplaced`;
  `WholeIsRestored`: `StateSpec => RestoredIsWhole`. The violated run `repo_state_outlived` shows that this is needed;
- where, besides, a State is forgotten only when its cache is off the disk and nobody uses it (`Orderly`,
  `StoredInv`): `ManifestIsStored`: `StateSpec => []StateIsStored`; `LocalManifestIsHeld`: `StateSpec => []LocalIsHeld`.
  TLC finds either property violated where any one of the three flags is set. Both except what is `missed`, as the code
  does not keep them of a chunk whose upload failed unnoticed (`repo_state_missed`): nothing else makes a hole.

A restore is described by what it has open and how far it has come: the folder beside holds the files before the
one it writes, and that one's beginning, as the manifest names them (`FolderIsWhole`), since each place it writes was got
(`FillsInOrder`) from the manifest it has read (`ReadsManifest`). `SavesWhole` is the order of a save: what the disk's
manifest names, and what was uploaded, is stored, or was missed, before the manifest in R2 names it, and what is deleted after is named by
neither.

### The Site's answers and the engine's packs: `Serving_proofs.tla`

For any packs, Stored Indexes, requests at once, time a pack is remembered for and end of time, from `StoreAssumption` and `ServingAssumption`:

- `ServingTypes`: `ServingSpec => []ServingTypeOK`.
- `AnswersNeverStale`: `ServingSpec => []AnswersAreCurrent`; `AnsweredOrReplaced`: `ServingSpec => []AnsweredUnlessReplaced`, wherever the seconds pass and
  however many publications one second sees. `reportAt` is stamped before its transaction commits, so a read may bring a pack of before into
  the memory of after: both properties except a request that took such a memory (`late`), and the theorem says that there is no other way.

The invariant is about others than the request: what anybody remembers, or has on its way to the memory (`Finding`),
from the second after a publication on, is what is served, or late (`MemoIsCurrent`); a read under way finds what is served, until a publication
overtakes it (`FoundIsServed`); so what a request finds remembered since
its row is of a pack it has seen (`Trusts`), and one that is refused has been replaced (`Refused`, `AsksWithSeen`).

- `StoreKeepsServed`: `StoreSpec => []ServedIsKept`; `ServingStandsOnStore`: `ServingSpec => StoreSpec`. With `IsAReportStore` this
  joins the two ends: answers are proved of whatever store behaves so, and Publication's rows and objects do.

For any packs, askers and size of the disk, from `EnginePacksAssumption`:

- `EngineTypes`, `EveryFileCounts`: `EngineSpec => []FilesAreCounted`, `CellsAreInUse`: `EngineSpec => []NoCellIsLeft`.

A file on the disk is counted, or some load still owes it (`OwesOf`): it has yet to count it, or to delete it. Every step of a load
pays what it owed or hands it on, and a load that is over owes nothing.

- `LoadedOnceUnlessLeft`: `EngineSpec /\ [][LeavesLast]_engineVars => []LoadedOnce`: what `packs_once` finds violated holds as long as an
  asker whose load failed leaves when nobody else is on its cell. So that exit, which takes the cell out of `loading` for
  all of them, is the only way to load a pack twice at once.

### What Site and Builder share: `Server_proofs.tla`

- `RefsNeverAhead`: `HeadsSpec => []RefsNotAhead`; `KeptReportsAreCurrent`: `HeadsSpec => KeptIsCurrent`, for any Builds and pushes as
  long as branches only move on (`~Withdrawn`). `Ordered` orders what a handler knows in time: the refs it asked for are below the remote, and each of its clones, caught
  up or not, is above them, above the Report's refs and above the refs anybody has read of the row (`Says`, which holds of `covers` too). So a publication
  keeps refs that were asked for before its clone.
- `CheckedUnlessItFails`: `HeadsSpec /\ [][FailsAsPublished]_headsVars => []CheckedIsCovered` (`~Withdrawn`): what `heads_seeds` finds violated
  holds as long as no Build fails with the index ahead of what is published. So that failure is the only thing that misleads the
  seeds: not a read in the middle of a Build, for each clone holds what the seeds have read or would read now (`Kept`).
- `ObjectsKeepRows`: `SharesSpec => []NoObjectIsLeft`, with `EmptiedHasNone`: between the two deletions of a removal there is no
  object but a late one.
- `GivenAreFresh`: `CacheSpec => AnswersAreFresh`. `CacheInv` bounds, flight by flight, what it brings (`BringsSaid`), what the row holds
  (`RowIsOfItsTime`), and what the row may have become under a flight that will keep it on (`RowUnderFlight`),
  which is where the time of a request comes in.
- `ServerTypes`: `ServerSpec => []ServerTypeOK`, whichever way branches move.

### Only model-checked

Liveness (`EveryBuildEnds`, `EveryJobEnds`, `CountsEnd`): the prover reaches neither fairness nor ENABLED. Of `EveryJobEnds` the
safety half is proved (`NobodyIsStuckForGood`). The violated properties are statements the code does not keep.

Induction over data is out of the prover's reach, as the theorems for it take an operator as a parameter. Where the models need it, they do
without: `Blamed` is characterised by its one-step equation, and TLC computes it for the instance; and what holds of the sum over
a finite set (`Needs`) or of a fold over it (`reviewRow`) is proved from a smallest subset that would be a counterexample (`SmallestIsThere`), which the
well-foundedness of strict subsets gives without a parameter.

## What could come next

1. A weaker condition where the code has more than a theorem takes: `Orderly` as what `forgetStates` finds in Postgres and on
   the disk.
2. The Builder's folders: `sweep`'s look at open Builds and running jobs before it deletes (`disk.ts:156`),
   and forks whose stale facts name each other as parents (`run.ts:203`), which `HoldingAssumption` rules out.
3. BuildQueue and Publication in one behaviour: a Build that ended `done` published, or found its Report whole.

## What is not modelled

The pages, cards, UI kit, universe renderer, search, MCP and GraphQL, the landing page, the command line, analytics and most of
the engine (`crates/`): computations and rendering without shared state, which the repository's own tests compare with
fixtures. They are most of the source, so the definitions of this directory stand for a few hundredths of its lines; the files
they do cover are those where processes, stores and failures meet. The components in `PROJECT.json` give the reason for each
part that is left out, and, for a part that is modelled partly, what of it. Behaviour of services is taken from how the code
uses them: pg-boss (jobs, keys, expiry), Postgres (a statement or a transaction is one step), R2 (a put or a delete is one
step, deletes may fail), GitHub (pushes and renames come at any time).
