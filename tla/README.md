# A verification project for the agent serving stack

This directory holds TLA+ models of the parts of this repository whose
correctness depends on the order of things: what happens when agents, requests,
transfers, failures and processes interleave. TLC checks the models on small
instances; TLAPS proves the most important properties for every instance.
`src/` below is the root of the repository. Most of the program's own logic is
in the patches that it applies to vLLM (`src/patches/*.patch`); line numbers in
`PROJECT.json` are those of the patch files.

## 1. Inventory

| Component | State it keeps | Operations | Interacts with | What is hard | What makes it correct |
|---|---|---|---|---|---|
| CPU KV cache manager (`vllm-agent-grouped-offload-retention.patch`, `CPUOffloadingManager`) | rows by content key, `ref_cnt`, advertised content, eviction order; request contexts, reference sets, agents in order of use, idle turns | `on_new_request`, `retain_context`, `lookup`, `prepare_load`/`complete_load`, `prepare_store`/`complete_store`, `on_request_finished`, `reset_cache` | called by the offload scheduler, one call at a time; transfers end later | transfers of several requests in flight, sparse rows, failed and declined stores, late ends, capacity | a retained turn can always be resumed; rows in transfer stay; pressure takes whole agents, oldest first |
| Offload scheduler (same patch) | per request: windows, jobs, what is required | plan loads and stores for a step, react to finished jobs | calls the manager | sliding windows, preemption | only what is resident is loaded; every job completes once |
| Tiering manager (same patch) | promotions | `lookup`, `complete_*`, promotions between tiers | wraps the CPU manager | promotions that end after their request | a partial row is never sent to another tier |
| Admission (`vllm-kv-scope-single-flight.patch`, `vllm-generation-admission-before-response.patch`, `vllm-generation-requires-agent-id.patch`) | `request_states`, `kv_scope_requests` (which request holds an agent ID), the streams a response owns | `add_request`, `admit`, `abort`, outputs, closing of streams; batches | coroutines of one event loop; a message channel to the engine core process | awaits between two admissions, cancellation, aborts racing outputs, retries | an ID has one request in flight, also in the engine; every ID is freed; only overlap is refused |
| Input streams (`vllm-input-stream-agent-identity.patch`) | the chunks of one request | add a chunk | admission | chunks after an abort | a request keeps its ID |
| Source patch transaction (`source_patch_v1/framework.py`) | the source tree, the review diffs, backups, replaced files | `plan`, `commit`, `apply`, rollback | the file system, other processes | crashes, failed calls, outside writers | all or nothing; a half patched tree is never patched further |
| Review diff parser and compiler (`framework.py`, `compile_review_diff.py`) | none | parse, compile landmarks | the transaction | text algorithms | a hunk lands where its header says |
| Serving lifecycle (`run-agent.sh`, `stop-agent.sh`, `runtime-common.sh`) | which of the three containers exist and run, network, cache volume, socket, listeners | start, readiness, cleanup, stop | docker, relays, foreign containers | partial starts, stale files, a second start or a stop meanwhile | a start keeps what it found; a failed start leaves nothing of its own; stop clears all that is ours and touches nothing else |
| Build and pinning (`build-vllm.sh`, `save-images.sh`, `restore-images.sh`, `generate-deployment-input-manifest.sh`, `runtime-common.sh`) | the pins in `config/runtime-v1.sh`, the manifest, image tags, archives | build, save, restore, check, generate | docker, the file system, edits | pins in several places, commands that overlap or are killed, saves that do not reproduce | what is served is what was reviewed; a pin never changes without its inputs; a lost image can be restored |
| KV capacity (`vllm-kv-capacity-in-declared-users.patch`, `vllm-kv-physical-free-memory.patch`) | none | sizing arithmetic | engine start | rounding at the limits | declared users fit |
| How a generation ends (`vllm-tool-output-completion.patch`, `vllm-qwen38-separate-final-response-budget.patch`, `vllm-one-way-thinking-boundary.patch`) | output tokens, grammar position, budget start in the engine; text, protected spans, grammar position in the front end | sample and `check_stop`; `update`, `feed`, stop search; abort | engine core and front end over a one-way channel | the front end lags; stops split over tokens; a stop inside or across a call | a caller's stop never cuts a call; the first stop decides; the budget is a hard ceiling; nothing streamed is taken back |
| Qwen format parsing | parser state per stream | parse deltas | responses | chunk boundaries | the stream adds up to the batch parse |
| Vision, grammar, schema, chat template, probes | little or none | | | data, not order | covered by the repository's own units |

`PROJECT.json` lists the same components with their status and the hazards,
each at its line, with the properties that watch it.

## 2. Modules

| Module | Models |
|---|---|
| `OrderedKeys` | Python's `OrderedDict` as a set of ordered pairs: `move_to_end`, insertion, removal, the first n |
| `CpuOffload` | the CPU KV cache manager, one action per call |
| `AgentRetention` | the promise it implements: a retained turn stays whole until it is dropped as a whole |
| `MCCpuOffload` | instances: two turns of one agent, three agents sharing a head, windows with sparse rows |
| `OrderedKeysProofs` | lemmas: what each operation of an insertion order leaves |
| `CpuOffloadProofs` | theorems about `CpuOffload`: types, references, the promise kept |
| `CpuOffloadAccountProofs` | theorems about `CpuOffload`: contexts, transfers, rows, pressure |
| `Admission` | admission, abort, streams, the channel to the engine core |
| `MCAdmission` | two batches in opposite order and a chat call over two IDs |
| `AdmissionProofs` | theorems about `Admission` |
| `ServingLifecycle` | start and stop of the serving containers, run from several shells |
| `MCServingLifecycle` | one shell beside faults and foreign objects; two shells that overlap |
| `ServingLifecycleProofs` | theorems about `ServingLifecycle` |
| `ReleasePins` | the pins of image and archive under build, save, restore, check and manifest |
| `MCReleasePins` | two shells, two sources, two ways a build or a save may come out |
| `ReleasePinsProofs` | theorems about `ReleasePins` |
| `OutputEnd` | how one generation ends: `check_stop` in the engine, stop strings in the front end |
| `MCOutputEnd` | three stop strings, two of which may end at one character |
| `OutputEndProofs` | theorems about `OutputEnd` |
| `SourcePatch` | the transaction's plan, commit, rollback, and its environment |
| `AtomicPatch` | the promise: the tree is patched as a whole, or a report says why not; a mixed tree is refused |
| `MCSourcePatch` | a patch set that edits, creates and deletes a file |
| `SourcePatchProofs` | theorems about `SourcePatch` |

The systems do not share state. The manager and the transaction run in processes
of their own, admission and the output path reach the engine core only by
messages, and the scripts work on docker and on files that nothing else here
writes. Each module therefore stands alone, with the side it talks to inside it:
the transfers in `CpuOffload`, the engine's channel in `Admission` and
`OutputEnd`, docker and the relays in `ServingLifecycle`.

### CpuOffload

`retention` holds `_contexts`, `_references`, `_agents` and `_idle_context`;
`blocks`, `refCnt`, `available`, `complete` and `evictable` are the rows.
`phase`, `need`, `loading` and `storing` stand for the scheduler that calls the
manager: which requests live, what each requires of a key, and the transfers
that have started and not ended. A key is a number, its place in a prefix.
The content a key names is a set of units, so that a sliding window whose row
holds only a part can be told from a whole one. Slot numbers, events, metrics
and the wording of errors are left out. The scheduler calls the manager under no
lock because it is one thread; what interleaves are the calls of different
requests and the ends of their transfers.

### Admission

`phase`, `admitted` and `streams` are the coroutine of each HTTP call,
`states` is `OutputProcessor.request_states`, `inFlight` is
`kv_scope_requests`. `toEngine`, `engine` and `outputs` are the channel and the
engine core process, which is not part of the repository: it is modelled from
the messages the frontend sends it and the outputs it handles. An action is a
stretch of code between two awaits. A submission suspends in
`add_request_async` with its state and its ID already registered; it may reach
the engine and still fail (`SubmitFails` from "sent"). A batch admits its
conversations one after the other and closes what it admitted when one is
refused; the order in which it closes them is left open. Resumable inputs,
pooling requests (which carry no ID) and the death of the engine are left out.
So is the loop of a Responses call with built-in tools, which submits one request
after another under one ID: each turn ends before the next is admitted, like two
calls in a row. What a call asks for is fixed at first (`RequestsOf`).

### SourcePatch

`tree` maps each path to its text and mode, `artifacts` says whether the review
diffs are the recorded ones, `originals` are the backups, and the first `done`
files of `Changed` are in `replaced`. Steps are cut where the file system may
change or the process may end: the guard (`Check`), the replacement (`Write`) and
the entry in `replaced` with the directory's fsync (`Record`) are three steps.
A plan reads many files in one step; the capture that follows reads each
changed file again in a step of its own, so a write between two reads is a write
before the capture. `Fail` stands for every call that may raise, `Interrupt`
for an exception between two statements, `Crash` for a kill; `Drift` and
`DriftArtifacts` for other processes. The stages of a patch set are inside
`Verdict`: their landmarks and line arithmetic are functions of the texts that
the hashes already fix. Temporary files are left out, and so is mode 0, which a
rollback turns into 0644.

### ServingLifecycle

`maker` says for each object that docker or the relays hold (backend, bridge,
ingress, socket) which start made it, if any or someone else; `running`,
`ready`, `volume` and `foreignListener` complete the host. Each shell runs one
command, step by step through `pc`; `todo` is what it still has to remove and
`made` what a start has recorded for its cleanup. `alone`, `seen` and `trouble`
are history: whether another command of ours overlapped, what the command found
when it began, and whether a docker call failed under it. The contract a
container must meet is one predicate, since the scripts compare it as a whole.
Where a script looks and then acts, these are two steps: the volume is inspected
(`CheckVolume`) and then created (`CreateVolume`, which takes a volume that
another start made meanwhile), and the cleanup checks the flag and the identity of
a container (`CheckMade`) and then stops and removes what has its name by then
(`CleanContainer`). The one docker call there that nothing guards, an inspect, ends
the cleanup where it fails or the container is gone.
Assumed: foreign objects appear only while no stop is under way and no cleanup is
between these two steps, and leave only while no command runs; what one check reads,
it reads at once; the relay refuses a socket that exists, and a socket stays when
its relay ends. Starts and faults
are bounded by `MaxStarts` and `MaxFaults`.

### ReleasePins

`files` are the sources, the lock and the manifest, `docker` the tags, the archives
and `saving`, the staging names beside the archives; `work` is what each running command carries, most of all `env`,
the configuration as it was when the command sourced it. The check sources it a
second time when it comes to `build-vllm.sh`, and that is an action of its own
(`SourceAgain`). `Settle` is `settle_produced_identity`: adopt, refuse or
rewrite, then the lock is written beside itself and moved (`StageLock`, `MoveLock`).
The lock's file also declares the release, so what the move puts back is both: a
pin that another command wrote in between and a release that was declared in between
are lost. All saves of a release write under one staging name (`saving`): a second
save removes or overwrites what the first one staged, `Observe` hashes what is there
by then, and `KeepArchive` renames that, or fails if it is gone.
`Breaks` is a kill, a failing call or a failing unit at any step; `Lose` removes
an image or an archive; `Edit` is a change of the sources. A build or a save may
come out in one of `Variants` ways, of which `Usual` is the one pinned first.
Left out: identity tags, the relay's image, the base image, git cleanliness and
what `build-vllm.sh` verifies inside an image. Bounds: `MaxOverlaps` commands
beginning beside another, `MaxEdits`, and `MaxFaults` breaks and losses together.

### OutputEnd

A token is named for what it is to the grammar (`open` arms a call, `shut`
closes one, `tail` closes one and goes on, `close` is `</think>`), and its text
is a sequence of characters, because stop strings cross tokens and closing
wrappers. `Step` is one turn of `_update_request_with_output`: append, the
budget's start, `check_stop` with the suspension of caller stop tokens, then the
grammar. `Receive` is one `update` of the front end, at any distance behind:
decode, `feed` the checker, search, cut, discard spans, stream. Search window and
disposal are modelled as written. The code's list of protected spans is a set
here: its spans lie apart and in the order of their ends, so the last of the list
is the one a next character may extend. `Occurrences` is the reference, one search
of the whole text. Grammar and decoder are external; a forced grammar
accepts no text between calls, which leaves out the white space that it allows.
`check_stop_strings` returns at once when there is no new text (upstream's
guard, outside the patch); which of two stops that end at one character it takes
is upstream's too, so neither the model nor its properties say. A stop token that is itself the only token the
grammar allows is left out. Thinking budgets and `ignore_eos` are left out.

## 3. Runs

| Run | Question | Instance | About |
|---|---|---|---|
| `turns` | do contexts, agents and promises hold when turns overlap and end late? | 3 requests of 2 agents, one prefix of 2 keys, 2 rows | 132,000 states |
| `pressure` | what does a full tier take, and from whom? | 3 agents, keys partly shared, 2 rows | 71,000 |
| `windows` | do sparse rows, fills and failures stay consistent? | 2 agents, a key with two units | 75,000 |
| `calls` | does single flight hold, in the frontend and in the engine, and is every ID freed? | two batches in opposite order, a chat call, 2 IDs, with fairness | 488,000 |
| `patch_drift` | is only a pristine tree patched, success the whole result, and does a failed commit undo what it recorded? | 4 files, 2 outside writes, interrupts, crashes | 363,000 |
| `patch_atomic` | does the transaction implement `AtomicPatch`? | the same without outside writes | 218 |
| `patch_interrupt` | does the rollback know of every file replaced? | expected violation, see below | |
| `patch_window` | is every change after the plan refused? | expected violation, see below | |
| `serving_host` | what may a start or a stop touch, what does a failed start leave, does every command end, does stop clear everything in the end? | one shell, faults, foreign objects, with fairness | 46,000 |
| `serving_overlap` | what survives two commands at once? | two shells | 1,553,000 |
| `release` | is what passes the check what was reviewed, and can it be restored; do builds and checks come to pass after a crash? | 2 shells, 2 sources, one overlap, edit and fault, with fairness | 453,000 |
| `output_end` | where does a generation end, for the engine and for the client? | outputs of up to 5 tokens, every combination of the request's parameters | 962,000 |

What the bounds must reach, and do. Two rows are fewer than the keys in use, so
stores are declined, rows are reclaimed and agents released; three requests let
one agent have a turn that ends after the next one began, while another agent's
transfers are in flight. Two IDs in opposite order are the least that two
batches can block each other with, and a third call takes an ID between an abort
and its arrival. Three changed files are one of each kind, and leave a file
before and after the one at which a commit stops; two outside writes can hit one
file twice, back to what it was, or two files. One start, killed or failing
anywhere, followed by stops, meets every object in every state it can be left
in; two shells put any step of one between any two of the other. In `release`
one overlap, one edit and one fault let a save, a restore and a check meet, and a
command die half way; the safety properties were also run with two edits and no
fault (1.4 million states). Five tokens are a call, its closing and a stop of three
characters after it. The bounds are the cardinalities in each `.cfg`, `MaxDrift`,
`MaxStarts`, `MaxFaults`, `MaxEdits`, `MaxOverlaps` and `MaxTokens`; nothing else
is cut off.

Every property of a passing run has a mutant, an operator beside the one it
replaces that changes the model as a plausible slip in the code would; TLC finds
the property violated with it.

### Disagreements with the text of the repository

Two are runs that expect a violation.

`patch_interrupt`: `src/README.md:467` says the patcher "performs atomic
transactions with rollback", and the rollback catches `BaseException`, so
interrupts are meant to be covered. A file enters `replaced` only after
`os.replace` has returned; an interrupt between the two statements leaves it
patched, and the rollback reports no error. The exception still tells the
caller to discard the tree.

`patch_window`: the comment on `commit` (`framework.py:1043`) says that planning
again rejects drift since the caller's plan. The originals are captured after
that second plan and not compared with what it read: a file written between
the two passes the guard, and its change is overwritten.

Found while modelling and stated as premises of the properties instead:

- Overlapping starts. The cleanup of a failed start removes any socket of the
  right type (`run-agent.sh:242`), also one that another start made, against
  "Cleaning only components created by this failed start attempt" (`:200`).
- A container that `docker run` made and could not start is not recorded as made
  (`run-agent.sh:286`); the cleanup leaves it, against `src/README.md:89`.
- The cleanup counts a docker call that fails and goes on, except for one
  (`run-agent.sh:228`): under `set -e` that one ends the cleanup, and the containers
  after it and the socket stay until the next stop.
- A cache volume made but not yet given its owner is refused by every later start
  (`run-agent.sh:162`) and no command repairs it, though
  `stop-agent.sh:127` says "To start it again: ./start.sh".
- A restore beside a save moves the tag between the save's check
  (`save-images.sh:33`) and its `docker save` (`:75`): an archive of another image
  is pinned, and every later save is refused until the lock is edited by hand.
  Premise of `SavedIsRestorable` and `EventuallyPasses`.
- The check before serving never compares `IMAGE_ARCHIVE_INPUTS_SHA256` with the
  pinned image (`runtime-common.sh:317`): after a new pin without a new save it
  passes, although a restore gives another image.
- `restore-images.sh` lets `docker load` move the tag before it compares: with a
  stale archive the tag leaves the pinned image, against "IMAGE_TAG names the
  pinned image and nothing else" (`config/runtime-v1.sh:39`).
- A release declared, or a pin written, between the copy of the lock and its rename
  is lost (`runtime-common.sh:96`, `:98`), against "Rewrites exactly the named ...
  lines of the lock and nothing else" (`:80`).
- A save killed between writing the pin and writing the manifest, run again,
  reports the archive present and does not write the manifest.
- A check that is held up while a whole manifest and build of a newer release run
  between its two readings of the lock passes with parts of both. It takes two
  overlaps; `PassedIsReviewed` has the premise that there was at most one.

## 4. Fairness

`calls`, `serving_host` and `release` assume some.

`calls`. `FairSpec` asks that an await of `add_request_async`
ends, that the engine core receives what was sent and finishes what it runs
(every request has a token limit), and that the output handler runs; these are
the loops of the event loop and of the engine core process. Nothing is assumed
of clients: they may stop reading for ever. Without fairness on closing a
stream, the ID of an abandoned call is freed by its request's last output.

`serving_host`. A command that has begun goes on, a container that runs becomes
ready or dies (every wait of the scripts has a limit), and the user runs stop
again as long as something is left, as the scripts' messages tell them to.

`release`. A command that has begun goes on; a command that the state calls for
(`Needed`: build after an edit, save after a build, and so on) is begun in the
end; and a build or a save that is repeated again and again comes out as pinned
some time. The last is strong fairness and is the repository's own premise:
"docker save does not always reproduce its bytes" (`save-images.sh:86`).
`EventuallyPasses` further assumes that in the end only needed commands begin.

`output_end` needs none: the outputs are bounded, its states form no cycle, and
its deadlock check shows that only a request that is over stops.

## 5. Deadlock

`CpuOffload` and `Admission` have a fixed set of requests and may come to an end
when all of them have, so their configurations switch the deadlock check off. A
patch transaction, a serving command and a release command can always be run
again: their runs check for deadlock. `OutputEnd` names the one state in which
everything may stop (`Over`), and is checked for deadlock too.

## 6. What is proved

The proofs hold for every value of the constants that satisfies the named
assumptions, which state no more than what the code guarantees (an agent ID per
request, keys in prefix order, a request in one place of one call, distinct IDs
in one batch, distinct paths in `changed_files`, that a file whose final text
differs from its pristine one is among them, that `min_tokens` is no more than
`max_tokens`, that no stop string is empty, and that `None` is no value it stands
beside).

An argument by induction over a number, a set or a text is made with a least
counterexample: the finite subsets of a set are well founded under inclusion
(a theorem of the library), which gives every set of numbers a least one, every
order a first key, and the folds of the community modules their values.

`CpuOffloadProofs`. The working sets, the reference sets and the agents are
three views of one relation, and idle turns are live contexts; with
"every idle turn is covered by resident rows" this is inductive. Eviction keeps
it because a row is reclaimed only when no surviving context refers to it, and
a failed store keeps it because it drops the contexts that referred to the row.
Proved: `TypeCorrect`, `ReferencesAreExact`, `RetainedTurnsAreServable`, and
`ManagerKeepsPromise` (the refinement of `AgentRetention`).

`AdmissionProofs`. Single flight in the engine is not inductive: it follows from
the order of the channel. The invariant says that between two submissions of one
ID lies the abort of the first, where the requests that the engine runs count as
submissions before all messages; that a submission without a state in the
frontend is followed by its abort; and that a finished request is nowhere in the
channel. Proved: all the safety properties of the module, `TypeCorrect`,
`ScopesAreExact`, `SingleFlight`, `NoOrphanedWork` and
`RefusalsAreJust`.

`SourcePatchProofs`. The invariant says how far the commit is: of the files that
nobody else wrote, those before the current one are final, those after it
pristine, the captured ones pristine; none is ever in a third form. Proved:
`TypeCorrect`, `SuccessIsFinal`, `FailureIsUndone` (every file that the commit
recorded as replaced is back; the one an interrupt kept out of the record is
`unrecorded`), `PristineIsPatched`, and `PatchIsAtomic`, the refinement of
`AtomicPatch` (without interrupts and outside writers).

`CpuOffloadAccountProofs`. The manager's books, on top of that invariant. The
contexts are exactly those of requests under way and of idle turns, one order
holds each agent that has one, and the idle turns number at most the chunks: the
bound is enforced in one call only, so the invariant must show that no other call
can add a turn without taking one. For the rows, `ref_cnt` is the number of
readers and writers, no writer shares a row, and exactly the rows without either
are in the eviction order; the number of rows in the tier grows by what a store
adds and was evicted before. A store's search for room is a choice of the
smallest prefix of that order and of the order of agents, so `OrderedKeysProofs`
says what a prefix of an order is. Proved: `ContextsAreAccounted`,
`RetainedTurnsAreBounded`, `TransfersArePinned`, `CompleteRowsHoldAll`, and the
action properties `ContextsAreUndisturbed`, `DeclinedStoresCostNothing` and
`ReleasesAreNeeded`. With these every property of the three `CpuOffload` runs is
a theorem.

`ServingLifecycleProofs`. Nothing keeps two commands apart, so hardly anything is
invariant at large: only what the volume can be once a start has passed its
check, that nothing is foreign once a stop has surveyed the host, and that what a
cleanup is about to remove it has made and is not foreign (`CheckHolds`). Everything
else a command may count on only while it ran alone, and the invariant says, for
each step of a lone start and a lone stop, what it has made, what it found and
what is still to be removed. Proved: `TypeCorrect`, `BackendsHaveTheirVolume`,
`ForeignIsUntouched`, `StartsKeepToTheirOwn`, `OneStopIsEnough`: all safety
properties of the module.

`ReleasePinsProofs`. `OnlyReviewedIsPinned` says that the lock pins an image only
after its units passed and beside the digest of what it was built from, whatever
commands overlap, break or are repeated, for any number of shells, sources and
variants. It is not inductive as it stands: the invariant adds, for each step of
a command, what the identity it carries was made from and what the copy of the
lock it has staged may differ in. The other properties have a premise on
overlaps, and a larger invariant (`FullInv`, which TLC also checked, with three
shells and two overlaps too): a tag, an archive and a staging name of a release hold an image of
that release (`History`); without overlap no pin and no manifest is of a later release
than the files, also where a declared release is lost (`RisingInv`), and what the one
command sourced is what is still pinned (`AloneInv`); with one, at
most two commands run (`Company`), and for a check and the command beside it,
where the pin, the tag and the manifest stand between the old release and the new
(`BesideInv`). The last is why a check cannot take two releases for one: the build
moves the tag before it places the manifest. Proved: `Invariance`, `TypeCorrect`,
`OnlyReviewedIsPinned`, `AloneOrTwo`, `ChecksPassTheReviewed`,
`PinsAreReproduced`, `SavesRestore`: all safety properties of the module.

`OutputEndProofs`. The engine's limits: while a request runs it is below both, and
the budget counts from the first explicit closer, whatever `min_tokens` says
(`Counted`). The stream: what was sent stays behind the text by the length of the
longest stop less one, and a stop that is found uses a new character, so it starts
no earlier than what was held back (`HeldBack`). The two followers of the grammar:
the front end is behind by its unread messages and by nothing else, that is, a
chain of moves over those messages leads from its place to the engine's
(`Behind`); the checker's fold over a token's characters moves it as the engine's
fold over what it keeps of the token. The stops: `Whole` places the engine, the
checker and the client's text in one flattened output. Of every output, at every
offset, it is known where the grammar stands (`Stands`), that a further token
changes none of it, and that the grammar reads nothing before the offset where
the reasoning ends (`Hidden`). The engine stands where its whole output leads, the
checker where the part of it that was read leads, and from the text's end back by
the length of the longest stop the protected spans hold exactly the characters
inside calls (`Tracks`), which is what disposal must leave. So the windowed search
meets exactly the stops that a token completes outside every call
(`HitIsOccurs`), and one that a token does not complete was met before
(`OccursLater`): text that is not yet cut has none (`Unmet`), and a cut is at a
first (`FirstAt`). Proved: `LimitsHold`, `StreamIsFinal`, `FollowersAgree`,
`CallsAreKept`, `FirstStopEnds`: every property of the run.

Only model-checked. The liveness properties `ScopesAreFreed`, `CommandsEnd`,
`EventuallyCleared` and `EventuallyPasses`: this prover does not reach fairness.
The two runs that expect a violation show behaviours, which need no proof. Every
other property of every run is a theorem.

## 7. Plan

1. Done: the CPU manager, admission, the source patch transaction, the serving
   lifecycle, the release pins and the end of a generation.
2. Done: every safety and action property and both refinements are proved.
3. If the code in this repository grows there: the scheduler's windows and jobs
   composed with `CpuOffload`, promotions between tiers, resumable inputs.

## 8. Not modelled, and why

- *Most of the lines under `src/patches`.* 130,097 of the repository's 157,152
  counted lines are `generated_vllm_stages.py`, text that a tool writes from the
  patches, and 7,502 are `contracts_vllm.py`, predicates over Python source text.
  Neither keeps state or decides an order. What a map of this project can cover
  is in the patches and scripts, a small share of that count.
- *Scheduler, tiering manager, resumable inputs.* The patches change parts of
  upstream classes whose bodies are not in the repository: the request queue, job
  table and promotion loop that a model would need could only be guessed. How the
  scheduler calls the manager is in `CpuOffload`.
- *Review diff parser and compiler.* Functions of text with no state; the hashes of
  the result fix it, and the repository's units run them on every file.
- *A patch set whose later stage deletes what an earlier one created*
  (`framework.py:1128`): planned well, it fails in the commit and is rolled back.
  No stage does it and no text promises it.
- *KV sizing.* A few arithmetic lines around values that upstream code computes.
- *Qwen format parsing.* The streaming parser is upstream code; the patches change
  single rules in it. Its one-way boundary is in `OutputEnd`.
- *Thinking budgets.* The tracker that forces the closer is upstream's; the patch
  adds the boundary at which it stops forcing.
- *Vision, request schema, sampling rules.* One request, one function; covered by
  the repository's units.
- *Probes, units, audits.* They are the tests; read here as documentation.
