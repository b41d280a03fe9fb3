# TLA+ verification of SWE-Master

SWE-Master trains and runs software engineering agents. This directory holds
TLA+ models of its own core logic, the TLC configurations that check them, and
proofs checked by TLAPS. Paths below are relative to `src/`.

## 1. The system

| Part | State it keeps | Operations | Talks to |
|---|---|---|---|
| **Request router** `DeepSWE_RL/rllm/rllm/router/router.py` | usage count per server, home server per application | `get_address`, `release_address`, `generate_sequences` with retried posts | called by every trajectory's model query; coroutines of one event loop |
| **Engine, one trajectory** `.../engine/agent_execution_engine.py`, `agents/swe_agent.py`, `agents/utils.py`, `environments/swe/swe_arsenal.py` | tokens, masks, budget, reason, reward, container | `run_agent_trajectory_async` inside `run_agent_trajectory_with_retry` | router, thread pool for environment calls, containers |
| **Engine, a batch** same file, `trainer/verl/agent_ppo_trainer.py` 830-875 | set of tasks, thread pool, results, queue | `trajectory_generator`, `generate_agent_trajectories_async` | event loop thread fills the queue the training loop reads |
| **PPO trainers** `trainer/verl/agent_ppo_trainer.py`, `agent_ppo_trainer_pipeline.py` | batches, groups by prompt | `fit_agent`, `_transform_agent_trajectories`, replay queue | engine |
| **rllm environments, agents, parsers, tools, rewards** | one simulator, one text, one MCP connection each | `reset`, `step`, parse, score | engine |
| **R2E-Gym agent** `R2E-Gym/src/r2egym/agenthub/agent/agent.py` | history, steps, exit reason | `run`, `model_query` | memory, environment, model server |
| **Memory** `.../memory/memory.py` | single summaries, windows in the history, two counters | `compress_history` | agent, model server |
| **Run driver** `.../run/edit.py`, `environment/env.py` | trajectories of the iterations, `done` | `runagent`, `run_agent_with_restarts`, `runagent_multiple` | agent, container |
| **Docker runtime** `.../runtime/docker.py` | a container | start, run, reward, stop | docker daemon |
| **In-container tools** `.../tools/` | undo history on disk; the LSP daemon's pending requests and documents | `file_editor`, `str_replace_editor`, `lsp_daemon`, `lsp_tool`, search, bash | called by shell commands |
| **Collection driver** `trajectory_collection/collect.py`, `build_dataset.py` | `trajectories.jsonl`, its sidecar, sets of images, worker pool | quarantine, resume, pull, roll out, append, remove | docker daemon, one rollout process per instance, `runagent` |
| **Analysis, verifiers, mining, SFT preparation, serving scripts, SWE-smith** | files | one-pass scripts; vendored code | - |

Two pipelines use these parts. In **RL**, the trainer makes a batch of
environments, the engine runs one coroutine per environment, each asks the
router for tokens and calls its environment on a thread pool, and results go
through a thread-safe queue to the training loop. In **collection**, the driver
runs `runagent` as a subprocess per instance; it runs the agent loop on a
container and leaves one record, which the driver appends to a file that later
runs resume from.

### What is hard

* **Concurrency.** Router calls interleave at every `await`. An environment
  call that timed out still occupies its thread. The trajectory, the thread
  pool, the event loop and the training loop's thread share a batch. Collection
  workers pull images while the main thread removes them, with no common lock.
* **Failure.** Posts fail and are retried or cancelled; trajectories are
  retried on an environment that keeps part of its state; a generator may raise
  with its consumer waiting; the driver may die inside an append, between the
  two steps of the quarantine, or with rollout processes alive.
* **Boundaries.** The token budget (equal, over by the answer, over by the
  observation), the router's skew rule, the window arithmetic of the memory.
* **Stale facts.** `has_container` after a second reset, `RepoEnv.done` after a
  submitted run, `info` after a step that raised, a port file of a closed daemon.
* **Alignment.** A training step joins two columns by position; results arrive
  in any order, some are empty, and rows are dropped and repeated four times.
* **Numbers shared by two peers.** The language server numbers its own requests
  independently of its client, and both kinds carry an `id`.

Each of them is listed in `PROJECT.json` under `hazards` at its line, with the
properties aimed at it.

### What makes each part correct

* Router: the usage it balances on is the calls in progress (plus the ones lost
  to failures); applications move only for a gain; every call ends.
* Trajectory: the loss mask selects what the model wrote, whatever the exit;
  the budget is exact; the reward follows from the reason; it terminates.
* Batch: every trajectory's result reaches training once; the model is awake
  while one runs; the consumer is told of the end.
* Collection: a rollout keeps its image; no record is lost or doubled across
  crashes; images are reclaimed; a run ends.
* Agent and memory: compression loses and repeats nothing, keeps the recent
  turns, bounds the prompt; the exit reason tells the truth.
* Training step: every row stays beside its prompt and its reward, an advantage
  is computed against trajectories of the same prompt counted once, a
  trajectory is trained on as a whole.
* LSP daemon: a call gets the answer to its own request or an error, and ends;
  the port file never leads to a daemon that closed, and is never left empty.
* Editing tools: the undo history is a stack of the texts that edits began
  from, or is lost as a whole; no edit destroys its old text.

## 2. Modules

| Module | Role |
|---|---|
| `Router` | the router with its clients, as a state machine |
| `AgentTrajectory` | one trajectory over all its attempts |
| `RolloutBatch` | several trajectories (by their environment calls only), the pool, the generator, the queue |
| `PpoBatch` | one training step: from the results of a batch to the rows the actor is updated with |
| `CollectPromise` | abstract specification of a resumable collection |
| `Collect` | the driver in detail; `Promise` is the refinement mapping to `CollectPromise` |
| `MCCollect` | assignments of images to instances for TLC |
| `AgentRun` | agent loop, memory compression and the loop of restarts or iterations |
| `LspClient` | one language server daemon: calls, its two queues, the server's process, shutdown |
| `LspSession` | the daemons of one container over the life of an agent, and the port file |
| `EditorPromise` | abstract specification of an undo history |
| `Editor` | the editing tools with their history on disk; `Promise` maps it to `EditorPromise` |
| `RouterProofs`, `AgentTrajectoryProofs`, `CollectProofs`, `AgentRunProofs`, `LspClientProofs`, `LspSessionProofs`, `EditorProofs` | the theorems about the module of that name |
| `TrainingProofs` | the theorems about `RolloutBatch`, about `PpoBatch`, and about the two together |

`RolloutBatch` composes trajectories at the level of what they do to the pool;
`AgentTrajectory` has their inside. `PpoBatch` begins where `RolloutBatch` ends,
with one result for each trajectory in any order (`RolloutsMakeABatch` proves that
it ends so). `LspSession` composes daemons
at the level of their life; `LspClient` has their inside. Definitions named
`X_suffix` are plausible wrong forms of `X`: each property has one that it
refutes (`mutants` in `PROJECT.json`).

### How states and actions correspond to the code

**Router.** `usage` is `_usage`, `home` is `_application_id_to_address`. `GetAddress`
is the body of `get_address` under its lock; `LeastUsed` is Python's `min` over
the dictionary's items (first least in insertion order). `serving`, `tries` and
`lost` belong to the callers: `lost[s]` counts calls on `s` that ended without
`release_address`, because the last post raised (`RaisePost`) or the engine's
`wait_for` cancelled the trajectory (`Cancel`). An application has one call at a
time, as the engine awaits each answer.

**AgentTrajectory.** A token is known by its author (`model`, `env`, or `stop`
for the message the engine invents for an environment without container).
`pc` names the `await` at which the coroutine stands. `EnvStepReturns` covers
lines 408-507: recompute the tokens, cut when over the budget, keep or drop the
observation. `opts` carries the two options that change control flow
(`enforce_max_prompt_length`, `overlong_filter`). `AttemptFails` is any
exception or the two-hour deadline; `NextAttempt` and `GiveUp` are the retry
loop. `stepping` remembers an abandoned `env.step` that still executes.

**RolloutBatch.** A trajectory is the sequence of its environment calls
(`reset`, `step`, `reward`, `close`); each is a job of a pool with as many
workers as environments. A job that timed out leaves the pool's queue if it had
not started, and otherwise keeps its worker: `stuck` counts those. `gen` is the generator,
`queue` and `got` the queue and what the training loop took from it; the
sentinel is the `None` of line 850.

**Collect.** `phase` is the main thread: quarantine in two steps (`moved` in
between), filter, stream, end. `task[i]` is the worker's progress on instance
`i`: it waits for the image's lock (`lock`), for the pull semaphore (`sem`),
pulls, rolls out, and is `finished` until the main thread has processed it.
`Process` is one turn of the `as_completed` loop: append, count down the image,
hand it to `Offload`. `Crash` and `CrashInAppend` drop the memory of the run,
leave the daemon's images, turn running rollouts into `orphans`, and may cut
the last line (`torn`). The lookups and updates made under one `with lock` are
one action.

**AgentRun.** `history` is the list of messages, each with the turns it is
about; a summary also has the step at which it was made. `NeedsCompression`,
`NewSingles`, `WindowMessages`, `KeptMessages` and `CompressedHistory` follow
`compress_history` expression by expression, with Python's slices (`[-0:]`
included). `Turn` is the rest of the loop's body, `ExitReason` its `if` chain.
`RunReturns` is the double loop of `run_agent_with_restarts`; `envDone` and
`container` are the only state two runs share. The command line is chosen in
`Init`, so that one run of TLC covers several.

**PpoBatch.** A row of `batch` is one trajectory (token mode) or one of its
steps. `uid` is the prompt that stands beside it, joined by position as `union`
does, `last` and `pad` the columns `is_last_step` and `is_pad_step`. `steps` and
`reward` are what the engine returned, `blank` the responses without a token: in
token mode the whole response, empty when the first `env.step` was given up on or
could not be encoded (`AgentTrajectory!EmptyIsEarly` says when), in step mode an
answer that was only the end token. A row without response has score 0. `mode`,
`reject` and `world` are the settings.
`Collect` is `generate_agent_trajectory` or `generate_agent_steps` with the
repeated prompts and the padding; `Sample` the rejection sampling and its
rounding; `Advantage` the three ways of computing advantages; `PadAndUpdate` the
last padding. An advantage is not a number here: it is known by the trajectory
it is for (`of`), those it was compared with (`against`) and the number of rows
in the group (`rows`); `NoAdv` is also the `nan` that broadcasting the mean over
an empty response gives. An input on which the code raises leads to `crashed`.
The world sizes of the workers are taken to divide that of the actor.
Rows are addressed by position, as the tensors are: `Pick(rows, P)` is a selection
with a mask or a list of indices (`Nth`, `InOrder`), `RowsOf(order)` the steps of
the results one after the other, `Repeated(count)` and `PromptColumn` the
prompts beside them, and `ByIdx` the sort by `idx`.

**LspClient.** `pending`, `writeQueue` and `nextId` are the fields of
`LSPClient`; `result[c]` is where the handler of a call stands. `SendRequest` is
`send_request` up to its `await`. `WriterStep`, `ReaderStep` and `ReaderEnds` are
the two tasks; the reader matches by the id only, so a request the *server*
makes (`ServerAsks`) is taken for an answer if a call waits under that id, and
its caller finds no result in it (`error`). `CloseClient` cancels both tasks
before it sends `shutdown`, in the order of the code. `DaemonEnds` is the end of
`asyncio.run`, which cancels the handlers. The server's process is external.
Document versions and their open, change and close are left out: no `await`
separates reading a version from queueing the message with it.

**LspSession.** `pc` is the driver and the environment (`initialize_lsp` with its
look into the log, the retry, the agent, the last shutdown), `phase[d]` the life of
each daemon, `portFile` the file they share. Opening the port file and writing to it
are two steps, and a daemon may write to a file that was unlinked between them.
Every way a daemon ends is there: its language server does not start
(`DaemonInitFails`), it cannot listen or open the file although the log already
reports success (`DaemonListenFails`), it cannot write the file (`DaemonPortFails`),
a tool of the driver or of the agent itself asks it to (`ToolShutdown`,
`AgentShutdown`), a SIGTERM or SIGINT does (`DaemonSignalled`), or it is killed and
runs no more code (`DaemonKilled`). The pauses of `initialize_lsp` order nothing, so
daemons take their steps at any time.

**Editor.** Each command is a process: `Start` loads the history, `Refused`,
`Create`, `Edit` and `Undo` run the command, `SaveOpens`, `Save` and `SaveFails`
write the history back, also after a `view`. `Killed` is the `timeout` prefix of
`docker.py` 1141, which may strike anywhere, also inside a write. `before` and
`loaded` remember the file and the history the tool began with; the refinement
shows those until the tool has ended.

## 3. Runs

| Run | Instance | Shows |
|---|---|---|
| `router` | 3 applications, 2 servers, skew 4, 3 tries, 4 lost calls | `LoadAccounted`, `PlacementIsSound`, `CallsEnd` |
| `trajectory` | 3 steps, 6 response tokens, answers of 1-2, observations of 1 or 3, 2 step retries, 2 attempts | `LossOnOwnTurns`, `BudgetHolds`, `ResultIsJudged`, `Terminates` |
| `trajectory_no_container` *(violation)* | 2 steps, 4 tokens | `NoContainerIsTrue` fails |
| `batch` | 3 environments, 2 step retries, 2 attempts | `ResultsOnce`, `RunningIsServed`, `BatchSettles` |
| `batch_hang` *(violation)* | 2 environments, 1 attempt | `ConsumerEnds` fails |
| `ppo_batch` | 2 prompts of 2 samples, 0 to 2 steps each, at most 1 response without tokens, 3 rewards, every order of arrival, 3 modes, with and without rejection, world sizes 2 and 3 | `RowsBelong`, `AdvantageIsOwn`, `UpdateIsWhole`, `CrashCauses` |
| `ppo_padding` *(violation)* | the same, broadcast, world size 3 | `PaddingIsMasked` fails |
| `collect` | 3 instances on 2 images, 2 workers, 1 pull at a time, 2 runs | `RunningHasImage`, `NoDuplicates`, `ImageAccount`, `QuarantineLosesNothing`, `StreamEnds`, refinement `KeepsPromise` |
| `agent_run` | up to 2 restarts or 2 iterations, 9 steps at most, nominal 4, windows 2 and 3, 1 or 2 kept turns, triggers 2 and 5, with and without compression | `EveryTurnShownOnce`, `WindowHolds`, `SummariesFrozen`, `RunEnds` |
| `lsp_client` | 1 tool (three calls), 3 requests of the server | `RepliesMatch`, `ShutdownUnheard`, `CallsEnd` |
| `lsp_session` | 1 iteration, 2 restarts, up to 4 daemons | `PortNamesADaemon`, `NoPortIsExplained` |
| `editor` | 2 files, 1 body, stacks of 2 | `OldTextKept`, refinement `KeepsPromise` |

Every passing run also checks its module's `TypeOK` (`PpoTypeOK`). Several properties are
conjunctions of named parts: `PlacementIsSound` is `MovesOnlyDownhill` and
`PlacementWithinSkew`; `LossOnOwnTurns` is `MaskSelectsModel`, `EndsOnModelTurn`
and `StopMessageNotTrained`; `ResultIsJudged` is `JudgedIfTrained` and
`EmptyIsEarly`; `BudgetHolds` is `ResponseFits` and `BudgetIsExact`;
`RunningIsServed` is `AwakeWhileRunning` and `WaitsOnlyBehindStuck`;
`ImageAccount` is `PulledOnce` and `ReclaimsItsImages`; `WindowHolds` is
`RecentInFull` and `ContextBounded`; `RepliesMatch` is `ReplyIsOwn`,
`PendingIsWaiting` and `OneEach`.

`CHECK_DEADLOCK FALSE` is set where the program stops: a trajectory returns, a
batch settles, a training step is over, the last run of the driver ends,
`runagent` returns, a daemon is gone. The router never stops and its run checks
deadlock. The editor never stops either, since the shell may always change a file
and a command can always be refused.

### Bounds, and why they suffice

* Router: two servers are enough for a move between them and three
  applications for a server to be charged by one that left and one that stays.
  `MaxLost` 4 lets the leak alone reach the skew limit of 4 (the code's
  constant), so moves caused by leaks happen. The proofs need no bound.
* Trajectory: six tokens with observations of three make every case of the cut:
  budget met exactly, exceeded by the answer, exceeded by the observation; three
  steps allow a first, a middle and a last one; two attempts a stale environment.
* Batch: with three trajectories on three workers one can wait behind the stuck
  calls of two others, results arrive in every order, and the generator can raise
  while one has returned and one still runs.
* Collection: two instances share an image and one does not; with two workers
  both can ask for the same image while a third is removed; two runs give one
  crash at any step and a resume. `PullWorkers` 1 makes the semaphore matter.
* Agent: nine steps pass through three compressions with window 2 and two with
  window 3, with every remainder; `MaxSteps` 4 lies below the absolute limit
  so that all three reasons of a done run occur.
* Training step: two samples of two prompts make a group that is solved, failed
  or mixed, beside another one; lengths 0 to 2 give trajectories without a step,
  that are their own last step, and that have others; with three workers
  every batch of a length other than 3 and 6 is padded or rounded. `MaxBlank` 1
  puts the response without tokens in every place: first, last, only step of its
  trajectory, of a solved one or not. The proofs need no bound on how many.
* LSP client: two calls in flight under neighbouring ids after a third, and
  three requests of the server with the ids 0, 1 and 2; 0 was never given out, 1
  is over when the server may ask, and 2 is that of the first call, which may be
  waiting, over or given up. A second tool, without requests of the server (9.8
  million states), passed too.
* LSP session: two agent runs and a retry in each, so that daemons of the first
  run start, serve and close while the second run starts its own; the theorems
  hold for any number of runs.
* Editor: two files because the history is saved as a whole; stacks of two,
  because one entry cannot be out of order; one body beside the empty text, with
  and without tabs.

### Fairness, and why the code justifies it

* Router: weak fairness of each call's post. Each post has a total timeout of
  2700 s and its retries are counted.
* Trajectory and batch: the event loop runs what is ready and timers expire
  (`wait_for` around steps and attempts). **No** environment call, container or
  model server is assumed to answer.
* Collection: the phases of the main thread and each worker's thread. A pull
  and a rollout end by their `subprocess` timeouts. Two things are assumed that
  the code does not enforce: `docker rmi` returns (it has no timeout), and the
  main thread is not killed forever (a crash is allowed but never required).
* LSP client: `wait_for` of each request expires (600 s; 30 s for the one sent by
  the shutdown), and the event loop runs the handlers and the closing sequence when
  they are ready. **No** answer of the language server and no step of the reader or
  writer is assumed.
* Training step, LSP session, editor: safety only, no fairness.
* Agent: the program is sequential and everything it blocks in has a timeout
  (model 360 s, command 90 s, reward 300 s or more), so weak fairness of `Next`.
  For a command the limit that counts is the `timeout` prefix inside the container
  (`docker.py` 1141): after the one on the future (1160) the `with` of the executor
  still waits for the call. A container that hangs as a whole is outside it.

### Environment assumptions of `Collect`

A removal succeeds once the image's containers are gone; a `docker pull`
that outlives its run ends no later than the next run's pull of the same
image; an append that is cut short loses that record and no complete one;
instance ids stay distinct after `_stream/<id>` names are made safe and cut to
80 characters (`collect.py` 450).

## 4. What the models found

Three disagreements with what the repository says have a violation run, whose
property quotes the line:

1. **A retried trajectory has "no container"** (`swe_arsenal.py` 114).
   `has_container` is cleared by every reset and set only by the first.
2. **The training loop hangs** (`agent_ppo_trainer.py` 850). An exception of
   the generator skips the sentinel.
3. **Padding is trained on** (`agent_ppo_trainer.py` 215). Line 215 says the batch
   is padded "with everything masked out"; the padding rows are copies whose
   `traj_mask` is left as it is, so in broadcast mode they enter the update.

Five more are stated as properties in their modules, beside the line they quote.
No run is kept for them. To see one fail, add its name to the module's cfg in
section 8, under `INVARIANT`:

4. **Leaked load** (`router.py` 175), `Router!IdleMeansUncharged`. `release_address`
   comes after `asyncio.gather` and outside `finally`; a failed or cancelled call
   charges its server for good, although the docstring (115) says the count is
   decremented when done. `LoadAccounted` tells exactly by how much the count is
   wrong, and this is proved.
5. **A record behind a torn line is lost** (`collect.py` 753), `Collect!WrittenIsFound`:
   nothing ends the partial line before the next append
   (`trajectory_collection/README.md` 45).
6. **An orphan's record is taken for the new rollout's** (`collect.py` 451, promise
   at 490), `Collect!FreshTempDir`: the working directory is reused while a
   rollout of the dead run lives.
7. **A stale `done`** (`edit.py` 237), `AgentRun!AgentMeansFinished`: the environment
   is not reset between iterations or restarts, so the run after a submitted one
   ends after one step as `agent`, and is returned as the agent's own end
   (`agent.py` 665, `edit.py` 160).
8. **Overlong trajectories are trained on** (`agent_execution_engine.py` 56, 517),
   `AgentTrajectory!OverlongIsMasked`: `overlong_filter` is described as the filter
   for TRUNCATION, MAX_STEPS and TIMEOUT, and line 517 still has that condition in a
   comment; what 518-527 mask out is NO_CONTAINER, PROMPT_TRUNCATION and
   ENCODE_ERROR, and an overlong trajectory keeps its mask and has its reward halved.

Met while modelling:

* Training step. One trajectory with an empty response ends a step in token mode:
  it is skipped (`agent_ppo_trainer.py` 625-631), the rows are one short of the
  prompts, and `union` fails (`CrashCauses` says it always does). The unstarted
  ones do not, since they carry the invented message. In broadcast mode
  `torch.stack` of an empty list raises when every trajectory that is left has a
  single step; and if the last step has no response, the mean over its empty mask
  (995) is `nan`, which becomes the advantage of all its other steps
  (`AdvantageIsOwn` makes that exception). A prompt that all its trajectories solve
  still counts as mixed when a step of one has an empty response, as that row's
  score is 0 (252-262; the exception in `UpdateIsWhole`). Rounding down to the world
  size may cut a prompt's group in two; what is left is compared among itself
  (`AdvantageIsOwn` allows it, and says the group is of one prompt).
* LSP. `shutdown_and_exit` cancels its reader and writer before it sends `shutdown`:
  the server never hears it, and the daemon always waits out its 30 s timer
  (`ShutdownUnheard`). The 40 s pause of `initialize_lsp` may then be too short: the
  late removal of the port file hits that of the next daemon, which serves on and
  which no tool finds. `NoPortIsExplained` says that a file missing under a serving
  daemon always has this cause. The log reports success before the daemon listens or
  has written its port, and `initialize_lsp` looks at nothing else. The last
  shutdown is skipped when the agent ended the run itself. `lsp_tool.py`'s docstring
  (22-24) describes a synchronisation with `str_replace_editor` that has no code.
* Editor. An undo restores the text with tabs expanded, as `str_replace` expands
  those of the whole file. The undo of a `create` leaves an empty file. An undo
  whose write fails has lost its entry; a write that fails after the open
  leaves the file empty. A `view` rewrites the history too, so that a kill during
  a `view` may lose all of it.
* Memory. With `keep_recent` 0 and no turn left over, `history[-0:]` is the whole
  history (`memory.py` 559): the summary is followed by both prompts and all
  turns again. `EveryTurnShownOnce` fails for `Keeps = {0}`; the run starts at 1
  and the theorems assume `0 \notin Keeps`.
* Calls given up on keep their pool worker, and nothing bounds how long others
  wait behind them: `RunningIsServed` says only that nothing else keeps a
  trajectory waiting. A record appended behind a torn line (5) is, for
  `CollectPromise`, one of those a crash may lose. `OldTextKept` is about writes that
  fail, not about a tool killed between emptying the file and saving its history.
  A summary whose query fails is a stand-in text from `single_turn_summary`, so
  `AgentRun` has no step for it.
* With `memory_output_path` set and compression off, `agent.py` 709 reads a
  `self.memory` that does not exist.
* The images on disk are "about" at most the number of workers (`collect.py`
  660-662): removal is serial and a freed worker may pull first. An image whose
  last record was appended before a crash is not removed by any later run.
* `max_steps` is documented as the total over restarts and iterations
  (`edit.py` 163) but only names the exit reason; `max_steps_absolute` ends a
  run.
* `trajectory_collection/README.md` (45-46, 320-340) still describes an older
  driver that works in waves; `collect.py` streams. The model follows the code.
* `memory.load_memory` cannot construct a `Memory` (it passes no problem
  statement); nothing calls it.

## 5. Proofs

The theorems hold for every value of the constants allowed by the named
assumption of each module. None of the properties is inductive alone; `IInv` is
the strengthening.

**Router.** `LoadAccounted` relates a table to the *set* of calls in progress,
so each step is a statement about cardinalities: adding a call to, or taking
one from, `InFlight(s)`. It is inductive with the types and the fact that only
a call in progress has tried posts. The release's `max(0, ..)` is then
redundant, since the call being released is one of those counted. `LeastUsed`
is shown to exist (`LeastNat`, by well-foundedness) and to be least, from which
`PlacementIsSound` follows for any `SkewLimit`.

**Collection.** `IInv` adds:

* `Lifecycle`: tasks exist only while a run streams, and what it knows of images
  is empty before that;
* `ImagesKept`: an image that a task still needs is not being removed, and is
  present if it was pulled. This is the reference count of the code, seen from
  the tasks: it is preserved when the last task of an image is processed
  because no task that needs it is left;
* `RecordsUnique`: an instance that is open has no record, so the append of
  its record cannot duplicate one;
* `Quarantined`: between the two steps of the quarantine the sidecar already
  has what the file is about to lose.

`ImageAccount` is proved with a second invariant on top, `Accounted`: whoever holds
the lock of an image is alone and found it neither pulled nor failed, and an image
that was pulled and is there has a task to come or is being removed.

The proof has a lemma per thread (`ResumeInvariant`, `WorkerInvariant`,
`MainInvariant`, `DieInvariant`) with a step per action. Refinement
(`ImplementsPromise`) adds that the records only grow outside the quarantine
(`FileGrows`) and that processing an instance is a `Keep`, a `Lose` or a
stutter of `CollectPromise` (`ProcessSettles`).

The half of `StreamEnds` that needs no fairness is proved as well. `NeverStuck`: a
worker that waits for the lock of an image waits for one that has the semaphore
or waits for it, and those that have it wait for nobody, so the pool, the
locks, the semaphore and the main thread form no circle, however many there are of
each. `GoesForward`: a run never takes an instance back, and each step of its
threads advances one or removes an image.

**Trajectory.** The mask and the budget are sequences that several steps extend
and one cuts. `Script` says which reasons and counters go with each `await`;
`Stops` that the engine's own stop message is only there when no step was taken;
`Between` that between two steps the response is exactly the tokens counted, and
below the limit unless the limit is not enforced per step; `Scored` that no step
has a score before the end, and then the last one only. `Early`, on top of these,
that a response without tokens has not come past its first step, is what
`EmptyIsEarly` needs. With these the mask
(`MaskSelectsModel`, `EndsOnModelTurn`) and the budget (`ResponseFits`,
`BudgetIsExact`) are preserved by every action; lemmas on repeated tokens,
concatenation and `SubSeq` carry them through the cut. Behind `Terminates` stand
`NeverStuck`, that the head of the loop has a case for whatever reason the last step
left, and `GetsOn`, that every step advances the attempt, its part, the step, the
stage or the retry, in this order, all of which `TypeOK` bounds.

**Batch.** `Jobs`: a job, waiting or executed, belongs to a running trajectory,
which has one. `Done`: a trajectory finishes once, and what was yielded has
returned. `Delivered`: what the training loop took followed by what is in the
queue is the yielded results in order, then the sentinel when the generator has
finished; until then the engine is awake. That all results are there with the
sentinel is a counting argument: as many distinct results as environments are
all of them (`AllYielded`). `Pool`, proved on top of it, bounds the busy workers by
cardinalities; a pool that is full while a job waits cannot be full of awaited
calls, because the waiting one is of an environment no worker is busy with.

**Training step.** That a row has its own prompt, advantage and place is never a
matter of one step of the code: each of the four handlers selects, joins or pads
rows by position, and what one leaves is what the next relies on. `PpoIInv` says
what that is:

* `Sound`: every row is a step of its trajectory beside that trajectory's prompt,
  with its reward, or 0 where the response is empty (`Fits`), and two rows that are
  not padding are never the same step (`OneRowEach`). It holds of the batch in every
  phase;
* `Collected`, when the sampling begins: with rows per step, every step of a
  trajectory that has a row is there (`AllSteps`); without, one row per trajectory;
* `Sampled`, when the advantages begin: rejection has left prompts that have both a
  solved trajectory and one that is not or has an empty response (`HasSignal`),
  token mode a multiple of the world size (`TokenSize`), and broadcast mode whole
  trajectories, without which a trajectory would have no last step to take its
  advantage from;
* `Weighed`: every row has its own advantage (`AllOwn`); `Trained`: and the
  batch divides among the workers.

Selection by mask is proved by ranks: `Nth(P, k)` is the element of `P` with `k`
elements up to it, it exists because removing the greatest lowers the count by
one, and it is unique, so `Pick` neither repeats nor reorders (`PickSound`).
Sorting distinct `idx` from 0 gives the identity whatever the order of arrival
(`SortedByIdx`), so the prompt that `repeat` puts at a row is that of its
trajectory: by arithmetic of `\div` and `%` in token mode (`Positions`), and by
the place of a step among the steps of all results where rows are steps
(`PlaceHolds`, `RepeatedOnce`). `RoundedDown` and `RoundedUp` are the two
roundings, `PadSound` and `PadKeeps` what padding with copies keeps. `UnionCrash` is the two
columns' length: an empty response leaves one place out of `Places`, and a proper
subset of a finite set has fewer elements. The proof
assumes prompts, samples, steps and world sizes of at least 1.

`RolloutsMakeABatch` joins the two modules: if the environments of `RolloutBatch`
are the trajectories of `PpoBatch`, the results the training loop holds when it has
seen the sentinel are the trajectories in some order, each once, which is what
`Collect` begins with.

**Agent and memory.** `Loops` ties the kept trajectories to the iteration.
`Counters`: every turn up to `lastCompressed` has its summary, the complete
windows among them are in the history, and no compression that was due is left
undone when the model is asked. `Shape` gives the message at every position: the
two prompts, one summary per window with its turns, the remaining turns in full.
Compression takes one shape to the next, by arithmetic with `\div` and `%` and the
lengths of `SubSeq`; the three properties are read off the shape. They hold for
`keep_recent` of at least 1, as section 4 says; `TypeOK` and the invariant hold
for 0 as well. `GetsOn` is the measure behind `RunEnds`: every step advances the
iteration, the restart, the part of the run, the turn or its stage.

**LSP daemon.** `Numbered`: ids given out are distinct, and a message under way
carries the id of its request. `Waits`: `_pending` holds the id of every call that
waits, and no other. `Stopped`: before the daemon stops its tasks it has not asked
for a shutdown, and afterwards they have ended. A popped entry is therefore the
message's own request, unless the message is the server's.

**LSP session.** `Counted` bounds the daemons by the runs. `Removals`: a file is
removed only under a daemon that has opened it, and only by one that has closed,
so that a daemon's write can miss the file only after another's end. With it the
two properties are inductive together: what the file holds says who has opened
it, and whoever opened it writes, removes or was killed.

**Editor.** When a command has run (`Done`), the history in memory is the one
loaded, or has the old text on top of one file, or lacks the top of one file;
before and after, memory and disk are the same (`Loaded`, `Unsaved`). The ways a
tool can end are then steps of `EditorPromise`.

| Theorem | States for all constants |
|---|---|
| `RouterProofs!RouterInvariant`, `TypeCorrect` | inductive invariant, `TypeOK` |
| `RouterProofs!LoadIsAccounted`, `PlacementSound` | `LoadAccounted`, `PlacementIsSound` |
| `RouterProofs!NoClampingRelease` | `ReleaseNeverClamps`: the `max(0, ..)` of a release is never needed |
| `CollectProofs!CollectInvariant`, `TypeCorrect` | inductive invariant, `TypeOK` |
| `CollectProofs!RolloutsHaveImages` | `RunningHasImage` |
| `CollectProofs!OneRecordEach` | `NoDuplicates` |
| `CollectProofs!QuarantineIsSafe` | `QuarantineLosesNothing` |
| `CollectProofs!ImagesAreAccounted` | `ImageAccount` |
| `CollectProofs!ImplementsPromise` | `KeepsPromise` |
| `CollectProofs!StreamNeverStuck`, `StreamGoesForward` | `NeverStuck`, `GoesForward`: no circle of waits, no way back |
| `AgentTrajectoryProofs!TrajectoryInvariant`, `TypeCorrect` | inductive invariant, `TypeOK` |
| `AgentTrajectoryProofs!LossIsOnOwnTurns` | `LossOnOwnTurns` |
| `AgentTrajectoryProofs!BudgetIsKept` | `BudgetHolds` |
| `AgentTrajectoryProofs!ResultsAreJudged` | `ResultIsJudged` |
| `AgentTrajectoryProofs!TrajectoryNeverStuck`, `TrajectoryGetsOn` | `NeverStuck`, `GetsOn`: what `Terminates` rests on |
| `TrainingProofs!BatchInvariant`, `TypeCorrect` | inductive invariant, `TypeOK` of `RolloutBatch` |
| `TrainingProofs!ResultsArriveOnce` | `ResultsOnce` |
| `TrainingProofs!EngineIsAwake`, `RunningAreServed` | `AwakeWhileRunning`, `RunningIsServed` |
| `TrainingProofs!PpoInvariant`, `PpoTypeCorrect` | inductive invariant `PpoIInv`, `PpoTypeOK` |
| `TrainingProofs!RowsKeepTheirPrompt` | `RowsBelong` |
| `TrainingProofs!AdvantagesAreOwn` | `AdvantageIsOwn` |
| `TrainingProofs!UpdatesAreWhole` | `UpdateIsWhole` |
| `TrainingProofs!CrashesAreKnown` | `CrashCauses` |
| `TrainingProofs!RolloutsMakeABatch` | `RolloutBatch` delivers what `PpoBatch` starts from |
| `AgentRunProofs!HistoryInvariant`, `TypeCorrect` | inductive invariant, `TypeOK` |
| `AgentRunProofs!EveryTurnIsShownOnce`, `WindowIsHeld`, `SummariesAreFrozen` | `EveryTurnShownOnce`, `WindowHolds`, `SummariesFrozen`, for `0 \notin Keeps` |
| `AgentRunProofs!RunsGetOn` | `GetsOn`: what `RunEnds` rests on |
| `LspClientProofs!LspInvariant`, `TypeCorrect` | inductive invariant, `TypeOK` |
| `LspClientProofs!RepliesAreMatched`, `ShutdownIsUnheard` | `RepliesMatch`, `ShutdownUnheard` |
| `LspSessionProofs!SessionInvariant`, `TypeCorrect` | inductive invariant, `TypeOK` |
| `LspSessionProofs!PortIsLive`, `NoPortHasAReason` | `PortNamesADaemon`, `NoPortIsExplained` |
| `EditorProofs!EditorInvariant`, `TypeCorrect` | inductive invariant, `TypeOK` |
| `EditorProofs!OldTextIsKept`, `ImplementsPromise` | `OldTextKept`, `KeepsPromise` |

Every invariant, action property and refinement that a passing run checks is a
theorem (`AgentRun`'s with the restriction named in the table). Only
model-checked: the liveness properties, since fairness and `ENABLED` are outside
the prover; for `Terminates`, `StreamEnds` and `RunEnds` the measure that grows to
its bound is proved.

## 6. Not modelled

`PROJECT.json` lists every component with the reason. In short:

* **Text and numbers**: parsing of answers, prompts, checkers of rewards, tensor
  layout, the numerics of advantages and losses. They are functions of one input.
* **Pipelined PPO trainer** (`agent_ppo_trainer_pipeline.py`): its first mini batch
  raises, because `_transform_agent_trajectories` returns a tuple
  (`agent_ppo_trainer.py` 744) that the pipeline uses as a `DataProto`. A model of
  what follows would be of code that cannot be reached.
* **MCP environment** (`mcp_env.py`): not used by the training or the collection.
* **`execute_tasks`** and **`runagent_multiple`**: a second way to schedule the
  same coroutine, and an older driver that `collect.py` replaces.
* **Docker runtime**: commands to an external daemon; what they do to a
  trajectory, a tool or an image is an action of the module that calls them.
* **Errors of `compress_history`** (`memory.py` 586-590, `agent.py` 544): they catch
  what no state of the history can raise.
* **`export_memory`, `load_memory`**: no caller changes state through them.
* **Scripts, vendored code** (analysis, verifiers, mining, SFT preparation,
  serving, SWE-smith, notebooks): one pass over files, no protocol. They are most
  of the repository's lines.

## 7. What is left

In order of what it would add:

1. `execute_tasks` (slots, index queue, semaphore) on top of `RolloutBatch`'s pool.
2. `RunMultiple`: the process pool of `runagent_multiple` and its resume by problem
   statement, composed with the outcomes of `AgentRun`.
3. `McpManager`: the connection thread of `mcp_env.py`, calls given up after 30 s
   and executed later.
4. The measures behind `BatchSettles` and the two `CallsEnd`, as for the others.

## 8. Running

tlc -config Router.cfg Router.tla tlc -config AgentTrajectory.cfg
AgentTrajectory.tla tlc -config AgentTrajectoryNoContainer.cfg AgentTrajectory.tla
tlc -config RolloutBatch.cfg RolloutBatch.tla tlc -config RolloutBatchHang.cfg
RolloutBatch.tla tlc -config PpoBatch.cfg PpoBatch.tla tlc -config PpoPadding.cfg
PpoBatch.tla tlc -config Collect.cfg MCCollect.tla tlc -config AgentRun.cfg
AgentRun.tla tlc -config LspClient.cfg LspClient.tla tlc -config LspSession.cfg
LspSession.tla tlc -config Editor.cfg Editor.tla tlapm RouterProofs.tla           #
and each *Proofs.tla; AgentRunProofs and TrainingProofs take minutes
