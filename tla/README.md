# Warwright in TLA+

Specifications of the parts of Warwright whose correctness depends on order,
concurrency or failure, with the TLC configurations that check them on small
instances and the theorems that the TLA+ proof system (TLAPS) checks for all
instances. Paths below are relative to the repository; `service.ts` alone means
`packages/server/src/queue/service.ts`.

## 1. The system

Warwright is a deterministic auto-battler. Players build a warband, the server
pairs them, a pure simulation plays the match, both ratings are adjusted, and a
viewer replays the match from its event log. The same simulation is driven by
Python training code through a child process. Parts in bold are modelled, at
least in part.

| part | state | operations | talks to |
|---|---|---|---|
| **matchmaking queue** `server/src/queue` | `waiting` map, `resolving` set, `matchedResults` map, one batching timer, promise of the last pass | enqueue, dequeue, getStatus, timer callback, pairing pass, completePairing, failPairing, dispose | HTTP handlers call it; it hands batches to the async resolver, which calls it back |
| **match resolution** `server/src/matches/resolve.ts`, `queue/routes.ts` | `matches` rows | resolveOnePairing: play, insert, rate, report | core, database, ratings, queue |
| **ratings** `server/src/ratings` | `ratings` rows, `matches.rated_at` | applyMatchRatings (one transaction), read route | Postgres row locks |
| accounts and sessions `server/src/auth`, `plugins` | users, session store, CSRF secret in the session, rate-limit counters | register, login, logout, me | database |
| **warbands, match routes** `server/src/{warbands,matches}` | their rows | create, update, delete, scoped to the owner; history, replay, verify | database, core's validation and engine |
| cosmetics `server/src/cosmetics` | their rows | grants, reads | database |
| configuration, app, database client `server/src/{config,app,index}.ts`, `db` | none that changes | parse environment, register plugins, migrate | all of the server |
| **battle loop** `core/src/sim` | `WorldState`: units, tick, event log, PRNG | stepTick, reset/step of a stepped match, runMatch | behaviors decide, resolve/* applies |
| **movement and geometry** `core/src/sim/resolve/{geometry,movement}.ts` | none | isqrt, range, step, move | battle loop |
| **observations and actions** `core/src/sim/observation.ts`, `content/behaviors/policy` | none | encode the agent's vector, encode and decode action tuples, decide | bridge, environments, battle loop |
| other core helpers `prng`, `hash` | PRNG words | draw, hash | battle loop |
| **content** `core/src/content` | immutable registry | lookup; behaviors' decide() | battle loop, foundry |
| **gym bridge** `gym-bridge/src` | map envId -> SteppedTransport | reset, step and close of a batch over stdin/stdout lines | core; its parent process |
| **Python environments** `gym/warwright_gym/{env,transport}.py` | request id, seeds, autoreset flags | reset, step, close, readline | bridge's pipes |
| **Python training** `gym/warwright_gym/training`, `rewards.py` | previous frames, pending resets, rollout buffer, parameters | collect, mask, estimate advantages, update, evaluate, export | environments |
| **online client** `web/src/{OnlineMode.tsx,online-flow.ts,api-client.ts}` | queue panel, poll timer, generation counter, signed-in user | login, join, leave, poll, logout, dismiss, mount/unmount | server over HTTP |
| **viewer frame, playback** `web/src/{frame-state,playback}.ts`, canvas | derived frame; playback position, animation loop | fold the event log, play, pause, seek, step | match log |
| **builder, match setup** `web/src` | form state, draft in local storage, sources and uploads of two sides | edit, save, import, upload, run | core |
| foundry, CLI `foundry/src`, `cli/src` | none kept | load, validate, purity, gauntlet, manifest; print one match | core |

### What is hard about them, and what makes them correct

* **Queue.** Each method is one synchronous critical section of the Node event
  loop, but resolutions of several passes stay in flight between them and fail
  late. Correct: a player has one seat; a pairing pass never uses a stale
  copy; the one timer is armed exactly when it is owed; retries keep a
  player's place in line and end; nobody is dropped without a cause; fairness
  of the greedy choice. Abstractly: join, leave, pair, deliver, undo.
* **Match pipeline.** What a player queues with is a snapshot taken before two
  awaits; a pairing plays, inserts, reports and rates in separate steps; an
  INSERT may take effect and still be reported as failed; the process may stop
  anywhere and come back with other rules. Correct: what is played is what was
  queued, what is shown is on record, one stay in the queue is rated once, a
  replay is the match or a refusal.
* **Ratings.** Many transactions, shared rows, aborts, a COMMIT whose answer is
  lost. Correct: every rated match counts exactly once in both ratings; no
  lost update; no deadlock.
* **Battle loop and viewer.** A long sequence of legal steps with boundary cases
  (death by one of several dots, a shield used up, a cooldown set and counted
  down in one tick, the last tick). Correct: what the viewer folds out of
  the log is what the world is, and the recorded result is what it shows.
* **Geometry and behaviors.** Integer square root and truncating division, in
  every step of every unit. Correct: no overshoot, no stall, no target
  overlooked in a tie, and a pursuit that ends.
* **Gym bridge and environments.** Two sequential programs with pipes between
  them, batches that fail halfway, interrupted reads, a child that dies.
  Correct: never a stale or half-stepped world; episodes run to an end that is
  told once; calls return.
* **The agent's wire.** The engine writes a vector and reads a tuple; the
  environment, the reward wrapper and the exported policy each know the layout by
  heart, in two languages, and the environment reads its table of targets
  once for all matches. Correct: every slot keeps showing the unit its id names;
  the shipped policy plays what it was trained to play; the shaped rewards of an
  episode add up.
* **Training.** The step after an episode's end plays nothing. Environment, reward
  wrapper, rollout, advantage estimation and evaluation each keep their own
  account of that, across rollouts, runs and exceptions. Correct: what is
  trained on is what was played; evaluation judges the pinned matches.
* **Online client.** Async handlers over a network that delays and reorders,
  racing the server's own passes. Correct: the panel is never stranded, stale
  answers do not revive a queue the player has left.
* **Local play.** Two panels over one draft that anybody may edit, file reads that
  end later than they were started, an effect that runs after the frame that
  made it due. Correct: the controls act on the match that is shown; paused
  time is not played; playing ends; only the two known gaps of the checks can throw.

## 2. Modules

| module | models | refines / uses |
|---|---|---|
| `Matchmaking` | what the queue promises its players | abstract specification |
| `MatchQueue` | `QueueService` with the handlers and resolver that drive it | implements `Matchmaking` |
| `MatchPipeline` | warband edits, POST /queue, resolution, reports, replays, restarts | the queue is an instance of `Matchmaking`; rating is one step, as in `AtomicRatings` |
| `AtomicRatings` | what `applyMatchRatings` promises its callers: each call happens at one instant | abstract specification |
| `RatingTransactions` | concurrent `applyMatchRatings` at the grain of row locks | implements `AtomicRatings` |
| `Roster` | the units of two builds as `init` numbers them, with team and full hit points | constants that `BattleLoop` and `AgentWire` share |
| `BattleLoop` | one match of the core beside the frame of `deriveFrame` | |
| `Geometry`, `Pursuit` | arena arithmetic as operators; one unit that chooses and walks | what `BattleLoop` leaves open |
| `GymBridge` | bridge session, pipes, Transport and both environments | |
| `Training` | reward wrapper, rollouts, advantages, updates, evaluation | the environment as `GymBridge` shows it |
| `Ordered`, `ActionCodec`, `AgentWire` | ascending listings; the action tuples; vector, target slots, rows, reward sums and the exported policy's decide() | the engine as a world that changes |
| `OnlineMode` | the online panel, the network, session and queue as it sees them | its server side abstracts `MatchQueue` |
| `Playback`, `LocalPlay` | the playback reducer as operators; the offline page | |
| `MatchQueueProofs`, `MatchPipelineProofs`, `RatingTransactionsProofs` | theorems about the server, `Matchmaking` among it | |
| `CoreProofs` | theorems about the core: `BattleLoop`, `Pursuit` with `Geometry`, and `AgentWire` with `ActionCodec`; it extends all three, whose variables and actions have different names | |
| `GymBridgeProofs`, `TrainingProofs`, `OnlineModeProofs`, `LocalPlayProofs` | theorems about the bridge, the training, the panel and the offline page | |
| `MC*` | values of the constants for TLC | |

The chain of promises on the server is: `MatchQueue` implements `Matchmaking` and
`RatingTransactions` implements `AtomicRatings` (both model-checked and proved);
`MatchPipeline` uses `Matchmaking` and rates in one step, so what the pipeline
shows holds for every queue and every rating service that keep those promises,
these included.

Mutant operators (`...Late`, `...Keeping`, `AnyRelease`, `SideAFirst`, ...) stand
directly before the definition they disturb; each is a plausible bug, and the
property it is paired with in `PROJECT.json` finds it. (`SideAFirst` doubles as
the order of the two UPDATE statements, where it is the code's own.)

### MatchQueue

`waiting`, `resolving` and `matchedResults` are the class's fields; a result is
its set of players, since the match itself plays no part. `timer` counts the
ticks until the callback is due. A pairing pass loops, so it is kept at the
grain of its loop (`PassPairs` per iteration, `PassEnds` for the rest of
`runPass`); `passing` keeps every other handler out until the pass is over,
which is what "synchronous" means, while `Tick` may let time pass. `pool` and
`pairings` are the pass's locals; that they agree with the shared map
(`PoolIsWaiting`) is a theorem, not an assumption. `inflight` is what the resolver
owes, `latestPass` the part of it that `settled()` covers.

Left open: the order of two entries with the same millisecond (the code's stable
sort and its scan follow Map insertion order; the model allows both), and the
warband build carried by an entry, which is `MatchPipeline`'s. Requests that are
refused (409, 404) change nothing and are not steps. `getStatus` is a read; its
answer is the standing that `OneSeat` keeps unambiguous.

`Matchmaking`'s `Leave` is any departure of somebody who waits: the promise does not
say who asked for it. That nobody but the player himself takes a waiting player off the
list, a pass that has nobody to pair him with included, is `NoSilentEjection`'s to say.
A resolving player is let go by his match's result or by the eviction policy, applied
to his own entry and not to his opponent's.

`Dispose` is the `onClose` hook. `index.ts` installs no signal handler, so the hook
runs only when an embedder or a test closes the app.

### MatchPipeline

The database (`warbands`, `matches`) survives `Restart`; everything else is the
process's memory. A build is known by the number of the save that wrote it, so
that "which version of the warband" is all that can be told about one; a body
that names an unknown role, skill or behavior is `Unplayable` and refused. The
engine is a function of release, seed and both builds and nothing more is
assumed of it; a result hash is the whole outcome.

POST /queue is three steps (`ReadWarband`, `ReadRating`, `Enqueue`), with edits,
deletions, other requests, passes and restarts between them. `resolveMatch` is
`InsertMatch` and then `CompletePairing`, or `FailPairing` before it or
between them: the second is an INSERT that took effect while its answer was lost,
which leaves a match row that nobody is told of and that the retry does not
reuse. Who is put back after a failure is left open (`back`); `MatchQueue`
says who. `RatingFailed` is the line in the log after which nobody tries again,
and a restart between report and rating loses the rating as well: a reported
match is rated at most once, not at least once.

History variables: `author` (who wrote a build), `joins` (the stays in the queue),
`delivered`, and the fields `saved`, `joinA` and `joinB`. The reads of the match
routes are operators (`History`, `Replay`, `Verify`), evaluated in every state.

### RatingTransactions

One process per call; `step` is the statement it has reached, `todo` the rows that
statement has still to take. Postgres is external. The module assumes of it: row
locks last to the end of the transaction; a waiting statement re-reads the row
under READ COMMITTED; `INSERT ... ON CONFLICT DO NOTHING` waits for an
uncommitted version of the row but not for a mere lock; multi-row statements
take rows one at a time, in the order of `orderedIds` and of `ORDER BY user_id`
(user ids are UUIDs, for which both orders are the same). A rating is the number
of times each match has been counted in it: this tells apart every lost,
doubled or half-applied update without Glicko's floating point. `Abort` may
come at any statement, and `Commit` may be reported as an error.

### BattleLoop

`stepTick` at the grain of a unit's turn, and of a single dot in housekeeping.
Every operator that emits an event also says what the viewer makes of it, so
that the world and the folded frame can be compared at every step; at the
end of tick N the frame is `deriveFrame(log, N)`.

Left open: positions. Any target may be out of range, and a move changes
nothing that is kept, so both are the action `Idles`, which is therefore enabled
in every turn; `Pursuit` has them. A slow is applied and expires but slows
nothing here. Registered behaviors are modelled by what they can decide (they
pick from the living enemies they are shown, `buildWorldView` being live); the
decision of an external unit is arbitrary, corpses included. `policy-smoke-v1`
reads target slots from an observation that includes the dead, but refuses any
roster other than one against one, where its enemy's death ends the match.
`reset()` starts a new behaviour.

### Geometry and Pursuit

`isqrt` is the code's Newton descent as a recursive function, `trunc` is
JavaScript's `Math.trunc` of a quotient (it rounds towards zero, `\div` down).
`Pursuit` is one unit with one of the three shipped behaviors among others that
walk, are hurt, healed and die, while its own slow and empower come and go, one at
a time. `pickBest` is the
code's single pass; where it draws among ties, the model chooses. `TakesTurn` is
decide() and what resolves it. Stuns, which only skip turns, and what an attack
does are `BattleLoop`'s. The others walk anywhere among `Places`, which is more than their
own behaviors would do, and as often as they like, since nothing orders their turns
against the unit's but that a living unit has one in every tick. A unit may
therefore pursue a retreating target for ever, as it may in the code:
`PursuitEnds` is claimed of a target that stays where it is from some time on
and that the unit keeps choosing.

Two facts the exploration turned up, neither promised otherwise by the code:
a unit whose step is 1 can stand still for ever short of its target (target at
offset (3,3): d2 = 18, isqrt 4, and 3 * 1 / 4 truncates to 0 on both axes),
which with shipped content takes a slowed unit of the slowest role; and since
the distance is rounded down, a step may be longer than `maxStep`, though less
than `maxStep + 1`. `NoStall` and `NeverPastTarget` state what does hold.

### ActionCodec and AgentWire

`ActionCodec` is the four-integer wire form of an action, both ways, with the
conditions under which `decodeAction` throws. `AgentWire` is what travels: the
vector (self block in catalog order, then a block per ally and per enemy in unit
order), `_slot_to_unit_id`, the row of choices that becomes a tuple
(`_encode_wire_action`), the wrapper's hit point sums, and `decide`, by which
`policy-smoke-v1.ts` repeats the translation in TypeScript. `actions.py`
mirrors the codec constant by constant and has no definition of its own.

`Send` and `Answer` are one `step()`; `Restart` is the call after a match's end,
which plays no action and shapes no reward. Left open: what the tick does to the
world (any few units may lose or gain hp and move, the agent included), so the
properties rest on nothing the battle loop would have to promise; which row a
policy infers. One sub-environment and one tick to a step: a sub-environment has
no state in common with its neighbours but the slot table, and the ticks of a
longer step are further changes before the one frame that is sent.

### GymBridge

A request or an answer is one element of a pipe. A world is its seed, the
number of its steps, whether it is over and whether a tick of it was cut off.
Seeds are numbered in the order they are drawn, so that two draws differ. `call` is
the method that blocks in `readline()`; `Interrupted` is any exception that
unwinds it there, and leaves the answer behind for the next call, which must
raise (and so must every call after it: the ids never meet again; the
environment fails loudly until it is rebuilt). A vector step that has flagged
environments sends two requests, the reset batch and then the step batch. Both
environments share the module: `single` chooses `WarwrightEnv`, which refuses to
step after an episode's end, instead of the vector environment.

Left out: blank lines, invalid JSON and unknown commands, which this client never
sends and which change no state; a `reset` that raises (the environment sends
fixed valid builds). That the frames of a failed batch are lost is the protocol's
own answer; `ResultIsCurrent` says that nothing stale is shown afterwards.

A step that throws leaves its world `torn` (`HalfStepped`), those before it in the
batch stepped and those after it untouched (`SteppedWorlds`). The catch then takes the
torn world out of the map (`Evicted`), which is why no state between two requests
has one; a bridge that forgot to would show it with its next frame.

### Training

An observation is the frame it shows: which reset, which episode of its
sub-environment, how many steps into it. A reward is the pair of frames whose hp
it takes the difference of; an advantage or return is the set of frames it depends
on, computed by the code's backward recursion with `next_nonterminal` as a
switch. No number is lost that a property is about: what can go wrong here is
from where a number comes.

The vector environment restarts a sub-environment on the call after the one
that ended its episode (`autoreset`); `prevTerminated` is the wrapper's account of
that, `pendingReset` and the mask (`PendingAt`) the rollout's. `Train` and
`Evaluate` may be called again and again on one environment, evaluation behind
the wrapper's back, and `Raise` ends either at any call. Only the vector
environment that does not fail is assumed of `GymBridge`, plus `Raise` when it
does. `played` is history.

### OnlineMode

An operation is one async handler between its first await and its continuation:
`csrf` (a mutation fetches a token first), `sent`, `answered`. The generation
counter is abstracted to what comparing it can tell, `live`: `clearPoll()`
makes every operation in flight stale. Requests are served in any order, may fail
before or after the server has acted (`Fail`, which also stands for 401, 403,
429 and an unreadable answer), and the cookie is read when the request leaves.

The server side is a standing per user, moved as `MatchQueue` moves it, and the
session: login, registration and logout end the session the request came with.

Known and not stated as properties, because nothing in the code promises
otherwise: Join pressed twice can queue a player whose panel shows idle (the second
request reaches the server after a Leave); a slow `me()` or two racing logins
can leave the panel naming another account than the cookie.

### Playback and LocalPlay

Times are whole numbers of quarter milliseconds and speeds of quarters, since
0.25 is the smallest speed; the code's accumulator is a double that only holds
multiples of such units when the frame times do. A warband is what is checked of
it: its shape, whether its role, skill and behavior ids are known, its augments; and
its squad, one unit or several and whether `policy-smoke-v1` decides for one of
them. The builder offers that behavior like any other (`core/src/index.ts:50-55`),
and its decide() throws for every match but one against one
(`policy-smoke-v1.ts:56-64`): whether a build plays depends on its opponent. A unit of
side A decides in the first tick, so such a unit there throws for certain; on
side B it may be dead by then, so the model has both outcomes. A match that plays
is its length.

A click and the effects it causes are one step, because React flushes the effects
of a click before it handles the next; after an animation frame they are a step
of their own (`Effects`), so that another frame may come first. `Frame` has
`lastTimestamp` as the difference between an `armed` and a `timed` loop. A
side may have several reads in flight; the last one to end wins, whatever was
picked last. A match the engine refuses throws inside the state update, and the
page, which has no error boundary, goes `blank` until it is reloaded.

## 3. Runs

All runs use two workers; times and sizes are those of an ordinary machine.

| run | instance | distinct states, time | shows |
|---|---|---|---|
| `queue_safety` | 4 users (symmetric), ratings {0,1,3}, pool limit 3, window 1, 2 failures, age 2, clock 3 | 361 k, 13 s | seats, timer, fair choice, ejections, results, and the refinement |
| `queue_live` | 4 users, one rating, pool limit 3, clock 2 | 82 k, 22 s | `PairableIsServed`, `ResolvingEnds`, `Drains` |
| `pipeline` | 2 users (symmetric), 2 warbands, 3 saves, 2 joins each, 2 matches, 2 releases, 1 request in flight | 2.35 M, 63 s | what is played, reported, rated once and replayed, across restarts |
| `ratings` | 4 calls, 3 matches in a triangle of 3 players, one match called twice | 16 k, 7 s | counting, deadlock freedom, the refinement of `AtomicRatings`, `CallsEnd` |
| `battle` | 3 units (one external), 3 ticks, six skills | 1.25 M, 86 s | frame = world, cooldowns, `MatchEnds` |
| `pursuit` | arena of 5 x 5, 3 others that walk between 2 places, 3 lineups, speed 2, slow and empower 0 or 50 % | 99 k, 95 s | sound steps, optimal ties, pursuits end |
| `agent_wire` | 2 units against 2, two skills of which the agent has one, cooldown 2, one move, one unit changed besides per tick | 39 k, 52 s | slots name their units, both translations agree, rewards add up |
| `gym` | 2 environments or 1, episodes of 2 steps, 7 seeds, 7 requests | 759 k, 34 s | currency of results, episodes, calls return |
| `training` | 2 sub-environments, episodes of up to 4 steps, rollouts of 4, 2 updates, 2 batches, 3 resets | 1.46 M, 15 s | samples, advantages and verdicts come from the right matches |
| `online` | 1 user, 2 sessions, 5 presses, 3 operations | 822 k, 54 s | never stranded, no stale revival, answered |
| `local_play` | matches of 0 or 1 tick, speeds 1/4 and 4, two kinds of file, squads of the form's making, one read in flight | 716 k, 87 s | controls fit the match, paused time, throws, end of playing |
| `local_drafts` | small | seconds | what the repository says and the code contradicts, see section 5 |

Why the bounds are enough. **Queue:** four players are the fewest with which two
passes can be in flight, and with which a pass has a choice between a nearest
opponent and somebody left over; a limit of three separates the immediate pass
from the window; two failures separate the first from the last; the clock is
long enough for an entry to reach `MaxAge` both before and after its first
failure. The ratings 0, 1, 3 have pairwise different gaps. `MaxTime` stops
arrivals, not the queue: timers still run down afterwards. `queue_live` drops
the ratings, which no liveness property depends on. **Pipeline:** two players
meet twice, so that a row of the first meeting can be taken for the second's;
three saves are one each and an edit in between; with two rows one can be left
behind by a lost answer; two releases, and any number of restarts, put a restart
between any two steps. Several simultaneous pairings are `queue_safety`'s.
**Ratings:** a triangle of matches, sides with and against the order of ids, is
the smallest cycle of shared rows; the fourth call is a duplicate; every subset
of the rows may be missing at the start. **Battle:** three ticks hold a cooldown
of two, a status that lasts two and a dot that is stacked before it expires; hp
and damage are such that hits kill, miss the kill by one, or are absorbed
exactly. **Pursuit:** the unit comes from every place of the arena to every other's
place, with steps of 1, 2 and 3; two places are what another unit needs to walk
away and back; ties of two and three, and candidates that leave a tie by dying
or walking and come back to it by a heal.
**Agent's wire:** an ally in front of the agent and two enemies put every kind of
block on either side of the agent's own place; the one skill it has is not the
first of the catalog; hp of 2 is lost in two steps and healed again; any number of
matches follow each other. **Gym:** seven seeds and requests make a second episode, a retried autoreset
and a late answer. **Training:** episodes of every length from 1 to 4 in rollouts
of 4 put the end of an episode, and the boundary step after it, at every
position of a rollout, its last included; two updates have a seam; three resets
let a run follow one that raised, with an evaluation between them. **Online:**
five presses are a visit, a Join pressed twice, a Leave racing it, and one more.
**Local play:** a tick is four units, the slow speed makes one of a frame and
the fast one overshoots; logs of zero ticks and of one have the end at once and
after some frames; the files are one with unknown ids and one with an unknown
augment; the sample has four units and the builder one, which `policy-smoke-v1` may
decide for, so that its matches are one against one and are not.

Deadlock is checked except in `gym`, `training` and `online`, where a caller
who has spent the bounded calls or presses, with nothing in flight, really
stops. The ends of the queue, the ratings and the battle are explicit stuttering
steps (`Closed`, `AllEnded`, `Stops`); the others never end.

### Fairness

* Queue: weak fairness of the pass (synchronous code runs on), of time, of a due
  timer's callback, and of each player's resolution, since `resolveOnePairing`
  catches whatever its awaited calls throw and then reports. No player and no
  outcome is owed anything: resolutions may fail for ever and `Drains` still holds.
* Ratings: Postgres goes on with every statement that is not waiting for a lock.
  Which waiter gets a freed lock is open; no failure is owed.
* Battle: the loop runs on. A throw is never owed.
* Pursuit: a living unit has its turn in every tick.
* Gym: the child handles lines while it lives; a readable line or the end of the
  stream wakes `readline()`. Nobody has to call, interrupt or kill.
* Online: armed timers fire; each request in flight comes back, if only as an
  error. No button is owed, nor any answer other than an error.
* Local play: React runs the effects of a step; the browser delivers a frame that
  has been requested. No click is owed, and the tab is in the foreground.
* Pipeline, agent's wire and training have safety properties only: nothing owes the player a
  match that survives, and a restart or an exception may always come.

## 4. Proofs

Checked by TLAPS for every set of users, ratings, calls, matches and every value
of the limits that satisfies the modules' named assumptions. `ConfigAssumption` is
what `config.ts` accepts; `RatingAssumption` says that a match has two different
players and that ids are totally ordered; `LocalPlayAssumption` and
`PlaybackAssumption` that the sample and the files are what the upload checks
tell apart, and that times are whole units; `TrainingAssumption` that
`evaluate()`'s cap on steps is no shorter than an episode. `PipelineAssumption`,
`OnlineAssumption` and `GymAssumption` only keep null values apart from data and
the bounds positive. `BattleAssumption` is what the content schemas and `init`
let through (positive hp, damage and attack cooldown, both sides present, dots with a
duration); `PursuitAssumption` and `ArenaAssumption` bound speeds, statuses and
places as `constants.ts` does; `CatalogAssumption` (no skill id twice) is the
registry's own check and `WireAssumption` that the agent is one of side A's
units. TLC evaluates these assumptions in every run. The bounds
that stop TLC (`MaxSaves`, `MaxClicks`, `MaxDraws`, ...) are constants of the
theorems too, which therefore hold for arbitrarily large ones.

**MatchQueueProofs.** The inductive invariant is

    QueueInv == TypeOK /\ EntriesFiled /\ PassLocals /\ PoolIsWaiting
                /\ PairingsDisjoint /\ ResolvingIsPaired /\ ExclusiveSeats
                /\ TimerArmedIffPairable

None of the checked invariants is inductive alone. A pass preserves `OneSeat`
only because the copy it pairs from is the shared map (`PoolIsWaiting`) and an
entry is filed under its own user; a late failure restores two entries without
overwriting one only because a resolving player is not waiting; the timer
condition survives the end of a pass only because no timer is armed during one.
From it follow type correctness, `OneSeat`, `TimerArmedIffPairable`,
`PoolIsWaiting`, then, each with one more induction, `EarlierIsSideA`,
`FairPass`, `BoundedRetries`; the action properties `EntryIdentityKept`,
`NoSilentEjection`, `ResultRetained`; and the refinement
`Spec => Matchmaking!Spec`, one step at a time (a pass iteration is a `Pair`, a
failure an `Undo` whose survivors the eviction policy chose, everything else
stutters). A corollary of the proof: the re-arm at the end of a pass never has
anything to do, since at most one player is left waiting by then.
`NobodyEjectedSilently` needs `EntriesFiled`, or the two entries a pass takes might be
filed under a third player: who waits stays on one of the two lists through every
step but his own leave (`WaitingPlayersStay`), and a failure lets go of a player only
if his entry's own failures or age evict it.

**RatingTransactionsProofs.** `LockInv` (types; a working call holds its match
and that match is not rated; rows behind the SELECT are locked by the call;
before the SELECT a call holds only rows it inserted itself; INSERT and SELECT go
through the rows upwards) is inductive, and with it
`DataInv` (what a call has read still holds, ratings count rated matches,
outcomes are true). `NoDeadlock` is then an argument with a rank: a call's
`Progress` is its phase and the row it is at, and a call that waits for one that
waits itself has strictly less of it, so no set of calls, finite or not, can all
wait for each other (the rank is bounded). The proof shows why the upsert is
harmless: a row it locks is at or below the call's later SELECT.
`TransactionsAreAtomic` maps each COMMIT (answered or not) to `Rate`, a claim of a
rated match to `FindRated`, an abort to `Fail` and every other statement to a
stutter. It needs `DataInv` and one thing more, that a call under way has returned
nothing (`Answered`): at the commit the rows read are still the rows stored, so
that writing back what was computed from them counts the match in the present
ratings and takes no other count away (`CommitRates`).

**MatchPipelineProofs.** Three layers, each inductive with the ones below it.
`SeatInv`: types; `resolving` and the abstract queue's pairs are the same pairings,
nobody is in two; whoever waits or resolves has an entry; what is to be reported
or rated was inserted. `AuthorInv`: builds are numbered in the order they are saved,
and every table, request and entry holds builds of its own player, an entry one
that was saved before it was taken in; `SnapshotIsPlayed` (`PlaysWhatWasQueued`)
follows, since a pairing reads nothing but entries. `RowInv`: a row holds what the
engine makes of it; the row of a pairing that is being resolved belongs to its
two players' present stays (a retry under a later stay cannot report it); whoever
waits or resolves has been told of no match of the present stay. That last
conjunct is what makes `RatedOncePerJoin` inductive: a row left behind by a lost
answer may be of the same stay as the reported one, but is never reported, and only
what is reported is rated. `ReplayAgrees` and `ToldIsOnRecord` follow with it.
Two results about `Matchmaking` itself stand beside them: `NobodyIsTwice` and
`ResultsBelongToPlayers`, pool, seats and results share no player, and a result
is a match of one's own. Their invariant adds only that every pair has two members.

**CoreProofs, the battle.** `BattleInv` is `TypeOK`, `FrameShowsWorld`, `TicksRun` and
`CooldownsHold`. The frame is compared at every event, so each effect has a
lemma that says what it does to unit and frame at once (`DamageShown`,
`HealShown`, `StatusShown`, `HousekeptShown`); who is shown dead and alive was so
before or has been healed when dead by an external unit. `FrameShowsWorld` is
inductive once the types give the shape of the folded frame.
`CooldownsSpaceUses` is not: `CooldownsHold` has what is left of a cooldown and the
housekeepings since its use make up the whole of it, one in each tick, the
present one counting only when the unit has had it (`Settled`) or is dead.

**CoreProofs, the walk** (any constants that satisfy `PursuitAssumption` and
`ArenaAssumption`). `RootRoundsDown`: Newton's method from
above stays above the root (by the inequality of the means) and stops only where it
is not past it, and its recursion is well defined because each call is of a smaller
number; so `isqrt(n)` is the integer square root of every squared distance
the arena has. `EveryStepIsSound` follows from what a share of each axis can be
(`ShareIsPart`) and from the shares of both sides of a right triangle being
shorter than `maxStep + 1` (`SharesAreShort`). `PickBestIsOptimal`: the order of
each behavior is a strict weak one (cross-multiplied ratios included), which
is what a single pass needs to end with all the best and nobody else.

**CoreProofs, the wire** (any roster and catalog). `DecodeUndoesEncode` and
`EncodeUndoesDecode`: the tuples that `decodeAction` accepts and the actions are in
bijection. `WireInv`: the vector in the environment's hands is the present
world's, the slot table lists the blocks, and what is being done is the
decoded row. The table, read once, stays right because the order of blocks is the
order of units and depends on no state (`FramesShowUnits`); `PoliciesAgree`
then is a case for each kind of action. `ShapedRewardsAddUp`: the sums are folds
of the community modules over a set of slots, those of the property over a set of
units; a fold is a sum of a function over a set whatever order it takes the elements
in (`SumSplits`), sums along a bijection agree (`SumsAgree`), and the slots of a side
are in bijection with its units (`SlotsAreShared`). So what the wrapper reads out of a
vector is the world's (`WrapperReads`), `SumInv` has the wrapper's previous vector be the
present one, and the terms telescope: a fresh match starts both sums again because
nobody is hurt in it (`FreshIsFull`). `WireTypesAreCorrect` adds the ranges of
hit points and cooldowns.

**GymBridgeProofs.** `ResultIsCurrent` holds because the two pipes hold one call's
business at a time, and that is what `BridgeInv` says of a living bridge: ids in
the pipes are below `nextId`; the pending call's request is the last line of
stdin (`Asked`), or has been answered by the last line of stdout, with stdin
empty, from the worlds as they still are (`IsAnswered`); a call that already has
the frames of a reset batch is alone in the pipes; once all that is written is
read, a sub-environment runs under the seed its environment has noted, or not at
all, unless it is flagged for a restart (`SeedsAgree`: the case of a batch that
failed halfway); after a call has returned, nothing that could change a world is
under way (`ResultStands`). An answer with the right id is thus the only one
left, and nothing of an interrupted or failed call can follow it.
`EndsAreToldOnce` and `NoEpisodeIsCutShort` need `EndsInv`, which adds the relation
of the history (`shown`, `told`) to the flags: an end that was told is of a
sub-environment that will restart, and of a seed whose successor is drawn no
later than the call that uses it (`ToldRestarts`); a world that a request on the
pipe, or the next step, would replace unasked has been told the end of or was never
shown (`RestartsMayGo`, `StartsAreNew`: a batch that fails halfway leaves worlds nobody
has seen); seeds are drawn once (`SeedsCounted`); and a frame in the hands of a call
is of the seed its environment has noted (`AnswersFit`).

**TrainingProofs.** `EvaluationIsPinned`: who has not won yet is in the first
match of this batch's reset, as many steps into it as the batch has made, hence
the cap of steps, no shorter than an episode, is never what ends a batch.
`UpdatesTrainOnWhatWasPlayed`: `TrainInv` has the accounts of environment, wrapper
and rollout agree on every restart (`AccountsAgree`), the frames of a rollout
strictly ordered, and the steps played equal to those that will be samples;
the order makes their claims pairwise different, so that the map from samples to
played steps is a bijection and the numbers agree as well. `RolloutRuns` has the
rollout run on from frame to frame, a boundary step into the next episode and
ending nothing, every other step within its own. Hence of two steps in a row one
is a sample, and mapping pair number k of a sub-environment to it is an
injection into the samples (`UpdatesAreNotStarved`).
`AdvantagesKeepToTheirEpisode` goes backwards through the rollout as `compute_gae`
does: the recursion is well defined (`RecursionExists`), and at each index the
frames of the sample's episode from there on (`Later`) are its own alone, if it
ends the episode or the rollout, and its own with the next sample's
otherwise (`LaterGoesOn`).

**OnlineModeProofs.** `PanelInv`: until Log out is pressed there is at most one of an
armed timer, a poll and a Leave to be heard, and none on an idle panel
(`OnePoll`); a waiting panel has one of them or a logout under way (`Awaits`);
nothing that is in flight after an unmount will be heard. `NotStranded` is one
conjunct, `LeaveIsFinal` follows because only a Join is left to be heard.

**LocalPlayProofs.** Every operation of the playback reducer keeps `Fits`, by
lemmas about clamping, division and the accumulator (`AdvanceFits`, `SeekFits`);
with it `PageInv` has the player belong to the match that is shown, a timed loop
imply a frame of this stretch of playing, and what can be set as a side pass the
upload's checks. `PausedTimeIsNotPlayed` is then a fact about a single step, and so is
`OnlyMisfitsThrow`: what resolves has passed the checks, so that `init` can throw
for an augment only, and decide() for a squad.

Some of what is proved is not model-checked again in a run, because the theorem
says more: the type invariants of all modules; `PoolIsWaiting`,
`EarlierIsSideA`, `BoundedRetries`, `EntryIdentityKept`, `ResultRetained`;
`ReadsStayFresh`, `OutcomesAreTrue`, `RatingIsFinal`; the two theorems about the
codec and the one about `isqrt`; and the ranks below. Each was checked by TLC before it
was proved, and
so was every inductive invariant above (`Nat` narrowed to what TLC can enumerate).

Recursive definitions (`isqrt`, `pickBest`, `InOrder`, `compute_gae`) are recursive
functions, and what they compute is proved by infinite descent: a set of
arguments that go wrong would have a least one. `WellFoundedInduction` provides that a set
of numbers has a least element (`LeastOf`); its induction theorems, which take
an operator, are not used.

### Why things end

Liveness under fairness and ENABLED are out of the prover's reach, and so the nine
liveness properties (`PairableIsServed`, `ResolvingEnds`, `Drains`, `CallsEnd`,
`MatchEnds`, `CallsReturn`, `WaitingIsAnswered`, `PlaybackEnds`, `PursuitEnds`) stay
with TLC. Every other property of a passing run is a theorem. What can be proved
about an end is that every step comes nearer to it and that there is always a
step to take; then nothing is left of the property but that the steps which can
be taken are taken, which is section 3's fairness:

| property | every step comes nearer | there is a step to take |
|---|---|---|
| `CallsEnd` | `CallsRunOut`: each step is one of at most eight of one call and lengthens no other | `WorkIsNeverStuck`: by `NoDeadlock` some call waits for none of the others, and whoever holds a lock is under way, so that call finds its lock free |
| `MatchEnds` | `MatchGoesForward`: ticks, then stages, then units, then dots | `MatchNeverStalls`: between two ticks there is a tick left; in every other stage a turn is idled or kept |
| `CallsReturn` | `CallsAlwaysRunDown`: fewer lines to handle, a bridge that ends, or the one request for the frames that are missing | `AnswersAreComing`: the request or the answer is on the way, or the bridge is dead |
| `PlaybackEnds` | `PlaybackOnlyGoesOn`: a frame that plays brings playback on or to its end; only a seek or another match takes it back | a loop that is armed has requested a frame (`Settled`) |
| `PairableIsServed` | `WindowsRunDown`: nobody who joins, leaves or fails prolongs a window | `TimerIsArmed`; and `PassesServe`, the pass that comes takes a pair |
| `Drains` | `RetriesAreSpent` with `RetriesAreBounded`: a failure costs both players a chance, and only who queues afresh gets it back | `TimerIsArmed` |
| `PursuitEnds` | `EveryStepIsSound` (`NoStall`): each step of two or more is nearer to the target, unless the target walks | a living unit that is not in reach walks |
| `WaitingIsAnswered` | | `NeverStranded`: a poll is armed or under way |

`WorkIsNeverStuck` needs two invariants that nothing else does: a statement over
rows has one to take (`HasRows`), and an uncommitted row is locked by its writer
(`DirtyHeld`). `CallsAlwaysRunDown` needs that a call which already has the frames of its
reset batch asks for no second one (a conjunct of `Arrived`) and that no request and
no answer is empty (`AsksSomething`), since an empty answer would bring nobody
nearer. `PassesServe` needs that only finitely many players wait (`FewWait`), or the
size of the pool would mean nothing. `CanGoOn` of `RatingTransactions` is the guard of
the call's next statement written out; TLC compared it with ENABLED.

## 5. Where the repository's words and its code differ

One run ends in a counterexample on purpose and checks a sentence of the
repository. `local_drafts`: tests say that a saved warband round-trips through load
(`persistence.test.ts:24`) and that an exported one comes back losslessly
(`warband-io.test.ts:15-16`). `serializeUnit` (`warband-io.ts:8-15`) does not
write `augmentIds`: a warband that is imported with augments loses them on
Save and on Export.

Other differences, found while modelling, that no run is spent on:

* The frame is said to take "status presence from applied/expired pairs"
  (`frame-state.ts:57-58`). Dots stack, each expiry is an event of its own, and the
  viewer drops its one marker at the first of them: a unit that still carries a
  dot is shown without. Add `INVARIANT FrameShowsDots` to `MCBattleLoop.cfg` to see
  it; `FrameShowsWorld` states the direction that holds.
* The registry and the schemas let a build name one skill twice
  (`schemas.ts:82-83`). The unit then has two states of it; a cast looks at
  the first (`loop.ts:101`) and the vector shows the last (`observation.ts:73-80`), so
  that a cooldown of 0, documented as ready (`behavior.ts:7`), is shown for a
  skill whose cast is refused. Give `Equipped` the value `TwiceValue` and
  check `ShownReadyIsReady` in `MCAgentWire.cfg` to see it.
* `settled()` is said to follow passes whose resolver tails never overlap
  (`service.ts`). They overlap as soon as a second pass starts while the first
  batch is being resolved, and `settled()` then covers the second only. Players are
  unaffected: `OneSeat` is proved with overlapping passes.
* The age cap is said to bite only after several failed attempts. A player who
  has waited alone may exceed it before the first pairing, and one failure then
  evicts. A pairing that fails after `dispose()` arms a new timer.
* A Join or Leave pressed while Log out awaits its answer leaves a poll armed on a
  signed-out panel: its answer belongs to the new generation, arms a timer, and
  the continuation of logout (`OnlineMode.tsx:163`) clears none.
* The checks of the builder and of the server look at the ids of roles, skills
  and behaviors only (`warband-io.ts:46-49`, `warbands/routes.ts:41-48`). Two things
  are nobody's business until the engine throws: an unknown augment (`init`), and
  `policy-smoke-v1`, registered and offered like any behavior, in a match that is not one
  against one (its first decide()). In the browser the page goes blank; a warband
  of one unit with that behavior does it against the bundled sample.
  `OnlyMisfitsThrow` says that nothing else does this. On the server a pairing with
  such a warband fails, and the opponent is retried and in the end evicted with
  its owner.
* `ppo_update` normalises advantages by their standard deviation; with a single
  valid sample that is NaN. A rollout of one to three steps in one
  sub-environment can have just one; `UpdatesHaveSamples` bounds their number
  from below.

## 6. Not modelled, and why

* **Glicko-2 arithmetic, policy networks, losses, weights of the reward terms**:
  floating point; TLC has integers only.
* **PRNG and hash**: 32-bit products exceed TLC's integers unless split; no
  property of another module depends on their values.
* **featurize.py, inference, export of weights**: floating point, and pinned by
  golden files that both languages share.
* **Reads** (rating route, lists, readiness): they change no state.
* **Cosmetics**: grants are idempotent inserts and nothing revokes them.
* **Foundry, CLI, configuration, app assembly**: sequential pipelines and wiring that
  keep no state.
* **Drawing, wording, error lines**: output only.
* **Password hashing, CSRF secrets, rate limits**: inside `Fail` of `OnlineMode`.

Hazards that are not in the list of `PROJECT.json` because nothing modelled or
promised decides them: two logins that rotate one session id at once (what holds
is what the session library does), registration that inserts a user and
fails before the rotation (the user may simply log in), Join pressed twice
and `me()` racing a login (section 2, OnlineMode).

## 7. What could come next

Every component whose correctness depends on order, concurrency or failure has its
module, every safety property of a run is a theorem, and of each liveness property
the part without fairness is one too, but for two gaps: no theorem bounds the
number of polls after which a waiting panel is answered (`WaitingIsAnswered`: the
server side of `OnlineMode` may move between any two), and the ranks of
`Drains` are per player, not one number for the whole pool.

1. A refinement of `MatchPipeline`'s rating step by `AtomicRatings`, with one call per
   reported match, would join the two halves of the server in one specification.
2. `Training` assumes an environment that behaves as `GymBridge`'s does; a
   refinement mapping between the two would say so formally.
