------------------------------ MODULE Training ------------------------------
(***************************************************************************)
(* How a policy is trained and judged: the PPO loop and its rollouts       *)
(* (gym/warwright_gym/training/ppo.py), the reward-shaping wrapper between *)
(* it and the vector environment (rewards.py) and evaluate() (evaluate.py).*)
(*                                                                         *)
(* The vector environment restarts a sub-environment on the call AFTER the *)
(* one that ended its episode (NEXT_STEP autoreset): it drops that call's  *)
(* action and answers with the first frame of the next episode.  Wrapper,  *)
(* rollout, advantages and evaluation each keep their own account of these *)
(* boundary steps.  They have to agree across the ends of rollouts, across *)
(* runs on one environment, and after a call that raised.                  *)
(*                                                                         *)
(* An observation is the frame it shows.  Rewards and advantages are not   *)
(* numbers but the frames that they are computed from.                     *)
(***************************************************************************)
EXTENDS Integers, FiniteSets, Sequences

CONSTANTS
  NumEnvs,      (* num_envs                                                *)
  Length,       (* steps after which the tick cap ends an episode          *)
  NumSteps,     (* num_steps, the length of a rollout                      *)
  NumUpdates,   (* total_timesteps // (num_steps * num_envs)               *)
  NumBatches,   (* num_batches of one evaluate()                           *)
  MaxEvalSteps, (* MAX_EVAL_STEPS                                          *)
  MaxResets,    (* bound: calls of reset()                                 *)
  NoFrame,      (* _prev_obs is None                                       *)
  NoReward,     (* the reward of a boundary step, 0.0                      *)
  NoWinner      (* None in batch_winners                                   *)

EnvIds == 0..(NumEnvs - 1)

(* The frame a match shows `age` steps into the nth episode of its         *)
(* sub-environment since the given reset(); a reset is pinned to its seed, *)
(* so that episode 1 is the same match whenever that reset is made.        *)
Frame == [reset : Nat, nth : Nat, age : 0..Length]
Episode(f) == <<f.reset, f.nth>>

(* What a shaped reward tells apart: the two frames whose hp it takes the  *)
(* difference of, and whether the terminal term was added.                 *)
Reward == [from : Frame \cup {NoFrame}, to : Frame, ended : BOOLEAN]

Transition == [obs : Frame, reward : Reward \cup {NoReward},
               terminated : BOOLEAN]

(* evaluate.py: 6000 ticks at 20 a step are 300 calls, under the 400 that  *)
(* MAX_EVAL_STEPS allows.                                                  *)
ASSUME TrainingAssumption ==
  /\ {NumEnvs, Length, NumSteps, NumUpdates, NumBatches} \subseteq Nat \ {0}
  /\ MaxEvalSteps \in Nat /\ MaxEvalSteps >= Length
  /\ MaxResets \in Nat
  /\ NoFrame \notin Frame /\ NoReward \notin Reward
  /\ NoWinner \notin Nat \X Nat

VARIABLES
  frames,         (* the vector environment: what each match shows now     *)
  autoreset,      (* its _autoreset: who restarts on the next call         *)
  resets,         (* calls of reset() so far                               *)
  prevObs,        (* RewardShapingWrapper._prev_obs                        *)
  prevTerminated, (* RewardShapingWrapper._prev_terminated                 *)
  mode,           (* which loop runs: none, train() or evaluate()          *)
  obs,            (* the loop's current observation                        *)
  pendingReset,   (* train(): pending_reset                                *)
  buffer,         (* collect_rollout(): the transitions so far             *)
  updates,        (* train(): updates made                                 *)
  winners,        (* evaluate(): batch_winners, a winner by its episode    *)
  evalSteps,      (* evaluate(): steps made in this batch                  *)
  report,         (* evaluate(): winners, a batch per element              *)
  played          (* history: steps of matches made since the last update  *)

env == <<frames, autoreset, resets>>
wrapper == <<prevObs, prevTerminated>>
training == <<obs, pendingReset, buffer, updates, played>>
evaluation == <<winners, evalSteps, report>>
vars == <<env, wrapper, mode, training, evaluation>>

-----------------------------------------------------------------------------
(* The vector environment                                                  *)

(* WarwrightVectorEnv.reset()                                              *)
ResetEnv ==
  /\ resets < MaxResets
  /\ resets' = resets + 1
  /\ frames' = [e \in EnvIds |-> [reset |-> resets', nth |-> 1, age |-> 0]]
  /\ autoreset' = {}

NextFrame(e) ==
  IF e \in autoreset
  THEN [frames[e] EXCEPT !.nth = @ + 1, !.age = 0]
  ELSE [frames[e] EXCEPT !.age = @ + 1]

(* WarwrightVectorEnv.step(): the flags it sets for its own next call are  *)
(* those it returns as `terminated`.                                       *)
StepEnv(terminated) ==
  /\ frames' = [e \in EnvIds |-> NextFrame(e)]
  /\ autoreset' = terminated
  /\ UNCHANGED resets

(* Which episodes may end with this call.                                  *)
Endings ==
  {es \in SUBSET (EnvIds \ autoreset) :
     \A e \in EnvIds \ autoreset : frames[e].age + 1 = Length => e \in es}

-----------------------------------------------------------------------------
(* RewardShapingWrapper                                                    *)

(* step(): a frame that follows a terminal one is a new episode's.         *)
RewardFor(e, terminated) ==
  IF e \in prevTerminated THEN NoReward
  ELSE [from |-> prevObs[e], to |-> frames'[e], ended |-> e \in terminated]

ResetWrapper ==
  /\ prevObs' = frames'
  /\ prevTerminated' = {}

(* Every frame is the next baseline, a boundary step's too.               *)
StepWrapper(terminated) ==
  /\ prevObs' = frames'
  /\ prevTerminated' = terminated

-----------------------------------------------------------------------------
(* train()                                                                 *)

Init ==
  /\ frames = [e \in EnvIds |-> [reset |-> 0, nth |-> 0, age |-> 0]]
  /\ autoreset = {} /\ resets = 0
  /\ prevObs = [e \in EnvIds |-> NoFrame] /\ prevTerminated = {}
  /\ mode = "idle"
  /\ obs = frames /\ pendingReset = {} /\ buffer = <<>> /\ updates = 0
  /\ played = {}
  /\ winners = [e \in EnvIds |-> NoWinner]
  /\ evalSteps = 0 /\ report = <<>>

(* A call of train(): reset, and no reset is pending after that.           *)
Train ==
  /\ mode = "idle"
  /\ ResetEnv /\ ResetWrapper
  /\ mode' = "train"
  /\ obs' = frames' /\ pendingReset' = {}
  /\ buffer' = <<>> /\ updates' = 0 /\ played' = {}
  /\ UNCHANGED evaluation

(* One step of collect_rollout().                                          *)
Collect ==
  /\ mode = "train" /\ Len(buffer) < NumSteps
  /\ \E terminated \in Endings :
       /\ StepEnv(terminated) /\ StepWrapper(terminated)
       /\ buffer' = Append(buffer,
            [e \in EnvIds |-> [obs |-> obs[e],
                               reward |-> RewardFor(e, terminated),
                               terminated |-> e \in terminated]])
       /\ played' = played \cup
            {[of |-> e, from |-> frames[e], to |-> frames'[e],
              ended |-> e \in terminated] : e \in EnvIds \ autoreset}
  /\ obs' = frames'
  /\ UNCHANGED <<mode, pendingReset, updates, evaluation>>

EndedAt(t) == {e \in EnvIds : buffer[t][e].terminated}

(* Mutant: an episode's end masks the rest of the rollout.                 *)
PendingForGood(t) ==
  IF t = 1 THEN pendingReset ELSE UNION {EndedAt(s) : s \in 1..(t - 1)}

(* mask_invalid_steps(): who was waiting for its reset at index t.         *)
PendingAt(t) == IF t = 1 THEN pendingReset ELSE EndedAt(t - 1)

(* Mutant: every rollout begins with no reset pending.                     *)
NothingPending == {}

PendingAfter == EndedAt(NumSteps)

(* The samples ppo_update() keeps.                                         *)
Samples == {s \in (1..NumSteps) \X EnvIds : s[2] \notin PendingAt(s[1])}

RewardFrames(r) == IF r = NoReward THEN {} ELSE {r.from, r.to}

(* The observations whose value is bootstrapped from at index t: the next  *)
(* one, or `last_value`'s.                                                 *)
NextObs(t, e) == IF t = NumSteps THEN obs[e] ELSE buffer[t + 1][e].obs

(* Mutant: the recursion runs on past the end of an episode.               *)
UngatedAdvantage(e) ==
  LET gae[t \in 1..NumSteps] ==
        LET step == buffer[t][e] IN
        RewardFrames(step.reward) \cup {step.obs}
          \cup (IF step.terminated THEN {} ELSE {NextObs(t, e)})
          \cup (IF t = NumSteps THEN {} ELSE gae[t + 1])
  IN gae

(* compute_gae(), backwards through the rollout: the frames that the       *)
(* advantage and the return at each index depend on.  `next_nonterminal`   *)
(* is a factor of everything that comes from later.                        *)
Advantage(e) ==
  LET gae[t \in 1..NumSteps] ==
        LET step == buffer[t][e] IN
        RewardFrames(step.reward) \cup {step.obs}
          \cup (IF step.terminated THEN {}
                ELSE {NextObs(t, e)}
                       \cup (IF t = NumSteps THEN {} ELSE gae[t + 1]))
  IN gae

(* compute_gae() and ppo_update() on a full rollout; an update with no     *)
(* sample raises.                                                          *)
Update ==
  /\ mode = "train" /\ Len(buffer) = NumSteps
  /\ mode' = IF Samples = {} \/ updates + 1 = NumUpdates THEN "idle" ELSE "train"
  /\ pendingReset' = PendingAfter
  /\ buffer' = <<>> /\ updates' = updates + 1 /\ played' = {}
  /\ UNCHANGED <<env, wrapper, obs, evaluation>>

-----------------------------------------------------------------------------
(* evaluate()                                                              *)

StartBatch ==
  /\ ResetEnv
  /\ obs' = frames'
  /\ winners' = [e \in EnvIds |-> NoWinner]
  /\ evalSteps' = 0

Evaluate ==
  /\ mode = "idle"
  /\ StartBatch
  /\ mode' = "evaluate" /\ report' = <<>>
  /\ UNCHANGED <<wrapper, pendingReset, buffer, updates, played>>

AllDone == \A e \in EnvIds : winners[e] # NoWinner

(* Mutant: a later episode's winner replaces the first one's.              *)
RecordedAgain(e, terminated) ==
  IF e \in terminated THEN Episode(frames'[e]) ELSE winners[e]

(* Only the first winner of each sub-environment is recorded.              *)
Recorded(e, terminated) ==
  IF e \in terminated /\ winners[e] = NoWinner
  THEN Episode(frames'[e]) ELSE winners[e]

EvalStep ==
  /\ mode = "evaluate" /\ ~AllDone /\ evalSteps < MaxEvalSteps
  /\ \E terminated \in Endings :
       /\ StepEnv(terminated)
       /\ winners' = [e \in EnvIds |-> Recorded(e, terminated)]
  /\ evalSteps' = evalSteps + 1
  /\ obs' = frames'
  /\ UNCHANGED <<wrapper, mode, pendingReset, buffer, updates, played, report>>

(* The batch's loop is over: the next batch, the result or an exception.   *)
EndBatch ==
  /\ mode = "evaluate" /\ (AllDone \/ evalSteps = MaxEvalSteps)
  /\ IF ~AllDone
     THEN mode' = "stuck" /\ UNCHANGED <<env, obs, evaluation>>
     ELSE /\ report' = Append(report, winners)
          /\ IF Len(report') = NumBatches
             THEN mode' = "idle" /\ UNCHANGED <<env, obs, winners, evalSteps>>
             ELSE StartBatch /\ UNCHANGED mode
  /\ UNCHANGED <<wrapper, pendingReset, buffer, updates, played>>

-----------------------------------------------------------------------------
(* reset() or step() of the environment raises, and the exception ends     *)
(* train() or evaluate().  Neither the environment nor the wrapper has     *)
(* assigned anything by then, and the caller may use both again.           *)
Raise ==
  /\ mode \in {"train", "evaluate"}
  /\ mode' = "idle"
  /\ UNCHANGED <<env, wrapper, training, evaluation>>

Next == Train \/ Collect \/ Update \/ Evaluate \/ EvalStep \/ EndBatch \/ Raise

Spec == Init /\ [][Next]_vars

-----------------------------------------------------------------------------
TypeOK ==
  /\ frames \in [EnvIds -> Frame] /\ obs \in [EnvIds -> Frame]
  /\ prevObs \in [EnvIds -> Frame \cup {NoFrame}]
  /\ autoreset \subseteq EnvIds /\ prevTerminated \subseteq EnvIds
  /\ pendingReset \subseteq EnvIds
  /\ mode \in {"idle", "train", "evaluate", "stuck"}
  /\ buffer \in Seq([EnvIds -> Transition]) /\ Len(buffer) <= NumSteps
  /\ resets \in 0..MaxResets /\ updates \in 0..NumUpdates
  /\ evalSteps \in 0..MaxEvalSteps
  /\ winners \in [EnvIds -> (Nat \X Nat) \cup {NoWinner}]

(* The step of a match that a sample of the buffer claims to be.           *)
Claim(s) ==
  LET step == buffer[s[1]][s[2]] IN
  [of |-> s[2], from |-> step.obs, to |-> step.reward.to,
   ended |-> step.reward.ended]

(* Every update trains on the steps its matches really made since the last *)
(* update, each of them once and none besides: no boundary step, none lost *)
(* at the seam of two rollouts, and each with the reward of its own two    *)
(* frames.                                                                 *)
TrainsOnWhatWasPlayed ==
  [][Update =>
       /\ \A s \in Samples :
            LET step == buffer[s[1]][s[2]] IN
            step.reward # NoReward /\ step.reward.from = step.obs
       /\ {Claim(s) : s \in Samples} = played
       /\ Cardinality(Samples) = Cardinality(played)]_vars

(* The frames of the rollout from sample s on to the end of its episode.   *)
Future(s) ==
  LET now == buffer[s[1]][s[2]].obs
      later == {p \in played : /\ p.of = s[2]
                               /\ Episode(p.from) = Episode(now)
                               /\ p.from.age >= now.age}
  IN UNION {{p.from, p.to} : p \in later}

(* compute_gae treats boundary steps like any other, "deliberate and safe":*)
(* a trained sample's advantage depends on what its own episode showed from*)
(* there on, on all of that, and on nothing of the episode after it.       *)
AdvantagesStayInEpisode ==
  [][Update => \A s \in Samples : Advantage(s[2])[s[1]] = Future(s)]_vars

(* Two boundary steps never follow each other, whatever a rollout inherits *)
(* from the one before: at least every other step of it can be trained on, *)
(* and "every buffered step was an autoreset boundary" is only ever raised *)
(* for rollouts of one step.                                               *)
UpdatesHaveSamples ==
  [][Update => Cardinality(Samples) >= NumEnvs * (NumSteps \div 2)]_vars

(* evaluate() judges the pinned matches only, the first episode after each *)
(* reset(seed=seed_base + batch), however long the slower sub-environments *)
(* keep the others running; and it never gives up on a batch.              *)
EvaluatesPinnedMatches ==
  /\ mode # "stuck"
  /\ \A e \in EnvIds : winners[e] # NoWinner => winners[e][2] = 1
  /\ \A b \in DOMAIN report : \A e \in EnvIds :
       report[b][e] = <<report[1][0][1] + b - 1, 1>>
=============================================================================
