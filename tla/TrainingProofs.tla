--------------------------- MODULE TrainingProofs ---------------------------
(***************************************************************************)
(* Proofs about Training, for any number of sub-environments and batches   *)
(* and any length of episodes and rollouts.                                *)
(***************************************************************************)
EXTENDS Training, FiniteSetTheorems, WellFoundedInduction, TLAPS

(* There is a sub-environment 0.                                           *)
LEMMA FirstEnv == 0 \in EnvIds
BY TrainingAssumption DEF TrainingAssumption, EnvIds

-----------------------------------------------------------------------------
(* Evaluation.                                                             *)

EvalTypes ==
  /\ frames \in [EnvIds -> Frame]
  /\ autoreset \subseteq EnvIds
  /\ resets \in Nat /\ evalSteps \in Nat
  /\ mode \in {"idle", "train", "evaluate"}
  /\ winners \in [EnvIds -> (Nat \X Nat) \cup {NoWinner}]
  /\ report \in Seq([EnvIds -> Nat \X Nat])

(* A match that may go on has steps left.                                  *)
EpisodesOpen == \A e \in EnvIds \ autoreset : frames[e].age < Length

(* Who has not won yet still plays the first match of this batch's reset,  *)
(* as many steps of it as the batch has made; who has, won that match.     *)
BatchIsPinned ==
  mode = "evaluate" => \A e \in EnvIds :
    IF winners[e] = NoWinner
    THEN e \notin autoreset
         /\ frames[e] = [reset |-> resets, nth |-> 1, age |-> evalSteps]
    ELSE winners[e] = <<resets, 1>>

WinnersArePinned ==
  \A e \in EnvIds : winners[e] # NoWinner => winners[e][2] = 1

ReportIsPinned ==
  \A b \in DOMAIN report : \A e \in EnvIds :
    report[b][e] = <<report[1][0][1] + b - 1, 1>>

(* One reset per batch since the report was begun.                         *)
ReportIsCurrent ==
  mode = "evaluate" /\ report # <<>> => report[1][0][1] = resets - Len(report)

EvalInv ==
  EvalTypes /\ EpisodesOpen /\ BatchIsPinned /\ WinnersArePinned
  /\ ReportIsPinned /\ ReportIsCurrent

(* A call of reset() starts everybody's first match.                       *)
LEMMA ResetStarts ==
  ASSUME EvalTypes, ResetEnv
  PROVE  /\ frames' \in [EnvIds -> Frame]
         /\ autoreset' = {}
         /\ resets' = resets + 1 /\ resets' \in Nat
         /\ \A e \in EnvIds : frames'[e] = [reset |-> resets', nth |-> 1, age |-> 0]
         /\ EpisodesOpen'
<1>1. Length \in Nat \ {0} /\ 0 \in 0..Length
  BY TrainingAssumption DEF TrainingAssumption
<1>2. resets' = resets + 1 /\ resets' \in Nat /\ autoreset' = {}
  BY DEF EvalTypes, ResetEnv
<1>3. frames' = [e \in EnvIds |-> [reset |-> resets', nth |-> 1, age |-> 0]]
  BY DEF ResetEnv
<1>4. [reset |-> resets', nth |-> 1, age |-> 0] \in Frame
  BY <1>1, <1>2 DEF Frame
<1>5. frames' \in [EnvIds -> Frame]
  BY <1>3, <1>4
<1>6. \A e \in EnvIds : frames'[e] = [reset |-> resets', nth |-> 1, age |-> 0]
  BY <1>3
<1>7. EpisodesOpen'
  BY <1>1, <1>6 DEF EpisodesOpen
<1> QED BY <1>2, <1>5, <1>6, <1>7

(* A step keeps every match within its length.                             *)
LEMMA StepKeepsLength ==
  ASSUME EvalTypes, EpisodesOpen, NEW terminated \in Endings, StepEnv(terminated)
  PROVE  /\ frames' \in [EnvIds -> Frame]
         /\ autoreset' = terminated /\ autoreset' \subseteq EnvIds \ autoreset
         /\ \A e \in EnvIds : frames'[e] = NextFrame(e)
         /\ EpisodesOpen'
<1>1. Length \in Nat \ {0}
  BY TrainingAssumption DEF TrainingAssumption
<1>2. /\ frames' = [e \in EnvIds |-> NextFrame(e)]
      /\ autoreset' = terminated
  BY DEF StepEnv
<1>3. /\ terminated \subseteq EnvIds \ autoreset
      /\ \A e \in EnvIds \ autoreset : frames[e].age + 1 = Length => e \in terminated
  BY DEF Endings
<1>4. ASSUME NEW e \in EnvIds
      PROVE  NextFrame(e) \in Frame /\ (e \notin terminated => NextFrame(e).age < Length)
  <2>1. frames[e] \in Frame
    BY DEF EvalTypes
  <2>2. CASE e \in autoreset
    <3>1. NextFrame(e) = [frames[e] EXCEPT !.nth = @ + 1, !.age = 0]
      BY <2>2 DEF NextFrame
    <3>2. NextFrame(e) = [reset |-> frames[e].reset, nth |-> frames[e].nth + 1, age |-> 0]
      BY <2>1, <3>1 DEF Frame
    <3>3. 0 \in 0..Length /\ 0 < Length
      BY <1>1
    <3>4. NextFrame(e) \in Frame
      BY <2>1, <3>2, <3>3 DEF Frame
    <3> QED BY <3>2, <3>3, <3>4
  <2>3. CASE e \notin autoreset
    <3>1. NextFrame(e) = [frames[e] EXCEPT !.age = @ + 1]
      BY <2>3 DEF NextFrame
    <3>2. frames[e].age < Length
      BY <2>3 DEF EpisodesOpen
    <3> QED BY <1>1, <1>3, <2>1, <2>3, <3>1, <3>2 DEF Frame
  <2> QED BY <2>2, <2>3
<1>5. \A e \in EnvIds : frames'[e] = NextFrame(e)
  BY <1>2
<1>6. frames' \in [EnvIds -> Frame]
  BY <1>2, <1>4
<1>7. EpisodesOpen'
  BY <1>2, <1>4, <1>5 DEF EpisodesOpen
<1> QED BY <1>2, <1>3, <1>5, <1>6, <1>7

(* A new batch is pinned.                                                  *)
LEMMA StartPins ==
  ASSUME EvalTypes, StartBatch, mode' = "evaluate"
  PROVE  /\ frames' \in [EnvIds -> Frame] /\ autoreset' \subseteq EnvIds
         /\ resets' = resets + 1 /\ resets' \in Nat
         /\ winners' \in [EnvIds -> (Nat \X Nat) \cup {NoWinner}]
         /\ evalSteps' \in Nat
         /\ EpisodesOpen' /\ BatchIsPinned' /\ WinnersArePinned'
<1>1. ResetEnv /\ winners' = [e \in EnvIds |-> NoWinner] /\ evalSteps' = 0
  BY DEF StartBatch
<1> QED BY <1>1, ResetStarts DEF BatchIsPinned, WinnersArePinned

(* Every step keeps the invariant.                                         *)
LEMMA EvalStepKeeps == EvalInv /\ [Next]_vars => EvalInv'
<1> SUFFICES ASSUME EvalInv, [Next]_vars PROVE EvalInv'
  OBVIOUS
<1> USE DEF EvalInv
<1>1. ASSUME Train PROVE EvalInv'
  <2>1. /\ ResetEnv /\ mode' = "train"
        /\ UNCHANGED <<winners, evalSteps, report>>
    BY <1>1 DEF Train, evaluation
  <2>2. EvalTypes' /\ EpisodesOpen'
    BY <2>1, ResetStarts DEF EvalTypes
  <2> QED BY <2>1, <2>2 DEF BatchIsPinned, WinnersArePinned, ReportIsPinned, ReportIsCurrent
<1>2. ASSUME Collect PROVE EvalInv'
  <2>1. PICK terminated \in Endings : StepEnv(terminated)
    BY <1>2 DEF Collect
  <2>2. mode = "train" /\ UNCHANGED <<mode, winners, evalSteps, report>>
    BY <1>2 DEF Collect, evaluation
  <2>3. UNCHANGED resets
    BY <2>1 DEF StepEnv
  <2>4. EvalTypes' /\ EpisodesOpen'
    BY <2>1, <2>2, <2>3, StepKeepsLength DEF EvalTypes
  <2> QED BY <2>2, <2>4 DEF BatchIsPinned, WinnersArePinned, ReportIsPinned, ReportIsCurrent
<1>3. ASSUME Update PROVE EvalInv'
  <2>1. /\ mode' \in {"idle", "train"}
        /\ UNCHANGED <<frames, autoreset, resets, winners, evalSteps, report>>
    BY <1>3 DEF Update, env, evaluation
  <2> QED BY <2>1 DEF EvalTypes, EpisodesOpen, BatchIsPinned, WinnersArePinned,
                      ReportIsPinned, ReportIsCurrent
<1>4. ASSUME Evaluate PROVE EvalInv'
  <2>1. StartBatch /\ mode' = "evaluate" /\ report' = <<>>
    BY <1>4 DEF Evaluate
  <2>2. EpisodesOpen' /\ BatchIsPinned' /\ WinnersArePinned'
    BY <2>1, StartPins
  <2>3. report' \in Seq([EnvIds -> Nat \X Nat]) /\ DOMAIN report' = {}
    BY <2>1
  <2>4. EvalTypes'
    BY <2>1, <2>3, StartPins DEF EvalTypes
  <2> QED BY <2>1, <2>2, <2>3, <2>4 DEF ReportIsPinned, ReportIsCurrent
<1>5. ASSUME EvalStep PROVE EvalInv'
  <2>1. PICK terminated \in Endings :
          /\ StepEnv(terminated)
          /\ winners' = [e \in EnvIds |-> Recorded(e, terminated)]
    BY <1>5 DEF EvalStep
  <2>2. /\ mode = "evaluate" /\ mode' = "evaluate"
        /\ evalSteps' = evalSteps + 1 /\ UNCHANGED <<resets, report>>
    BY <1>5, <2>1 DEF EvalStep, StepEnv
  <2>3. /\ frames' \in [EnvIds -> Frame] /\ EpisodesOpen'
        /\ autoreset' = terminated /\ autoreset' \subseteq EnvIds \ autoreset
        /\ \A e \in EnvIds : frames'[e] = NextFrame(e)
    BY <2>1, StepKeepsLength
  <2>4. NoWinner \notin Nat \X Nat
    BY TrainingAssumption DEF TrainingAssumption
  <2>5. ASSUME NEW e \in EnvIds
        PROVE  /\ winners'[e] \in (Nat \X Nat) \cup {NoWinner}
               /\ winners'[e] # NoWinner => winners'[e] = <<resets, 1>>
               /\ winners'[e] = NoWinner =>
                    /\ e \notin autoreset'
                    /\ frames'[e] = [reset |-> resets, nth |-> 1, age |-> evalSteps']
    <3>1. winners'[e] = Recorded(e, terminated)
      BY <2>1
    <3>2. CASE winners[e] # NoWinner
      <4>1. winners[e] = <<resets, 1>>
        BY <2>2, <3>2 DEF BatchIsPinned
      <4>2. winners'[e] = winners[e]
        BY <3>1, <3>2 DEF Recorded
      <4>3. winners[e] \in (Nat \X Nat) \cup {NoWinner}
        BY DEF EvalTypes
      <4> QED BY <3>2, <4>1, <4>2, <4>3
    <3>3. CASE winners[e] = NoWinner
      <4>1. /\ e \notin autoreset
            /\ frames[e] = [reset |-> resets, nth |-> 1, age |-> evalSteps]
        BY <2>2, <3>3 DEF BatchIsPinned
      <4>2. frames'[e] = [reset |-> resets, nth |-> 1, age |-> evalSteps']
        <5>1. frames'[e] = [frames[e] EXCEPT !.age = @ + 1]
          BY <2>3, <4>1 DEF NextFrame
        <5> QED BY <2>2, <4>1, <5>1
      <4>3. CASE e \in terminated
        <5>1. winners'[e] = <<resets, 1>>
          BY <3>1, <3>3, <4>2, <4>3 DEF Recorded, Episode
        <5>2. <<resets, 1>> \in Nat \X Nat
          BY DEF EvalTypes
        <5> QED BY <2>4, <5>1, <5>2
      <4>4. CASE e \notin terminated
        <5>1. winners'[e] = NoWinner
          BY <3>1, <3>3, <4>4 DEF Recorded
        <5> QED BY <2>3, <4>2, <4>4, <5>1
      <4> QED BY <4>3, <4>4
    <3> QED BY <3>2, <3>3
  <2>6. EvalTypes'
    <3>1. winners' \in [EnvIds -> (Nat \X Nat) \cup {NoWinner}]
      BY <2>1, <2>5
    <3> QED BY <2>2, <2>3, <3>1 DEF EvalTypes
  <2>7. BatchIsPinned' /\ WinnersArePinned'
    BY <2>2, <2>5 DEF BatchIsPinned, WinnersArePinned
  <2> QED BY <2>2, <2>3, <2>6, <2>7 DEF ReportIsPinned, ReportIsCurrent
<1>6. ASSUME EndBatch PROVE EvalInv'
  <2>1. AllDone
    <3> SUFFICES ASSUME ~AllDone PROVE FALSE
      OBVIOUS
    <3>1. PICK e \in EnvIds : winners[e] = NoWinner
      BY DEF AllDone
    <3>2. mode = "evaluate" /\ evalSteps = MaxEvalSteps
      BY <1>6 DEF EndBatch
    <3>3. frames[e].age = evalSteps /\ e \notin autoreset
      BY <3>1, <3>2 DEF BatchIsPinned
    <3>4. evalSteps < Length
      BY <3>3 DEF EpisodesOpen
    <3>5. MaxEvalSteps \in Nat /\ MaxEvalSteps >= Length /\ Length \in Nat
      BY TrainingAssumption DEF TrainingAssumption
    <3> QED BY <3>2, <3>4, <3>5
  <2>2. /\ mode = "evaluate"
        /\ report' = Append(report, winners)
        /\ \/ /\ mode' = "idle"
              /\ UNCHANGED <<frames, autoreset, resets, winners, evalSteps>>
           \/ StartBatch /\ mode' = "evaluate"
    BY <1>6, <2>1 DEF EndBatch, env
  <2>3. \A e \in EnvIds : winners[e] = <<resets, 1>>
    BY <2>1, <2>2 DEF AllDone, BatchIsPinned
  <2>4. winners \in [EnvIds -> Nat \X Nat]
    <3>1. <<resets, 1>> \in Nat \X Nat
      BY DEF EvalTypes
    <3>2. winners = [e \in EnvIds |-> winners[e]]
      BY DEF EvalTypes
    <3>3. \A e \in EnvIds : winners[e] \in Nat \X Nat
      BY <2>3, <3>1
    <3> QED BY <3>2, <3>3
  <2>5. /\ report' \in Seq([EnvIds -> Nat \X Nat])
        /\ Len(report') = Len(report) + 1
        /\ DOMAIN report' = 1..(Len(report) + 1)
        /\ \A b \in 1..Len(report) : report'[b] = report[b]
        /\ report'[Len(report) + 1] = winners
    BY <2>2, <2>4 DEF EvalTypes
  <2>6. Len(report) \in Nat /\ DOMAIN report = 1..Len(report)
    BY DEF EvalTypes
  <2>7. report'[1][0][1] = resets - Len(report)
    <3>1. CASE report = <<>>
      <4>1. Len(report) = 0 /\ report'[1] = winners
        BY <2>5, <3>1
      <4>2. winners[0] = <<resets, 1>>
        BY <2>3, FirstEnv
      <4> QED BY <4>1, <4>2 DEF EvalTypes
    <3>2. CASE report # <<>>
      <4>1. 1 \in 1..Len(report)
        BY <3>2 DEF EvalTypes
      <4> QED BY <2>2, <2>5, <3>2, <4>1 DEF ReportIsCurrent
    <3> QED BY <3>1, <3>2
  <2>8. ReportIsPinned'
    <3> SUFFICES ASSUME NEW b \in DOMAIN report', NEW e \in EnvIds
                 PROVE  report'[b][e] = <<report'[1][0][1] + b - 1, 1>>
      BY DEF ReportIsPinned
    <3>1. CASE b \in 1..Len(report)
      <4>1. report'[b] = report[b] /\ report'[1] = report[1]
        BY <2>5, <2>6, <3>1
      <4>2. report[b][e] = <<report[1][0][1] + b - 1, 1>>
        BY <2>6, <3>1 DEF ReportIsPinned
      <4> QED BY <4>1, <4>2
    <3>2. CASE b = Len(report) + 1
      <4>1. report'[b][e] = <<resets, 1>>
        BY <2>3, <2>5, <3>2
      <4>2. report'[1][0][1] + b - 1 = resets
        BY <2>6, <2>7, <3>2 DEF EvalTypes
      <4> QED BY <4>1, <4>2
    <3> QED BY <2>5, <2>6, <3>1, <3>2
  <2>9. CASE mode' = "idle" /\ UNCHANGED <<frames, autoreset, resets, winners, evalSteps>>
    BY <2>5, <2>8, <2>9 DEF EvalTypes, EpisodesOpen, BatchIsPinned, WinnersArePinned,
                            ReportIsCurrent
  <2>10. CASE StartBatch /\ mode' = "evaluate"
    <3>1. /\ EpisodesOpen' /\ BatchIsPinned' /\ WinnersArePinned'
          /\ resets' = resets + 1
      BY <2>10, StartPins
    <3>2. EvalTypes'
      BY <2>5, <2>10, StartPins DEF EvalTypes
    <3>3. ReportIsCurrent'
      BY <2>5, <2>6, <2>7, <3>1 DEF ReportIsCurrent, EvalTypes
    <3> QED BY <2>8, <3>1, <3>2, <3>3
  <2> QED BY <2>2, <2>9, <2>10
<1>7. ASSUME Raise PROVE EvalInv'
  <2>1. /\ mode' = "idle"
        /\ UNCHANGED <<frames, autoreset, resets, winners, evalSteps, report>>
    BY <1>7 DEF Raise, env, evaluation
  <2> QED BY <2>1 DEF EvalTypes, EpisodesOpen, BatchIsPinned, WinnersArePinned,
                      ReportIsPinned, ReportIsCurrent
<1>8. ASSUME UNCHANGED vars PROVE EvalInv'
  BY <1>8 DEF vars, env, evaluation, EvalTypes, EpisodesOpen, BatchIsPinned,
              WinnersArePinned, ReportIsPinned, ReportIsCurrent
<1> QED BY <1>1, <1>2, <1>3, <1>4, <1>5, <1>6, <1>7, <1>8 DEF Next

(* Before the first reset nothing is pinned and nothing reported.          *)
LEMMA EvalStarts == Init => EvalInv
<1> SUFFICES ASSUME Init PROVE EvalInv
  OBVIOUS
<1>1. Length \in Nat \ {0} /\ 0 \in 0..Length
  BY TrainingAssumption DEF TrainingAssumption
<1>2. [reset |-> 0, nth |-> 0, age |-> 0] \in Frame
  BY <1>1 DEF Frame
<1>3. EvalTypes
  BY <1>2 DEF Init, EvalTypes
<1>4. EpisodesOpen
  BY <1>1 DEF Init, EpisodesOpen
<1> QED BY <1>3, <1>4 DEF Init, EvalInv, BatchIsPinned, WinnersArePinned,
                          ReportIsPinned, ReportIsCurrent

(* evaluate() never gives up on a batch and reports the winners of the     *)
(* pinned matches only, one batch per reset: evaluate.py's                 *)
(* reset(seed=seed_base + batch) and its first-winner rule.                *)
THEOREM EvaluationIsPinned == Spec => []EvaluatesPinnedMatches
<1>1. EvalInv => EvaluatesPinnedMatches
  BY DEF EvalInv, EvalTypes, WinnersArePinned, ReportIsPinned, EvaluatesPinnedMatches
<1> QED BY <1>1, EvalStarts, EvalStepKeeps, PTL DEF Spec
-----------------------------------------------------------------------------
(* Rollouts.                                                               *)

TrainTypes ==
  /\ prevObs \in [EnvIds -> Frame \cup {NoFrame}]
  /\ prevTerminated \subseteq EnvIds /\ pendingReset \subseteq EnvIds
  /\ buffer \in Seq([EnvIds -> Transition])

(* While train() runs, environment, wrapper and rollout agree on where the *)
(* matches are and on who restarts next.                                   *)
AccountsAgree ==
  mode = "train" =>
    /\ obs = frames /\ prevObs = frames /\ prevTerminated = autoreset
    /\ autoreset = IF buffer = <<>> THEN pendingReset ELSE EndedAt(Len(buffer))

(* The order in which a sub-environment shows its frames                   *)
Before(f, g) == f.nth < g.nth \/ (f.nth = g.nth /\ f.age < g.age)

(* No frame comes twice in a rollout.                                      *)
BufferIsOrdered ==
  mode = "train" => \A e \in EnvIds, t \in 1..Len(buffer) :
    /\ Before(buffer[t][e].obs, frames[e])
    /\ \A s \in 1..(t - 1) : Before(buffer[s][e].obs, buffer[t][e].obs)

(* What will be a sample when the rollout is full                          *)
SamplesSoFar ==
  {s \in (1..Len(buffer)) \X EnvIds : s[2] \notin PendingAt(s[1])}

SamplesAreSteps ==
  mode = "train" => \A t \in 1..Len(buffer), e \in EnvIds :
    e \notin PendingAt(t) =>
      /\ buffer[t][e].reward # NoReward
      /\ buffer[t][e].reward.from = buffer[t][e].obs

PlayedIsClaimed ==
  mode = "train" => played = {Claim(s) : s \in SamplesSoFar}

(* The frame that follows the one e acted on at index t of the rollout     *)
Shows(t, e) == IF t = Len(buffer) THEN frames[e] ELSE buffer[t + 1][e].obs

(* A rollout runs on from frame to frame: a boundary step into the next    *)
(* episode, ending nothing, every other step within its own.               *)
RolloutRuns ==
  mode = "train" => \A t \in 1..Len(buffer), e \in EnvIds :
    IF e \in PendingAt(t)
    THEN /\ ~buffer[t][e].terminated
         /\ Shows(t, e) = [buffer[t][e].obs EXCEPT !.nth = @ + 1, !.age = 0]
    ELSE /\ Shows(t, e) = [buffer[t][e].obs EXCEPT !.age = @ + 1]
         /\ buffer[t][e].reward.to = Shows(t, e)

TrainInv ==
  /\ TrainTypes /\ AccountsAgree /\ BufferIsOrdered /\ SamplesAreSteps
  /\ PlayedIsClaimed /\ RolloutRuns

(* An empty rollout that starts with its accounts in order is fine.        *)
LEMMA EmptyRollout ==
  ASSUME TrainTypes', AccountsAgree', buffer' = <<>>, played' = {}
  PROVE  TrainInv'
<1>1. Len(buffer') = 0 /\ 1..Len(buffer') = {}
  OBVIOUS
<1>2. SamplesSoFar' = {}
  BY <1>1 DEF SamplesSoFar
<1> QED BY <1>1, <1>2 DEF TrainInv, BufferIsOrdered, SamplesAreSteps, PlayedIsClaimed, RolloutRuns

(* One step of a rollout.                                                  *)
LEMMA CollectKeeps ==
  ASSUME EvalInv, TrainInv, Collect
  PROVE  TrainInv'
<1>0. PICK n \in Nat : n = Len(buffer)
  BY DEF TrainInv, TrainTypes
<1>1. PICK terminated \in Endings :
        /\ StepEnv(terminated) /\ StepWrapper(terminated)
        /\ buffer' = Append(buffer,
             [e \in EnvIds |-> [obs |-> obs[e],
                                reward |-> RewardFor(e, terminated),
                                terminated |-> e \in terminated]])
        /\ played' = played \cup
             {[of |-> e, from |-> frames[e], to |-> frames'[e],
               ended |-> e \in terminated] : e \in EnvIds \ autoreset}
  BY DEF Collect
<1>2. /\ mode = "train" /\ mode' = mode /\ pendingReset' = pendingReset
      /\ obs' = frames'
  BY DEF Collect
<1>3. /\ obs = frames /\ prevObs = frames /\ prevTerminated = autoreset
      /\ autoreset = IF buffer = <<>> THEN pendingReset ELSE EndedAt(n)
  BY <1>0, <1>2 DEF TrainInv, AccountsAgree
<1>4. /\ frames \in [EnvIds -> Frame] /\ frames' \in [EnvIds -> Frame]
      /\ autoreset \subseteq EnvIds
      /\ autoreset' = terminated /\ terminated \subseteq EnvIds \ autoreset
      /\ \A e \in EnvIds : frames'[e] = NextFrame(e)
  BY <1>1, StepKeepsLength DEF EvalInv, EvalTypes
<1>5. prevObs' = frames' /\ prevTerminated' = terminated
  BY <1>1 DEF StepWrapper
<1> DEFINE row == [e \in EnvIds |-> [obs |-> obs[e],
                                     reward |-> RewardFor(e, terminated),
                                     terminated |-> e \in terminated]]
<1>6. ASSUME NEW e \in EnvIds
      PROVE  /\ row[e] \in Transition
             /\ row[e].obs = frames[e] /\ (row[e].terminated <=> e \in terminated)
             /\ e \notin autoreset =>
                  /\ row[e].reward # NoReward
                  /\ row[e].reward.from = frames[e] /\ row[e].reward.to = frames'[e]
                  /\ row[e].reward.ended = (e \in terminated)
  <2>1. row[e] = [obs |-> frames[e], reward |-> RewardFor(e, terminated),
                  terminated |-> e \in terminated]
    BY <1>3
  <2>2. frames[e] \in Frame /\ frames'[e] \in Frame
    BY <1>4
  <2>3. [from |-> frames[e], to |-> frames'[e], ended |-> e \in terminated] \in Reward
    BY <2>2 DEF Reward
  <2>4. NoReward \notin Reward
    BY TrainingAssumption DEF TrainingAssumption
  <2>5. RewardFor(e, terminated) =
          IF e \in autoreset THEN NoReward
          ELSE [from |-> frames[e], to |-> frames'[e], ended |-> e \in terminated]
    BY <1>3 DEF RewardFor
  <2>6. RewardFor(e, terminated) \in Reward \cup {NoReward}
    BY <2>3, <2>5
  <2>7. row[e] \in Transition
    BY <2>1, <2>2, <2>6 DEF Transition
  <2>8. row[e].obs = frames[e] /\ row[e].reward = RewardFor(e, terminated)
        /\ row[e].terminated = (e \in terminated)
    BY <2>1
  <2> HIDE DEF row
  <2>9. ASSUME e \notin autoreset
        PROVE  /\ row[e].reward # NoReward
               /\ row[e].reward.from = frames[e] /\ row[e].reward.to = frames'[e]
               /\ row[e].reward.ended = (e \in terminated)
    <3>1. row[e].reward = [from |-> frames[e], to |-> frames'[e],
                           ended |-> e \in terminated]
      BY <2>5, <2>8, <2>9
    <3> QED BY <2>3, <2>4, <3>1
  <2> QED BY <2>7, <2>8, <2>9
<1>7. row \in [EnvIds -> Transition]
  BY <1>6
<1> HIDE DEF row
<1>8. /\ n \in Nat
      /\ buffer' \in Seq([EnvIds -> Transition])
      /\ Len(buffer') = n + 1 /\ buffer' # <<>>
      /\ \A t \in 1..n : buffer'[t] = buffer[t]
      /\ buffer'[n + 1] = row
  BY <1>0, <1>1, <1>7 DEF TrainInv, TrainTypes, row
<1>9. TrainTypes'
  BY <1>2, <1>4, <1>5, <1>8 DEF TrainInv, TrainTypes
<1>10. \A t \in 1..n : EndedAt(t)' = EndedAt(t)
  BY <1>8 DEF EndedAt
<1>11. EndedAt(n + 1)' = terminated
  BY <1>4, <1>6, <1>8 DEF EndedAt
<1>12. AccountsAgree'
  BY <1>2, <1>4, <1>5, <1>8, <1>11 DEF AccountsAgree
<1>13. \A t \in 1..n : PendingAt(t)' = PendingAt(t)
  BY <1>2, <1>8, <1>10 DEF PendingAt
<1>14. PendingAt(n + 1)' = autoreset
  <2>1. CASE n = 0
    <3>1. buffer = <<>>
      <4>1. buffer \in Seq([EnvIds -> Transition]) /\ Len(buffer) = 0
        BY <1>0, <2>1 DEF TrainInv, TrainTypes
      <4> QED BY <4>1
    <3> QED BY <1>2, <1>3, <2>1, <3>1 DEF PendingAt
  <2>2. CASE n # 0
    <3>1. buffer # <<>> /\ n \in 1..n /\ n + 1 # 1 /\ (n + 1) - 1 = n
      BY <1>0, <2>2 DEF TrainInv, TrainTypes
    <3>2. PendingAt(n + 1)' = EndedAt(n)'
      BY <3>1 DEF PendingAt
    <3> QED BY <1>3, <1>10, <3>1, <3>2
  <2> QED BY <2>1, <2>2
<1>15. BufferIsOrdered'
  <2> SUFFICES ASSUME NEW e \in EnvIds, NEW t \in 1..(n + 1)
               PROVE  /\ Before(buffer'[t][e].obs, frames'[e])
                      /\ \A s \in 1..(t - 1) : Before(buffer'[s][e].obs, buffer'[t][e].obs)
    BY <1>8 DEF BufferIsOrdered
  <2>1. Before(frames[e], frames'[e])
    <3>1. frames[e] \in Frame /\ frames'[e] = NextFrame(e)
      BY <1>4
    <3>2. CASE e \in autoreset
      <4>1. NextFrame(e) = [frames[e] EXCEPT !.nth = @ + 1, !.age = 0]
        BY <3>2 DEF NextFrame
      <4>2. NextFrame(e).nth = frames[e].nth + 1
        BY <3>1, <4>1 DEF Frame
      <4> QED BY <3>1, <4>2 DEF Before, Frame
    <3>3. CASE e \notin autoreset
      <4>1. NextFrame(e) = [frames[e] EXCEPT !.age = @ + 1]
        BY <3>3 DEF NextFrame
      <4>2. NextFrame(e).nth = frames[e].nth /\ NextFrame(e).age = frames[e].age + 1
        BY <3>1, <4>1 DEF Frame
      <4>3. frames[e].age \in Int
        BY <3>1, TrainingAssumption DEF Frame, TrainingAssumption
      <4> QED BY <3>1, <4>2, <4>3 DEF Before, Frame
    <3> QED BY <3>2, <3>3
  <2>2. \A s \in 1..n : Before(buffer[s][e].obs, frames[e])
    BY <1>0, <1>2 DEF TrainInv, BufferIsOrdered
  <2>3. CASE t = n + 1
    <3>1. buffer'[t][e].obs = frames[e]
      BY <1>6, <1>8, <2>3
    <3>2. \A s \in 1..(t - 1) : s \in 1..n /\ buffer'[s] = buffer[s]
      BY <1>8, <2>3
    <3> QED BY <2>1, <2>2, <3>1, <3>2
  <2>4. CASE t \in 1..n
    <3>1. buffer'[t] = buffer[t] /\ \A s \in 1..(t - 1) : buffer'[s] = buffer[s]
      BY <1>8, <2>4
    <3>2. /\ Before(buffer[t][e].obs, frames[e])
          /\ \A s \in 1..(t - 1) : Before(buffer[s][e].obs, buffer[t][e].obs)
      BY <1>0, <1>2, <2>4 DEF TrainInv, BufferIsOrdered
    <3>3. buffer[t][e].obs \in Frame /\ frames[e] \in Frame /\ frames'[e] \in Frame
      BY <1>0, <1>4, <2>4 DEF TrainInv, TrainTypes, Transition
    <3>4. \A f \in Frame : f.nth \in Int /\ f.age \in Int
      BY TrainingAssumption DEF Frame, TrainingAssumption
    <3>5. Before(buffer[t][e].obs, frames'[e])
      BY <2>1, <3>2, <3>3, <3>4 DEF Before
    <3> QED BY <3>1, <3>2, <3>5
  <2> QED BY <1>8, <2>3, <2>4
<1>16. SamplesAreSteps'
  <2> SUFFICES ASSUME NEW t \in 1..(n + 1), NEW e \in EnvIds, e \notin PendingAt(t)'
               PROVE  /\ buffer'[t][e].reward # NoReward
                      /\ buffer'[t][e].reward.from = buffer'[t][e].obs
    BY <1>8 DEF SamplesAreSteps
  <2>1. CASE t \in 1..n
    BY <1>0, <1>2, <1>8, <1>13, <2>1 DEF TrainInv, SamplesAreSteps
  <2>2. CASE t = n + 1
    <3>1. e \notin autoreset
      BY <1>14, <2>2
    <3>2. buffer'[t][e] = row[e]
      BY <1>8, <2>2
    <3> QED BY <1>6, <3>1, <3>2
  <2> QED BY <1>8, <2>1, <2>2
<1>17. PlayedIsClaimed'
  <2> DEFINE new == {[of |-> e, from |-> frames[e], to |-> frames'[e],
                      ended |-> e \in terminated] : e \in EnvIds \ autoreset}
  <2>1. played = {Claim(s) : s \in SamplesSoFar}
    BY <1>2 DEF TrainInv, PlayedIsClaimed
  <2>2. ASSUME NEW s \in SamplesSoFar PROVE s \in SamplesSoFar' /\ Claim(s)' = Claim(s)
    <3>1. s[1] \in 1..n /\ s[1] \in 1..(n + 1)
          /\ s \in (1..n) \X EnvIds /\ s \in (1..(n + 1)) \X EnvIds
      BY <1>0, <1>8 DEF SamplesSoFar
    <3>2. PendingAt(s[1])' = PendingAt(s[1]) /\ buffer'[s[1]] = buffer[s[1]]
      BY <1>8, <1>13, <3>1
    <3> QED BY <1>8, <3>1, <3>2 DEF SamplesSoFar, Claim
  <2>3. ASSUME NEW e \in EnvIds \ autoreset
        PROVE  /\ <<n + 1, e>> \in SamplesSoFar'
               /\ Claim(<<n + 1, e>>)' =
                    [of |-> e, from |-> frames[e], to |-> frames'[e],
                     ended |-> e \in terminated]
    <3>1. buffer'[n + 1][e] = row[e] /\ n + 1 \in 1..(n + 1)
      BY <1>8
    <3>2. <<n + 1, e>> \in SamplesSoFar'
      BY <1>8, <1>14, <3>1 DEF SamplesSoFar
    <3>3. row[e].reward.to = frames'[e] /\ row[e].reward.ended = (e \in terminated)
          /\ row[e].obs = frames[e]
      BY <1>6
    <3> QED BY <3>1, <3>2, <3>3 DEF Claim
  <2>4. ASSUME NEW s \in SamplesSoFar'
        PROVE  s \in SamplesSoFar \/ \E e \in EnvIds \ autoreset : s = <<n + 1, e>>
    <3>1. PICK t \in 1..(n + 1), e \in EnvIds : s = <<t, e>> /\ e \notin PendingAt(t)'
      BY <1>8 DEF SamplesSoFar
    <3>2. CASE t \in 1..n
      BY <1>0, <1>13, <3>1, <3>2 DEF SamplesSoFar
    <3>3. CASE t = n + 1
      BY <1>14, <3>1, <3>3
    <3> QED BY <1>8, <3>2, <3>3
  <2>5. {Claim(s)' : s \in SamplesSoFar'} = {Claim(s) : s \in SamplesSoFar} \cup new
    BY <2>2, <2>3, <2>4
  <2>6. played' = played \cup new
    BY <1>1
  <2> QED BY <2>1, <2>5, <2>6 DEF PlayedIsClaimed
<1>18. RolloutRuns'
  <2> SUFFICES ASSUME NEW t \in 1..(n + 1), NEW e \in EnvIds
               PROVE  IF e \in PendingAt(t)'
                      THEN /\ ~buffer'[t][e].terminated
                           /\ Shows(t, e)' = [buffer'[t][e].obs EXCEPT !.nth = @ + 1, !.age = 0]
                      ELSE /\ Shows(t, e)' = [buffer'[t][e].obs EXCEPT !.age = @ + 1]
                           /\ buffer'[t][e].reward.to = Shows(t, e)'
    BY <1>8 DEF RolloutRuns
  <2>1. CASE t = n + 1
    <3>1. Shows(t, e)' = NextFrame(e) /\ Shows(t, e)' = frames'[e]
      BY <1>4, <1>8, <2>1 DEF Shows
    <3>2. buffer'[t][e] = row[e] /\ (e \in PendingAt(t)' <=> e \in autoreset)
      BY <1>8, <1>14, <2>1
    <3>3. e \in autoreset => ~row[e].terminated
      BY <1>4, <1>6
    <3> QED BY <1>6, <3>1, <3>2, <3>3 DEF NextFrame
  <2>2. CASE t \in 1..n
    <3>1. buffer'[t] = buffer[t] /\ PendingAt(t)' = PendingAt(t)
      BY <1>8, <1>13, <2>2
    <3>2. Shows(t, e)' = Shows(t, e)
      <4>1. CASE t = n
        <5>1. Shows(t, e)' = buffer'[n + 1][e].obs /\ Shows(t, e) = frames[e]
          BY <1>0, <1>8, <4>1 DEF Shows
        <5> QED BY <1>6, <1>8, <5>1
      <4>2. CASE t # n
        <5>1. t + 1 \in 1..n /\ t # n + 1
          BY <1>8, <2>2, <4>2
        <5> QED BY <1>0, <1>8, <4>2, <5>1 DEF Shows
      <4> QED BY <4>1, <4>2
    <3> QED BY <1>0, <1>2, <2>2, <3>1, <3>2 DEF TrainInv, RolloutRuns
  <2> QED BY <1>8, <2>1, <2>2
<1> QED BY <1>9, <1>12, <1>15, <1>16, <1>17, <1>18 DEF TrainInv

(* Every step keeps the invariant.                                         *)
LEMMA TrainStepKeeps == EvalInv /\ TrainInv /\ [Next]_vars => TrainInv'
<1> SUFFICES ASSUME EvalInv, TrainInv, [Next]_vars PROVE TrainInv'
  OBVIOUS
<1>1. ASSUME Train PROVE TrainInv'
  <2>1. ResetEnv /\ ResetWrapper
        /\ obs' = frames' /\ pendingReset' = {} /\ buffer' = <<>> /\ played' = {}
    BY <1>1 DEF Train
  <2>2. frames' \in [EnvIds -> Frame] /\ autoreset' = {}
    BY <2>1, ResetStarts DEF EvalInv
  <2>3. TrainTypes' /\ AccountsAgree'
    BY <2>1, <2>2 DEF ResetWrapper, TrainTypes, AccountsAgree
  <2> QED BY <2>1, <2>3, EmptyRollout
<1>2. ASSUME Collect PROVE TrainInv'
  BY <1>2, CollectKeeps
<1>3. ASSUME Update PROVE TrainInv'
  <2>1. /\ mode = "train" /\ Len(buffer) = NumSteps /\ NumSteps # 0
        /\ pendingReset' = EndedAt(NumSteps) /\ buffer' = <<>> /\ played' = {}
        /\ UNCHANGED <<frames, autoreset, prevObs, prevTerminated, obs>>
    BY <1>3, TrainingAssumption DEF Update, PendingAfter, env, wrapper, TrainingAssumption
  <2>2. buffer # <<>>
    BY <2>1
  <2>3. pendingReset' = autoreset
    BY <2>1, <2>2 DEF TrainInv, AccountsAgree
  <2>4. TrainTypes' /\ AccountsAgree'
    BY <2>1, <2>3 DEF EvalInv, EvalTypes, TrainInv, TrainTypes, AccountsAgree
  <2> QED BY <2>1, <2>4, EmptyRollout
<1>4. ASSUME mode' # "train", UNCHANGED <<wrapper, pendingReset, buffer, updates, played>>
      PROVE  TrainInv'
  BY <1>4 DEF wrapper, TrainInv, TrainTypes, AccountsAgree, BufferIsOrdered,
              SamplesAreSteps, PlayedIsClaimed, RolloutRuns
<1>5. ASSUME Evaluate \/ EvalStep \/ EndBatch \/ Raise PROVE TrainInv'
  <2>1. mode' # "train" /\ UNCHANGED <<wrapper, pendingReset, buffer, updates, played>>
    BY <1>5 DEF Evaluate, EvalStep, EndBatch, Raise, training
  <2> QED BY <1>4, <2>1
<1>6. ASSUME UNCHANGED vars PROVE TrainInv'
  <2>1. UNCHANGED <<frames, autoreset, prevObs, prevTerminated, mode, obs,
                    pendingReset, buffer, played>>
    BY <1>6 DEF vars, env, wrapper, training
  <2>2. TrainTypes' /\ AccountsAgree'
    BY <2>1 DEF TrainInv, TrainTypes, AccountsAgree, EndedAt
  <2>3. BufferIsOrdered'
    BY <2>1 DEF TrainInv, BufferIsOrdered
  <2>4. SamplesAreSteps'
    BY <2>1 DEF TrainInv, SamplesAreSteps, EndedAt, PendingAt
  <2>5. PlayedIsClaimed'
    <3>1. SamplesSoFar' = SamplesSoFar
      BY <2>1 DEF SamplesSoFar, PendingAt, EndedAt
    <3>2. \A s : Claim(s)' = Claim(s)
      BY <2>1 DEF Claim
    <3> QED BY <2>1, <3>1, <3>2 DEF TrainInv, PlayedIsClaimed
  <2>6. RolloutRuns'
    BY <2>1 DEF TrainInv, RolloutRuns, Shows, PendingAt, EndedAt
  <2> QED BY <2>2, <2>3, <2>4, <2>5, <2>6 DEF TrainInv
<1> QED BY <1>1, <1>2, <1>3, <1>5, <1>6 DEF Next

LEMMA TrainStarts == Init => TrainInv
BY DEF Init, TrainInv, TrainTypes, AccountsAgree, BufferIsOrdered, SamplesAreSteps,
       PlayedIsClaimed, RolloutRuns

-----------------------------------------------------------------------------
(* Updates.                                                                *)

(* No two samples of a rollout claim the same step of a match.             *)
LEMMA ClaimsDiffer ==
  ASSUME TrainInv, mode = "train",
         NEW r \in SamplesSoFar, NEW s \in SamplesSoFar, Claim(r) = Claim(s)
  PROVE  r = s
<1>1. PICK t \in 1..Len(buffer), e \in EnvIds : r = <<t, e>>
  BY DEF SamplesSoFar
<1>2. PICK u \in 1..Len(buffer), f \in EnvIds : s = <<u, f>>
  BY DEF SamplesSoFar
<1>3. e = f /\ buffer[t][e].obs = buffer[u][f].obs
  BY <1>1, <1>2 DEF Claim
<1>4. buffer[t][e].obs \in Frame /\ Len(buffer) \in Nat
  BY DEF TrainInv, TrainTypes, Transition
<1>5. ~Before(buffer[t][e].obs, buffer[t][e].obs)
  BY <1>4, TrainingAssumption DEF Before, Frame, TrainingAssumption
<1>6. ~(t < u) /\ ~(u < t)
  BY <1>3, <1>4, <1>5 DEF TrainInv, BufferIsOrdered
<1> QED BY <1>1, <1>2, <1>3, <1>4, <1>6

(* As many different steps are claimed as there are samples.               *)
LEMMA ClaimsAreCounted ==
  ASSUME TrainInv, mode = "train"
  PROVE  Cardinality({Claim(s) : s \in SamplesSoFar}) = Cardinality(SamplesSoFar)
<1> DEFINE C == {Claim(s) : s \in SamplesSoFar}
           f == [s \in SamplesSoFar |-> Claim(s)]
<1>1. Len(buffer) \in Nat /\ NumEnvs \in Nat
  BY TrainingAssumption DEF TrainInv, TrainTypes, TrainingAssumption
<1>2. IsFiniteSet(1..Len(buffer)) /\ IsFiniteSet(EnvIds)
  BY <1>1, FS_Interval DEF EnvIds
<1>3. IsFiniteSet((1..Len(buffer)) \X EnvIds)
  BY <1>2, FS_Product
<1>4. IsFiniteSet(SamplesSoFar)
  BY <1>3, FS_Subset DEF SamplesSoFar
<1>5. f \in Bijection(SamplesSoFar, C)
  <2>1. f \in [SamplesSoFar -> C]
    OBVIOUS
  <2>2. \A r, s \in SamplesSoFar : f[r] = f[s] => r = s
    BY ClaimsDiffer
  <2>3. \A c \in C : \E s \in SamplesSoFar : f[s] = c
    OBVIOUS
  <2> QED BY <2>1, <2>2, <2>3 DEF Bijection, Injection, Surjection, IsInjective
<1>6. ExistsBijection(SamplesSoFar, C)
  BY <1>5 DEF ExistsBijection
<1>7. Cardinality(C) = Cardinality(SamplesSoFar)
  BY <1>4, <1>6, FS_Bijection
<1> QED BY <1>7

(* Every update trains on the steps that were played since the last one,   *)
(* each once, with its own reward: what mask_invalid_steps() leaves of     *)
(* collect_rollout()'s buffer, for any number of sub-environments and any  *)
(* lengths, seams and exceptions included.                                 *)
THEOREM UpdatesTrainOnWhatWasPlayed == Spec => TrainsOnWhatWasPlayed
<1>1. ASSUME TrainInv, Update
      PROVE  /\ \A s \in Samples :
                  LET step == buffer[s[1]][s[2]] IN
                  step.reward # NoReward /\ step.reward.from = step.obs
             /\ {Claim(s) : s \in Samples} = played
             /\ Cardinality(Samples) = Cardinality(played)
  <2>1. mode = "train" /\ Len(buffer) = NumSteps
    BY <1>1 DEF Update
  <2>2. Samples = SamplesSoFar
    BY <2>1 DEF Samples, SamplesSoFar
  <2>3. played = {Claim(s) : s \in SamplesSoFar}
    BY <1>1, <2>1 DEF TrainInv, PlayedIsClaimed
  <2>4. Cardinality(played) = Cardinality(SamplesSoFar)
    BY <1>1, <2>1, <2>3, ClaimsAreCounted
  <2>5. ASSUME NEW s \in Samples
        PROVE  /\ buffer[s[1]][s[2]].reward # NoReward
               /\ buffer[s[1]][s[2]].reward.from = buffer[s[1]][s[2]].obs
    BY <1>1, <2>1 DEF Samples, TrainInv, SamplesAreSteps
  <2> QED BY <2>2, <2>3, <2>4, <2>5
<1>2. TrainInv /\ [Next]_vars => [Update =>
       /\ \A s \in Samples :
            LET step == buffer[s[1]][s[2]] IN
            step.reward # NoReward /\ step.reward.from = step.obs
       /\ {Claim(s) : s \in Samples} = played
       /\ Cardinality(Samples) = Cardinality(played)]_vars
  BY <1>1
<1> QED BY <1>2, EvalStarts, EvalStepKeeps, TrainStarts, TrainStepKeeps, PTL
        DEF Spec, TrainsOnWhatWasPlayed

(* A sub-environment that waits for its reset at an index does not wait at *)
(* the next: of any two steps in a row at least one is a sample.           *)
LEMMA OneOfTwo ==
  ASSUME TrainInv, mode = "train", Len(buffer) = NumSteps,
         NEW t \in 1..NumSteps, t + 1 \in 1..NumSteps,
         NEW e \in EnvIds, e \in PendingAt(t)
  PROVE  e \notin PendingAt(t + 1)
<1>1. ~buffer[t][e].terminated
  BY DEF TrainInv, RolloutRuns
<1>2. t + 1 # 1 /\ (t + 1) - 1 = t
  OBVIOUS
<1> QED BY <1>1, <1>2 DEF PendingAt, EndedAt

(* The first of the steps 2k - 1 and 2k of e's that is a sample            *)
SampleOf(e, k) == IF e \notin PendingAt(2 * k - 1) THEN <<2 * k - 1, e>> ELSE <<2 * k, e>>

LEMMA HalfAreSamples ==
  ASSUME TrainInv, mode = "train", Len(buffer) = NumSteps
  PROVE  Cardinality(Samples) >= NumEnvs * (NumSteps \div 2)
<1> DEFINE h == NumSteps \div 2
           K == EnvIds \X (1..h)
           f == [q \in K |-> SampleOf(q[1], q[2])]
<1>1. NumSteps \in Nat /\ NumEnvs \in Nat /\ h \in Nat /\ 2 * h <= NumSteps
  BY TrainingAssumption DEF TrainingAssumption
<1>2. IsFiniteSet(1..NumSteps) /\ IsFiniteSet(1..h) /\ Cardinality(1..h) = h
  BY <1>1, FS_Interval
<1>3. IsFiniteSet(EnvIds) /\ Cardinality(EnvIds) = NumEnvs
  BY <1>1, FS_Interval DEF EnvIds
<1> HIDE DEF h
<1>4. IsFiniteSet(Samples)
  <2>1. IsFiniteSet((1..NumSteps) \X EnvIds)
    BY <1>2, <1>3, FS_Product
  <2> QED BY <2>1, FS_Subset DEF Samples
<1>5. Cardinality(K) = NumEnvs * h
  BY <1>2, <1>3, FS_Product
<1>6. ASSUME NEW e \in EnvIds, NEW k \in 1..h PROVE SampleOf(e, k) \in Samples
  <2>1. 2 * k - 1 \in 1..NumSteps /\ 2 * k \in 1..NumSteps /\ (2 * k - 1) + 1 = 2 * k
    BY <1>1
  <2>2. e \in PendingAt(2 * k - 1) => e \notin PendingAt(2 * k)
    BY <2>1, OneOfTwo
  <2> QED BY <2>1, <2>2 DEF SampleOf, Samples
<1>7. ASSUME NEW e \in EnvIds, NEW k \in 1..h, NEW d \in EnvIds, NEW j \in 1..h,
             SampleOf(e, k) = SampleOf(d, j)
      PROVE  e = d /\ k = j
  <2>1. k \in Int /\ j \in Int
    BY <1>1
  <2>2. PICK s \in {2 * k - 1, 2 * k} : SampleOf(e, k) = <<s, e>>
    BY DEF SampleOf
  <2>3. PICK r \in {2 * j - 1, 2 * j} : SampleOf(d, j) = <<r, d>>
    BY DEF SampleOf
  <2>4. s = r /\ e = d
    <3>1. <<s, e>> = <<r, d>>
      BY <1>7, <2>2, <2>3
    <3> QED BY <3>1
  <2>5. k = j
    BY <2>1, <2>2, <2>3, <2>4
  <2> QED BY <2>4, <2>5
<1>8. f \in Injection(K, Samples)
  <2>1. f \in [K -> Samples]
    BY <1>6
  <2>2. \A q, r \in K : f[q] = f[r] => q = r
    BY <1>7
  <2> QED BY <2>1, <2>2 DEF Injection, IsInjective
<1>9. Cardinality(K) <= Cardinality(Samples)
  BY <1>4, <1>8, FS_Injection
<1>10. Cardinality(K) \in Nat /\ Cardinality(Samples) \in Nat
  BY <1>2, <1>3, <1>4, FS_Product, FS_CardinalityType
<1> QED BY <1>5, <1>9, <1>10 DEF h

(* However the rollouts, the episodes and the exceptions fall: at least    *)
(* half of every rollout, rounded down, can be trained on, so that         *)
(* mask_invalid_steps() leaves nothing only in rollouts of one step.       *)
THEOREM UpdatesAreNotStarved == Spec => UpdatesHaveSamples
<1>1. ASSUME TrainInv, Update PROVE Cardinality(Samples) >= NumEnvs * (NumSteps \div 2)
  <2>1. mode = "train" /\ Len(buffer) = NumSteps
    BY <1>1 DEF Update
  <2> QED BY <1>1, <2>1, HalfAreSamples
<1>2. TrainInv /\ [Next]_vars =>
        [Update => Cardinality(Samples) >= NumEnvs * (NumSteps \div 2)]_vars
  BY <1>1
<1> QED BY <1>2, EvalStarts, EvalStepKeeps, TrainStarts, TrainStepKeeps, PTL
        DEF Spec, UpdatesHaveSamples

-----------------------------------------------------------------------------
(* Advantages.                                                             *)

LEMMA LeastOf ==
  ASSUME NEW T \in SUBSET Nat, T # {}
  PROVE  \E m \in T : \A n \in T : m <= n
<1>1. PICK m \in T : \A n \in T : ~ (<<n, m>> \in OpToRel(<, Nat))
  BY WFMin, NatLessThanWellFounded
<1>2. ASSUME NEW n \in T PROVE m <= n
  <2>1. <<n, m>> \notin OpToRel(<, Nat)
    BY <1>1
  <2>2. ~ (n < m)
    BY <2>1 DEF OpToRel
  <2> QED BY <2>2
<1> QED BY <1>2

(* What the advantage at index t depends on, given what the next one does  *)
Reaches(t, e, later) ==
  RewardFrames(buffer[t][e].reward) \cup {buffer[t][e].obs}
    \cup (IF buffer[t][e].terminated THEN {}
          ELSE {NextObs(t, e)} \cup (IF t = NumSteps THEN {} ELSE later))

(* compute_gae()'s recursion from the end of the rollout down to index m   *)
Recurs(g, e, m) == g = [t \in m..NumSteps |-> Reaches(t, e, g[t + 1])]

(* It is well defined.                                                     *)
LEMMA RecursionExists ==
  ASSUME NEW e
  PROVE  \E g : Recurs(g, e, 1)
<1>0. NumSteps \in Nat
  BY TrainingAssumption DEF TrainingAssumption
<1> DEFINE Odd == {i \in 0..NumSteps : ~ \E g : Recurs(g, e, NumSteps + 1 - i)}
<1>1. Odd = {}
  <2> SUFFICES ASSUME Odd # {} PROVE FALSE
    OBVIOUS
  <2>1. PICK i \in Odd : \A j \in Odd : i <= j
    <3>1. Odd \in SUBSET Nat
      BY <1>0
    <3> HIDE DEF Odd
    <3> QED BY <3>1, LeastOf
  <2>2. CASE i = 0
    <3>1. Recurs([z \in (NumSteps + 1)..NumSteps |-> 0], e, NumSteps + 1)
      <4>1. (NumSteps + 1)..NumSteps = {}
        BY <1>0
      <4> QED BY <4>1 DEF Recurs
    <3>2. NumSteps + 1 - i = NumSteps + 1
      BY <1>0, <2>2
    <3> QED BY <2>1, <3>1, <3>2
  <2>3. CASE i # 0
    <3> DEFINE m == NumSteps + 1 - i
    <3>1. /\ i \in Int /\ i - 1 \in 0..NumSteps /\ i - 1 \notin Odd
          /\ NumSteps + 1 - (i - 1) = m + 1 /\ m \in 1..NumSteps
      BY <1>0, <2>1, <2>3
    <3>2. PICK g : Recurs(g, e, m + 1)
      BY <3>1
    <3>3. ~ \E h : Recurs(h, e, m)
      BY <2>1
    <3> HIDE DEF m
    <3> DEFINE h == [z \in m..NumSteps |-> IF z = m THEN Reaches(m, e, g[m + 1]) ELSE g[z]]
    <3>4. ASSUME NEW z \in m..NumSteps PROVE h[z] = Reaches(z, e, h[z + 1])
      <4>0. z \in Int /\ m \in Int /\ m <= z /\ z <= NumSteps
        BY <1>0, <3>1
      <4>1. z # NumSteps => z + 1 \in m..NumSteps /\ h[z + 1] = g[z + 1]
        BY <1>0, <4>0
      <4>2. h[z] = Reaches(z, e, g[z + 1])
        <5>1. CASE z = m
          BY <5>1
        <5>2. CASE z # m
          <6>1. z \in (m + 1)..NumSteps
            BY <1>0, <4>0, <5>2
          <6>2. g[z] = Reaches(z, e, g[z + 1])
            BY <3>2, <6>1 DEF Recurs
          <6> QED BY <5>2, <6>2
        <5> QED BY <5>1, <5>2
      <4> HIDE DEF h
      <4>3. z # NumSteps => h[z + 1] = g[z + 1]
        BY <4>1
      <4> QED BY <4>2, <4>3 DEF Reaches
    <3>5. Recurs(h, e, m)
      BY <3>4 DEF Recurs
    <3> QED BY <3>3, <3>5
  <2> QED BY <2>2, <2>3
<1>2. NumSteps \in 0..NumSteps /\ NumSteps + 1 - NumSteps = 1
  BY <1>0
<1> QED BY <1>1, <1>2

(* So an advantage depends on its own step and what the next one does.     *)
LEMMA AdvantageUnfolds ==
  ASSUME NEW e, NEW t \in 1..NumSteps
  PROVE  Advantage(e)[t] = Reaches(t, e, Advantage(e)[t + 1])
<1> DEFINE G == CHOOSE g : g = [u \in 1..NumSteps |->
                  RewardFrames(buffer[u][e].reward) \cup {buffer[u][e].obs}
                    \cup (IF buffer[u][e].terminated THEN {}
                          ELSE {NextObs(u, e)} \cup (IF u = NumSteps THEN {} ELSE g[u + 1]))]
<1>1. Advantage(e) = G
  BY DEF Advantage
<1>2. Recurs(G, e, 1)
  <2>1. \E g : g = [u \in 1..NumSteps |->
                  RewardFrames(buffer[u][e].reward) \cup {buffer[u][e].obs}
                    \cup (IF buffer[u][e].terminated THEN {}
                          ELSE {NextObs(u, e)} \cup (IF u = NumSteps THEN {} ELSE g[u + 1]))]
    <3>1. PICK g : Recurs(g, e, 1)
      BY RecursionExists
    <3>2. g = [u \in 1..NumSteps |->
                  RewardFrames(buffer[u][e].reward) \cup {buffer[u][e].obs}
                    \cup (IF buffer[u][e].terminated THEN {}
                          ELSE {NextObs(u, e)} \cup (IF u = NumSteps THEN {} ELSE g[u + 1]))]
      BY <3>1, Zenon DEF Recurs, Reaches
    <3> QED BY <3>2, Zenon
  <2> QED BY <2>1 DEF Recurs, Reaches
<1> HIDE DEF G
<1>3. G[t] = Reaches(t, e, G[t + 1])
  BY <1>2 DEF Recurs
<1> QED BY <1>1, <1>3

(* A full rollout, from frame to frame: what RolloutRuns and the order of  *)
(* frames say of one step of it                                            *)
FullRollout == TrainInv /\ mode = "train" /\ Len(buffer) = NumSteps

At(t, e) == buffer[t][e].obs

LEMMA RolloutStep ==
  ASSUME FullRollout, NEW t \in 1..NumSteps, NEW e \in EnvIds
  PROVE  /\ At(t, e) \in Frame /\ NextObs(t, e) = Shows(t, e)
         /\ t # NumSteps => NextObs(t, e) = At(t + 1, e)
         /\ e \in PendingAt(t) =>
              /\ ~buffer[t][e].terminated /\ Shows(t, e).nth = At(t, e).nth + 1
         /\ e \notin PendingAt(t) =>
              /\ RewardFrames(buffer[t][e].reward) = {At(t, e), Shows(t, e)}
              /\ Episode(Shows(t, e)) = Episode(At(t, e))
              /\ Shows(t, e).nth = At(t, e).nth /\ Shows(t, e).age = At(t, e).age + 1
         /\ t # NumSteps => (e \in PendingAt(t + 1) <=> buffer[t][e].terminated)
<1>0. NumSteps \in Nat /\ t \in Nat
  BY TrainingAssumption DEF TrainingAssumption
<1>1. /\ TrainInv /\ mode = "train" /\ Len(buffer) = NumSteps
      /\ buffer \in Seq([EnvIds -> Transition]) /\ obs = frames
  BY DEF FullRollout, TrainInv, TrainTypes, AccountsAgree
<1>2. At(t, e) \in Frame
  BY <1>1 DEF At, Transition
<1>3. NextObs(t, e) = Shows(t, e) /\ (t # NumSteps => NextObs(t, e) = At(t + 1, e))
  BY <1>1 DEF NextObs, Shows, At
<1>4. IF e \in PendingAt(t)
      THEN /\ ~buffer[t][e].terminated
           /\ Shows(t, e) = [At(t, e) EXCEPT !.nth = @ + 1, !.age = 0]
      ELSE /\ Shows(t, e) = [At(t, e) EXCEPT !.age = @ + 1]
           /\ buffer[t][e].reward.to = Shows(t, e)
  BY <1>1 DEF TrainInv, RolloutRuns, At
<1>5. ASSUME e \in PendingAt(t)
      PROVE  ~buffer[t][e].terminated /\ Shows(t, e).nth = At(t, e).nth + 1
  BY <1>2, <1>4, <1>5 DEF Frame
<1>6. ASSUME e \notin PendingAt(t)
      PROVE  /\ RewardFrames(buffer[t][e].reward) = {At(t, e), Shows(t, e)}
             /\ Episode(Shows(t, e)) = Episode(At(t, e))
             /\ Shows(t, e).nth = At(t, e).nth /\ Shows(t, e).age = At(t, e).age + 1
  <2>1. buffer[t][e].reward # NoReward /\ buffer[t][e].reward.from = At(t, e)
    BY <1>1, <1>6 DEF TrainInv, SamplesAreSteps, At
  <2>2. RewardFrames(buffer[t][e].reward) = {At(t, e), Shows(t, e)}
    BY <1>4, <1>6, <2>1 DEF RewardFrames
  <2>3. /\ Shows(t, e).reset = At(t, e).reset /\ Shows(t, e).nth = At(t, e).nth
        /\ Shows(t, e).age = At(t, e).age + 1
    BY <1>2, <1>4, <1>6 DEF Frame
  <2> QED BY <2>2, <2>3 DEF Episode
<1>7. t # NumSteps => (e \in PendingAt(t + 1) <=> buffer[t][e].terminated)
  <2>1. t + 1 # 1 /\ (t + 1) - 1 = t
    BY <1>0
  <2> QED BY <2>1 DEF PendingAt, EndedAt
<1> QED BY <1>2, <1>3, <1>5, <1>6, <1>7

(* Frames come in order, and after a boundary step from a later episode.   *)
LEMMA RolloutOrder ==
  ASSUME FullRollout, NEW e \in EnvIds, NEW s \in 1..NumSteps, NEW t \in 1..NumSteps, s < t
  PROVE  /\ Before(At(s, e), At(t, e))
         /\ e \in PendingAt(s) => At(s, e).nth < At(t, e).nth
<1>0. NumSteps \in Nat /\ s \in Nat /\ t \in Nat
  BY TrainingAssumption DEF TrainingAssumption
<1>1. \A q, r \in 1..NumSteps : q < r => Before(At(q, e), At(r, e))
  BY DEF FullRollout, TrainInv, BufferIsOrdered, At
<1>2. ASSUME e \in PendingAt(s) PROVE At(s, e).nth < At(t, e).nth
  <2>1. s # NumSteps /\ s + 1 \in 1..NumSteps
    BY <1>0
  <2>2. At(s + 1, e).nth = At(s, e).nth + 1
    BY <1>2, <2>1, RolloutStep
  <2>3. CASE t = s + 1
    <3>1. At(s, e).nth \in Nat
      BY RolloutStep DEF Frame
    <3> QED BY <2>2, <2>3, <3>1
  <2>4. CASE s + 1 < t
    <3>1. Before(At(s + 1, e), At(t, e))
      BY <1>1, <2>1, <2>4
    <3>2. At(s, e).nth \in Nat /\ At(t, e).nth \in Nat
      BY RolloutStep DEF Frame
    <3> QED BY <2>2, <3>1, <3>2 DEF Before
  <2> QED BY <1>0, <2>3, <2>4
<1> QED BY <1>1, <1>2

(* The samples of e's episode from index t on                              *)
Later(t, e) ==
  {u \in 1..NumSteps : /\ e \notin PendingAt(u)
                       /\ Episode(At(u, e)) = Episode(At(t, e))
                       /\ At(u, e).age >= At(t, e).age}

(* They are what Future(<<t, e>>) unites.                                  *)
LEMMA FutureIsLater ==
  ASSUME FullRollout, NEW t \in 1..NumSteps, NEW e \in EnvIds
  PROVE  Future(<<t, e>>) = UNION {{At(u, e), Shows(u, e)} : u \in Later(t, e)}
<1> DEFINE later == {p \in played : /\ p.of = e
                                    /\ Episode(p.from) = Episode(At(t, e))
                                    /\ p.from.age >= At(t, e).age}
<1>1. Future(<<t, e>>) = UNION {{p.from, p.to} : p \in later}
  BY DEF Future, At
<1>2. played = {Claim(s) : s \in SamplesSoFar} /\ Len(buffer) = NumSteps
  BY DEF FullRollout, TrainInv, PlayedIsClaimed
<1>3. ASSUME NEW u \in 1..NumSteps, NEW d \in EnvIds, d \notin PendingAt(u)
      PROVE  /\ Claim(<<u, d>>).of = d /\ Claim(<<u, d>>).from = At(u, d)
             /\ Claim(<<u, d>>).to = Shows(u, d)
  <2>1. buffer[u][d].reward.to = Shows(u, d)
    BY <1>2, <1>3 DEF FullRollout, TrainInv, RolloutRuns
  <2> QED BY <2>1 DEF Claim, At
<1>4. ASSUME NEW p \in later
      PROVE  \E u \in Later(t, e) : p.from = At(u, e) /\ p.to = Shows(u, e)
  <2>1. PICK u \in 1..NumSteps, d \in EnvIds : d \notin PendingAt(u) /\ p = Claim(<<u, d>>)
    BY <1>2 DEF SamplesSoFar
  <2>2. d = e /\ p.from = At(u, e) /\ p.to = Shows(u, e)
    BY <1>3, <2>1
  <2>3. u \in Later(t, e)
    BY <2>1, <2>2 DEF Later
  <2> QED BY <2>2, <2>3
<1>5. ASSUME NEW u \in Later(t, e)
      PROVE  \E p \in later : p.from = At(u, e) /\ p.to = Shows(u, e)
  <2>1. u \in 1..NumSteps /\ e \notin PendingAt(u)
        /\ Episode(At(u, e)) = Episode(At(t, e)) /\ At(u, e).age >= At(t, e).age
    BY DEF Later
  <2>2. <<u, e>> \in SamplesSoFar
    BY <1>2, <2>1 DEF SamplesSoFar
  <2>3. Claim(<<u, e>>) \in played
    BY <1>2, <2>2
  <2>4. Claim(<<u, e>>).of = e /\ Claim(<<u, e>>).from = At(u, e) /\ Claim(<<u, e>>).to = Shows(u, e)
    BY <1>3, <2>1
  <2>5. Claim(<<u, e>>) \in later
    BY <2>1, <2>3, <2>4
  <2> QED BY <2>4, <2>5
<1> HIDE DEF later
<1>6. UNION {{p.from, p.to} : p \in later} = UNION {{At(u, e), Shows(u, e)} : u \in Later(t, e)}
  BY <1>4, <1>5
<1> QED BY <1>1, <1>6

(* Nothing that came before a sample is of its later frames.               *)
LEMMA LaterIsAhead ==
  ASSUME FullRollout, NEW e \in EnvIds, NEW t \in 1..NumSteps, NEW u \in Later(t, e)
  PROVE  u >= t
<1>0. NumSteps \in Nat /\ t \in Nat /\ u \in 1..NumSteps /\ u \in Nat
  BY TrainingAssumption DEF TrainingAssumption, Later
<1> SUFFICES ASSUME u < t PROVE FALSE
  BY <1>0
<1>1. Before(At(u, e), At(t, e))
  BY <1>0, RolloutOrder
<1>2. At(u, e).nth = At(t, e).nth /\ At(u, e).age >= At(t, e).age
  BY DEF Later, Episode
<1>3. At(u, e) \in Frame /\ At(t, e) \in Frame
  BY <1>0, RolloutStep
<1>4. \A f \in Frame : f.nth \in Int /\ f.age \in Int
  BY TrainingAssumption DEF Frame, TrainingAssumption
<1> QED BY <1>1, <1>2, <1>3, <1>4 DEF Before

(* After a sample that ends its episode, or the rollout, come no frames of *)
(* that episode; after any other, those of the next sample.                *)
LEMMA LaterGoesOn ==
  ASSUME FullRollout, NEW e \in EnvIds, NEW t \in 1..NumSteps, e \notin PendingAt(t)
  PROVE  /\ buffer[t][e].terminated \/ t = NumSteps => Later(t, e) = {t}
         /\ ~buffer[t][e].terminated /\ t # NumSteps =>
              /\ e \notin PendingAt(t + 1)
              /\ Later(t, e) = {t} \cup Later(t + 1, e)
<1>0. NumSteps \in Nat /\ t \in Nat
  BY TrainingAssumption DEF TrainingAssumption
<1>1. \A f \in Frame : f.nth \in Int /\ f.age \in Int
  BY TrainingAssumption DEF Frame, TrainingAssumption
<1>2. At(t, e) \in Frame /\ Shows(t, e).nth = At(t, e).nth /\ Shows(t, e).age = At(t, e).age + 1
      /\ Episode(Shows(t, e)) = Episode(At(t, e))
  BY RolloutStep
<1>3. t \in Later(t, e)
  BY <1>1, <1>2 DEF Later
<1>4. \A u \in Later(t, e) : u \in 1..NumSteps /\ u \in Nat /\ u >= t /\ At(u, e) \in Frame
        /\ At(u, e).nth = At(t, e).nth
  <2>1. \A u \in Later(t, e) : u \in 1..NumSteps /\ At(u, e).nth = At(t, e).nth
    BY DEF Later, Episode
  <2> QED BY <1>0, <2>1, LaterIsAhead, RolloutStep
<1>5. ASSUME t = NumSteps PROVE Later(t, e) = {t}
  BY <1>0, <1>3, <1>4, <1>5
<1>6. t # NumSteps => t + 1 \in 1..NumSteps /\ At(t + 1, e) = Shows(t, e)
  BY <1>0, RolloutStep
<1>7. ASSUME buffer[t][e].terminated, t # NumSteps PROVE Later(t, e) = {t}
  <2>1. e \in PendingAt(t + 1)
    BY <1>7, RolloutStep
  <2>2. ASSUME NEW u \in Later(t, e), u # t PROVE FALSE
    <3>1. u # t + 1
      BY <2>1 DEF Later
    <3>2. t + 1 < u
      BY <1>0, <1>4, <2>2, <3>1
    <3>3. At(t + 1, e).nth < At(u, e).nth
      BY <1>4, <1>6, <1>7, <2>1, <3>2, RolloutOrder
    <3> QED BY <1>1, <1>2, <1>4, <1>6, <1>7, <3>3
  <2> QED BY <1>3, <2>2
<1>8. ASSUME ~buffer[t][e].terminated, t # NumSteps
      PROVE  /\ e \notin PendingAt(t + 1)
             /\ Later(t, e) = {t} \cup Later(t + 1, e)
  <2>1. e \notin PendingAt(t + 1)
    BY <1>8, RolloutStep
  <2>2. /\ At(t + 1, e) \in Frame /\ Episode(At(t + 1, e)) = Episode(At(t, e))
        /\ At(t + 1, e).nth = At(t, e).nth /\ At(t + 1, e).age = At(t, e).age + 1
    BY <1>2, <1>6, <1>8, RolloutStep
  <2>3. ASSUME NEW u \in Later(t, e), u # t PROVE u \in Later(t + 1, e)
    <3>1. u = t + 1 \/ t + 1 < u
      BY <1>0, <1>4, <2>3
    <3>2. t + 1 < u => Before(At(t + 1, e), At(u, e))
      BY <1>4, <1>6, <1>8, RolloutOrder
    <3>3. At(u, e).age >= At(t + 1, e).age
      BY <1>1, <1>4, <2>2, <3>1, <3>2 DEF Before
    <3> QED BY <2>2, <3>3 DEF Later
  <2>4. ASSUME NEW u \in Later(t + 1, e) PROVE u \in Later(t, e)
    <3>1. u \in 1..NumSteps /\ e \notin PendingAt(u)
          /\ Episode(At(u, e)) = Episode(At(t, e)) /\ At(u, e).age >= At(t, e).age + 1
      BY <2>2 DEF Later
    <3>2. At(u, e).age \in Int /\ At(t, e).age \in Int
      BY <1>1, <1>2, <3>1, RolloutStep
    <3> QED BY <3>1, <3>2 DEF Later
  <2> QED BY <1>3, <2>1, <2>3, <2>4
<1> QED BY <1>5, <1>7, <1>8

(* Backwards through the rollout                                           *)
LEMMA AdvantagesAreFutures ==
  ASSUME FullRollout, NEW e \in EnvIds
  PROVE  \A t \in 1..NumSteps :
           e \notin PendingAt(t) => Advantage(e)[t] = Future(<<t, e>>)
<1>0. NumSteps \in Nat
  BY TrainingAssumption DEF TrainingAssumption
<1> DEFINE Fits(t) == e \notin PendingAt(t) => Advantage(e)[t] = Future(<<t, e>>)
           Odd == {i \in 0..(NumSteps - 1) : ~Fits(NumSteps - i)}
<1>1. ASSUME NEW t \in 1..NumSteps, t = NumSteps \/ Fits(t + 1), e \notin PendingAt(t)
      PROVE  Advantage(e)[t] = Future(<<t, e>>)
  <2>1. Advantage(e)[t] = Reaches(t, e, Advantage(e)[t + 1])
    BY AdvantageUnfolds
  <2>2. /\ RewardFrames(buffer[t][e].reward) = {At(t, e), Shows(t, e)}
        /\ NextObs(t, e) = Shows(t, e)
    BY <1>1, RolloutStep
  <2>3. Future(<<t, e>>) = UNION {{At(u, e), Shows(u, e)} : u \in Later(t, e)}
    BY FutureIsLater
  <2>4. CASE buffer[t][e].terminated \/ t = NumSteps
    <3>1. Later(t, e) = {t}
      BY <1>1, <2>4, LaterGoesOn
    <3>2. Future(<<t, e>>) = {At(t, e), Shows(t, e)}
      BY <2>3, <3>1
    <3>3. Advantage(e)[t] = {At(t, e), Shows(t, e)}
      BY <2>1, <2>2, <2>4 DEF Reaches, At
    <3> QED BY <3>2, <3>3
  <2>5. CASE ~buffer[t][e].terminated /\ t # NumSteps
    <3>1. e \notin PendingAt(t + 1) /\ Later(t, e) = {t} \cup Later(t + 1, e)
      BY <1>1, <2>5, LaterGoesOn
    <3>2. t + 1 \in 1..NumSteps
      BY <1>0, <2>5
    <3>3. Future(<<t + 1, e>>) = UNION {{At(u, e), Shows(u, e)} : u \in Later(t + 1, e)}
      BY <3>2, FutureIsLater
    <3>4. Future(<<t, e>>) = {At(t, e), Shows(t, e)} \cup Future(<<t + 1, e>>)
      BY <2>3, <3>1, <3>3
    <3>5. Advantage(e)[t + 1] = Future(<<t + 1, e>>)
      BY <1>1, <2>5, <3>1
    <3>6. Advantage(e)[t] = {At(t, e), Shows(t, e)} \cup Future(<<t + 1, e>>)
      BY <2>1, <2>2, <2>5, <3>5 DEF Reaches, At
    <3> QED BY <3>4, <3>6
  <2> QED BY <2>4, <2>5
<1>2. \A t \in 1..NumSteps : t = NumSteps \/ Fits(t + 1) => Fits(t)
  BY <1>1
<1> HIDE DEF Fits
<1>3. Odd = {}
  <2> SUFFICES ASSUME Odd # {} PROVE FALSE
    OBVIOUS
  <2>1. PICK i \in Odd : \A j \in Odd : i <= j
    <3>1. Odd \in SUBSET Nat
      BY <1>0
    <3> HIDE DEF Odd
    <3> QED BY <3>1, LeastOf
  <2>2. i \in Nat /\ i \in 0..(NumSteps - 1) /\ NumSteps - i \in 1..NumSteps /\ ~Fits(NumSteps - i)
    BY <1>0, <2>1
  <2>3. i # 0
    BY <1>0, <1>2, <2>2
  <2>4. i - 1 \in 0..(NumSteps - 1) /\ i - 1 \notin Odd /\ NumSteps - (i - 1) = (NumSteps - i) + 1
    BY <1>0, <2>1, <2>2, <2>3
  <2>5. Fits((NumSteps - i) + 1)
    BY <2>4
  <2> QED BY <1>2, <2>2, <2>5
<1>4. ASSUME NEW t \in 1..NumSteps PROVE Fits(t)
  <2>1. NumSteps - t \in 0..(NumSteps - 1) /\ NumSteps - (NumSteps - t) = t
    BY <1>0
  <2> QED BY <1>3, <2>1
<1> QED BY <1>4 DEF Fits

(* compute_gae() never looks past the end of a sample's episode and never  *)
(* stops short of it: an advantage depends on the frames that its own      *)
(* episode showed from there on, whatever boundary steps lie between.      *)
THEOREM AdvantagesKeepToTheirEpisode == Spec => AdvantagesStayInEpisode
<1>1. ASSUME TrainInv, Update PROVE \A s \in Samples : Advantage(s[2])[s[1]] = Future(s)
  <2> SUFFICES ASSUME NEW s \in Samples PROVE Advantage(s[2])[s[1]] = Future(s)
    OBVIOUS
  <2>1. FullRollout
    BY <1>1 DEF Update, FullRollout
  <2>2. PICK t \in 1..NumSteps, e \in EnvIds : s = <<t, e>> /\ e \notin PendingAt(t)
    BY DEF Samples
  <2>3. Advantage(e)[t] = Future(<<t, e>>)
    BY <2>1, <2>2, AdvantagesAreFutures
  <2> QED BY <2>2, <2>3
<1>2. TrainInv /\ [Next]_vars =>
        [Update => \A s \in Samples : Advantage(s[2])[s[1]] = Future(s)]_vars
  BY <1>1
<1> QED BY <1>2, EvalStarts, EvalStepKeeps, TrainStarts, TrainStepKeeps, PTL
        DEF Spec, AdvantagesStayInEpisode
=============================================================================
