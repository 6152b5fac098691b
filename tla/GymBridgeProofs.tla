--------------------------- MODULE GymBridgeProofs ----------------------------
(***************************************************************************)
(* Proofs about GymBridge, for any number of sub-environments, episodes of *)
(* any length and any number of requests.                                  *)
(***************************************************************************)
EXTENDS GymBridge, FiniteSetTheorems, TLAPS

Worlds == [seed : Nat \ {0}, age : Nat, done : BOOLEAN, torn : {FALSE}]

AnyWorld == [seed : Nat, age : Nat, done : BOOLEAN, torn : {FALSE}]

Batches == UNION {[es -> AnyWorld] : es \in SUBSET EnvIds}

Lines == [id : Nat, cmd : {"reset", "step", "close"}, by : {"reset()", "step()", "close()"},
          batch : SUBSET EnvIds, seeds : [EnvIds -> Nat]]

Replies == [id : Nat, error : BOOLEAN, frames : Batches]

Calls == [by : {"reset()", "step()"}, cmd : {"reset", "step"}, id : Nat, frames : Batches]

Shape ==
  /\ envs \in [EnvIds -> Worlds \cup {NoWorld}]
  /\ alive \in BOOLEAN /\ closed \in BOOLEAN /\ single \in BOOLEAN
  /\ stdin \in Seq(Lines) /\ stdout \in Seq(Replies)
  /\ nextId \in Nat /\ draws \in Nat
  /\ autoreset \in [EnvIds -> BOOLEAN] /\ currentSeeds \in [EnvIds -> Nat]
  /\ call # NoCall => call \in Calls
  /\ \A i \in 1..Len(stdin) : stdin[i].cmd = "reset" =>
       \A e \in stdin[i].batch : stdin[i].seeds[e] # 0

(* The world of e as the trainer believes it to be.                        *)
Known(e) == envs[e] # NoWorld /\ envs[e].seed = currentSeeds[e]

(* Once the bridge has read all that is written, e runs under the seed the *)
(* environment has noted, or not at all.                                   *)
Resets(e) == {i \in 1..Len(stdin) : stdin[i].cmd = "reset" /\ e \in stdin[i].batch}

SeedAhead(e) ==
  /\ Resets(e) = {} => envs[e] = NoWorld \/ envs[e].seed = currentSeeds[e]
  /\ \A i \in Resets(e) :
       (\A j \in Resets(e) : j <= i) => stdin[i].seeds[e] = currentSeeds[e]

SeedsAgree == ~closed => \A e \in Members \ Restarting : SeedAhead(e)

(* Requests and answers are numbered, and only close() sends a `close`.    *)
Numbered ==
  /\ \A i \in 1..Len(stdin) :
       (stdin[i].cmd # "close" /\ stdin[i].id < nextId) \/ (stdin[i].cmd = "close" /\ closed)
  /\ \A i \in 1..Len(stdout) : stdout[i].id < nextId
  /\ call # NoCall => call.id < nextId /\ ~closed

(* What a call has asked for with batch, beside the frames it has, is all  *)
(* that is missing or the first of two requests.                           *)
Asks(batch) ==
  \/ batch \cup DOMAIN call.frames = Members /\ batch \cap DOMAIN call.frames = {}
  \/ batch = Restarting /\ DOMAIN call.frames = {}

(* The request of the call is the last that was written, ...               *)
Asked ==
  /\ stdin # <<>>
  /\ \A i \in 1..Len(stdout) : stdout[i].id < call.id
  /\ \A i \in 1..Len(stdin) : i # Len(stdin) => stdin[i].id < call.id
  /\ LET line == stdin[Len(stdin)] IN
       /\ line.id = call.id
       /\ Asks(line.batch)
       /\ line.cmd = "reset" => \A e \in line.batch : line.seeds[e] = currentSeeds[e]
       /\ line.cmd = "step" => line.batch \subseteq Members \ Restarting
  /\ DOMAIN call.frames # {} => Len(stdin) = 1

(* ... or answered last, from the worlds as they are.                      *)
IsAnswered ==
  /\ stdin = <<>> /\ stdout # <<>>
  /\ \A i \in 1..Len(stdout) : i # Len(stdout) => stdout[i].id < call.id
  /\ LET reply == stdout[Len(stdout)] IN
       /\ reply.id = call.id
       /\ Asks(DOMAIN reply.frames)
       /\ ~reply.error =>
            \A e \in DOMAIN reply.frames : reply.frames[e] = envs[e] /\ Known(e)

CallIsServed ==
  call # NoCall =>
    /\ Asked \/ IsAnswered
    /\ \A e \in DOMAIN call.frames : call.frames[e] = envs[e] /\ Known(e)

(* After a call that returned nothing is under way that could change a     *)
(* world.                                                                  *)
ResultStands ==
  result # NoResult =>
    /\ call = NoCall /\ stdout = <<>>
    /\ \A i \in 1..Len(stdin) : stdin[i].cmd = "close"
    /\ \A e \in Members :
         /\ result.frames[e] = envs[e] /\ result.seeds[e] = envs[e].seed
         /\ envs[e] # NoWorld
         /\ e \in result.terminated => envs[e].done

BridgeInv ==
  Shape /\ (alive => SeedsAgree /\ Numbered /\ CallIsServed /\ ResultStands)

LEMMA InvGivesCurrent == BridgeInv => ResultIsCurrent
<1> SUFFICES ASSUME BridgeInv, result # NoResult, alive, NEW e \in Members
             PROVE  /\ result.frames[e] = envs[e] /\ result.seeds[e] = envs[e].seed
                    /\ envs[e] # NoWorld /\ ~envs[e].torn
                    /\ e \in result.terminated => envs[e].done
  BY DEF ResultIsCurrent
<1>1. e \in EnvIds
  BY GymAssumption DEF GymAssumption, Members, EnvIds
<1>2. ResultStands /\ envs[e] \in Worlds \cup {NoWorld}
  BY <1>1 DEF BridgeInv, Shape
<1> QED BY <1>2 DEF ResultStands, Worlds

-----------------------------------------------------------------------------
(* Sub-environments, seeds and worlds.                                     *)

LEMMA MembersAreEnvs == NumEnvs \in Nat \ {0} /\ 0 \in EnvIds /\ Members \subseteq EnvIds
                        /\ Length \in Nat
BY GymAssumption DEF GymAssumption, Members, EnvIds

LEMMA WorldsDiffer ==
  /\ \A w \in Worlds : w # NoWorld
  /\ NoWorld \in AnyWorld /\ Worlds \subseteq AnyWorld
<1>1. \A w \in Worlds : w # NoWorld
  BY DEF Worlds, NoWorld
<1>2. NoWorld \in AnyWorld
  BY DEF NoWorld, AnyWorld
<1>3. ASSUME NEW w \in Worlds PROVE w \in AnyWorld
  BY DEF Worlds, AnyWorld
<1> QED BY <1>1, <1>2, <1>3

(* Fresh seeds are drawn for es and for nobody else.                       *)
LEMMA Drawn ==
  ASSUME Shape, NEW es \in SUBSET EnvIds, DrawSeeds(es)
  PROVE  /\ draws' \in Nat /\ currentSeeds' \in [EnvIds -> Nat]
         /\ \A e \in es : currentSeeds'[e] # 0
         /\ \A e \in EnvIds \ es : currentSeeds'[e] = currentSeeds[e]
<1>1. IsFiniteSet(EnvIds)
  BY MembersAreEnvs, FS_Interval DEF EnvIds
<1>2. \A S \in SUBSET EnvIds : IsFiniteSet(S) /\ Cardinality(S) \in Nat
  BY <1>1, FS_Subset, FS_CardinalityType
<1>3. draws' \in Nat
  <2>1. Cardinality(es) \in Nat /\ draws \in Nat
    BY <1>2 DEF Shape
  <2>2. draws' = draws + Cardinality(es)
    BY DEF DrawSeeds
  <2> QED BY <2>1, <2>2
<1>4. ASSUME NEW e \in EnvIds
      PROVE  draws + Cardinality({f \in es : f <= e}) \in Nat
             /\ (e \in es => draws + Cardinality({f \in es : f <= e}) # 0)
  <2> DEFINE S == {f \in es : f <= e}
  <2>1. S \in SUBSET EnvIds
    OBVIOUS
  <2>2. IsFiniteSet(S) /\ Cardinality(S) \in Nat /\ draws \in Nat
    BY <1>2, <2>1 DEF Shape
  <2>3. e \in es => S # {}
    BY <1>4 DEF EnvIds
  <2>4. S # {} => Cardinality(S) # 0
    BY <2>2, FS_EmptySet
  <2> HIDE DEF S
  <2>5. draws + Cardinality(S) \in Nat /\ (e \in es => draws + Cardinality(S) # 0)
    BY <2>2, <2>3, <2>4
  <2> QED BY <2>5 DEF S
<1>5. currentSeeds' = [e \in EnvIds |->
        IF e \in es THEN draws + Cardinality({f \in es : f <= e}) ELSE currentSeeds[e]]
  BY DEF DrawSeeds
<1>6. \A e \in EnvIds : currentSeeds'[e] =
        IF e \in es THEN draws + Cardinality({f \in es : f <= e}) ELSE currentSeeds[e]
  BY <1>5
<1>7. \A e \in EnvIds : currentSeeds[e] \in Nat
  BY DEF Shape
<1>8. \A e \in EnvIds : currentSeeds'[e] \in Nat
  BY <1>4, <1>6, <1>7
<1>9. currentSeeds' \in [EnvIds -> Nat]
  BY <1>5, <1>8
<1> QED BY <1>3, <1>4, <1>6, <1>9

-----------------------------------------------------------------------------
(* Pipes.                                                                  *)

LEMMA Appended ==
  ASSUME NEW S, NEW s \in Seq(S), NEW x \in S
  PROVE  /\ Append(s, x) \in Seq(S) /\ Append(s, x) # <<>>
         /\ Len(Append(s, x)) = Len(s) + 1 /\ Len(s) \in Nat
         /\ Append(s, x)[Len(s) + 1] = x
         /\ \A i \in 1..Len(s) : Append(s, x)[i] = s[i]
OBVIOUS

LEMMA Dropped ==
  ASSUME NEW S, NEW s \in Seq(S), s # <<>>
  PROVE  /\ Tail(s) \in Seq(S) /\ Len(s) \in Nat \ {0} /\ Len(Tail(s)) = Len(s) - 1
         /\ Head(s) = s[1] /\ s[1] \in S
         /\ \A i \in 1..Len(Tail(s)) : Tail(s)[i] = s[i + 1] /\ i + 1 \in 1..Len(s)
         /\ Len(s) = 1 => Tail(s) = <<>>
OBVIOUS

LEMMA FramesAreBatches ==
  ASSUME NEW es \in SUBSET EnvIds, NEW f \in [es -> AnyWorld]
  PROVE  f \in Batches /\ DOMAIN f = es
BY DEF Batches

LEMMA BatchesAreFrames ==
  ASSUME NEW f \in Batches
  PROVE  DOMAIN f \subseteq EnvIds /\ \A e \in DOMAIN f : f[e] \in AnyWorld
BY DEF Batches

(* The answer to a line, as every handler writes it.                       *)
LEMMA AnswerShape ==
  ASSUME NEW line \in Lines, NEW worlds \in [EnvIds -> Worlds \cup {NoWorld}],
         NEW failed \in BOOLEAN
  PROVE  LET answer == Answer(line, worlds, failed) IN
         /\ answer \in Replies /\ answer.id = line.id /\ answer.error = failed
         /\ DOMAIN answer.frames = line.batch
         /\ ~failed => \A e \in line.batch : answer.frames[e] = worlds[e]
<1> DEFINE frames == [e \in line.batch |-> IF failed THEN NoWorld ELSE worlds[e]]
<1>1. line.batch \in SUBSET EnvIds /\ line.id \in Nat
  BY DEF Lines
<1>2. frames \in [line.batch -> AnyWorld]
  BY <1>1, WorldsDiffer
<1>3. frames \in Batches /\ DOMAIN frames = line.batch
  BY <1>1, <1>2, FramesAreBatches
<1>4. Answer(line, worlds, failed) = [id |-> line.id, error |-> failed, frames |-> frames]
  BY DEF Answer
<1>5. ~failed => \A e \in line.batch : frames[e] = worlds[e]
  OBVIOUS
<1> HIDE DEF frames
<1> QED BY <1>1, <1>3, <1>4, <1>5 DEF Replies

(* A line that is sent: its shape.                                         *)
LEMMA LineShape ==
  ASSUME NEW id \in Nat, NEW cmd \in {"reset", "step", "close"},
         NEW by \in {"reset()", "step()", "close()"},
         NEW batch \in SUBSET EnvIds, NEW seeds \in [EnvIds -> Nat]
  PROVE  [id |-> id, cmd |-> cmd, by |-> by, batch |-> batch, seeds |-> seeds] \in Lines
BY DEF Lines

-----------------------------------------------------------------------------
(* Steps that leave the bridge alive.                                      *)

(* What handling a line does to the worlds.                                *)
LEMMA ResetWorlds ==
  ASSUME Shape, NEW line \in Lines, line.cmd = "reset", \A e \in line.batch : line.seeds[e] # 0,
         NEW new, new = AfterReset(line.batch, line.seeds)
  PROVE  /\ new \in [EnvIds -> Worlds \cup {NoWorld}]
         /\ \A e \in line.batch : new[e] # NoWorld /\ new[e].seed = line.seeds[e]
         /\ \A e \in EnvIds \ line.batch : new[e] = envs[e]
<1>1. line.batch \subseteq EnvIds /\ line.seeds \in [EnvIds -> Nat]
  BY DEF Lines
<1>2. ASSUME NEW e \in line.batch
      PROVE  Started(line.seeds[e]) \in Worlds /\ Started(line.seeds[e]).seed = line.seeds[e]
  BY <1>1 DEF Started, Worlds
<1>3. \A e \in EnvIds : new[e] = IF e \in line.batch THEN Started(line.seeds[e]) ELSE envs[e]
  BY DEF AfterReset
<1>4. new \in [EnvIds -> Worlds \cup {NoWorld}]
  <2>1. \A e \in EnvIds : new[e] \in Worlds \cup {NoWorld}
    BY <1>2, <1>3 DEF Shape
  <2>2. new = [e \in EnvIds |-> new[e]]
    BY DEF AfterReset
  <2> QED BY <2>1, <2>2
<1> QED BY <1>1, <1>2, <1>3, <1>4, WorldsDiffer

LEMMA SteppedWorld ==
  ASSUME NEW w \in Worlds, NEW o
  PROVE  Stepped(w, o) \in Worlds /\ Stepped(w, o).seed = w.seed
<1> DEFINE new == [w EXCEPT !.age = @ + 1, !.done = (o = "ends") \/ w.age + 1 = Length]
<1>1. w.age + 1 \in Nat /\ ((o = "ends") \/ w.age + 1 = Length) \in BOOLEAN
  BY DEF Worlds
<1>2. new \in Worlds /\ new.seed = w.seed
  BY <1>1 DEF Worlds
<1> QED BY <1>2 DEF Stepped

(* The worlds after a batch of steps, and whether all of it went well.     *)
StepsTo(batch, well, new) ==
  /\ new \in [EnvIds -> Worlds \cup {NoWorld}]
  /\ \A e \in EnvIds : new[e] = NoWorld \/ (envs[e] # NoWorld /\ new[e].seed = envs[e].seed)
  /\ \A e \in EnvIds \ batch : new[e] = envs[e]
  /\ well => \A e \in batch : envs[e] # NoWorld /\ new[e] # NoWorld

LEMMA StepWorlds ==
  ASSUME Shape, NEW batch \in SUBSET EnvIds, NEW outcome,
         NEW new, new = AfterStep(batch, outcome)
  PROVE  StepsTo(batch, Failing(batch, outcome) = {}, new)
<1>1. /\ Handled(batch, outcome) \subseteq batch /\ Evicted(batch, outcome) \subseteq batch
      /\ \A e \in Handled(batch, outcome) : e \notin Evicted(batch, outcome) /\ envs[e] # NoWorld
  <2>1. Handled(batch, outcome) \subseteq batch /\ Evicted(batch, outcome) \subseteq batch
        /\ Evicted(batch, outcome) \subseteq Failing(batch, outcome)
    BY DEF Handled, Evicted, FirstFailing, Failing
  <2>2. ASSUME NEW e \in Handled(batch, outcome)
        PROVE  e \notin Failing(batch, outcome)
    <3>1. e \in Failing(batch, outcome) => e < e
      BY <2>2 DEF Handled
    <3>2. e \in EnvIds
      BY <2>1, <2>2
    <3>3. e \in Int
      BY <3>2, MembersAreEnvs DEF EnvIds
    <3> QED BY <3>1, <3>3
  <2> QED BY <2>1, <2>2 DEF Failing
<1>2. ASSUME NEW e \in EnvIds
      PROVE  /\ e \in Handled(batch, outcome) => new[e] = Stepped(envs[e], outcome[e])
             /\ e \in Evicted(batch, outcome) => new[e] = NoWorld
             /\ e \notin Handled(batch, outcome) \cup Evicted(batch, outcome) => new[e] = envs[e]
  <2>1. new[e] = IF e \in Evicted(batch, outcome) THEN NoWorld
                 ELSE SteppedWorlds(batch, outcome)[e]
    BY <1>2 DEF AfterStep
  <2>2. SteppedWorlds(batch, outcome)[e] =
          CASE e \in Handled(batch, outcome) -> Stepped(envs[e], outcome[e])
            [] e \in FirstFailing(batch, outcome) -> HalfStepped(envs[e])
            [] OTHER -> envs[e]
    BY <1>2 DEF SteppedWorlds
  <2>3. Evicted(batch, outcome) = FirstFailing(batch, outcome)
    BY DEF Evicted
  <2> QED BY <1>1, <2>1, <2>2, <2>3
<1>3. \A e \in EnvIds : envs[e] \in Worlds \cup {NoWorld}
  BY DEF Shape
<1>4. \A e \in Handled(batch, outcome) : e \in EnvIds /\ envs[e] \in Worlds
        /\ new[e] \in Worlds /\ new[e].seed = envs[e].seed
  BY <1>1, <1>2, <1>3, SteppedWorld
<1>5. \A e \in EnvIds : new[e] \in Worlds \cup {NoWorld}
  BY <1>2, <1>3, <1>4
<1>6. new \in [EnvIds -> Worlds \cup {NoWorld}]
  <2>1. new = [e \in EnvIds |-> new[e]]
    BY DEF AfterStep
  <2> QED BY <1>5, <2>1
<1>7. \A e \in EnvIds : new[e] = NoWorld \/ (envs[e] # NoWorld /\ new[e].seed = envs[e].seed)
  BY <1>2, <1>4, WorldsDiffer
<1>8. \A e \in EnvIds \ batch : new[e] = envs[e]
  BY <1>1, <1>2
<1>9. ASSUME Failing(batch, outcome) = {}, NEW e \in batch
      PROVE  envs[e] # NoWorld /\ new[e] # NoWorld
  <2>1. e \in Handled(batch, outcome)
    BY <1>9 DEF Handled
  <2> QED BY <1>1, <1>4, <2>1, WorldsDiffer
<1> QED BY <1>6, <1>7, <1>8, <1>9 DEF StepsTo

-----------------------------------------------------------------------------
(* The shape of the state, kept whether the bridge lives or not.           *)

LEMMA BridgeStarts == Init => BridgeInv
<1> SUFFICES ASSUME Init PROVE BridgeInv
  OBVIOUS
<1>1. Len(stdin) = 0 /\ Len(stdout) = 0 /\ 1..0 = {}
  BY DEF Init
<1>2. Shape
  <2>1. <<>> \in Seq(Lines) /\ <<>> \in Seq(Replies)
    OBVIOUS
  <2>2. envs \in [EnvIds -> Worlds \cup {NoWorld}]
    BY DEF Init
  <2>3. autoreset \in [EnvIds -> BOOLEAN] /\ currentSeeds \in [EnvIds -> Nat]
    BY DEF Init
  <2>4. stdin \in Seq(Lines) /\ stdout \in Seq(Replies)
    BY <2>1 DEF Init
  <2> QED BY <1>1, <2>2, <2>3, <2>4 DEF Init, Shape
<1>3. SeedsAgree
  <2> SUFFICES ASSUME NEW e \in EnvIds PROVE SeedAhead(e)
    BY MembersAreEnvs DEF SeedsAgree
  <2>1. Resets(e) = {} /\ envs[e] = NoWorld
    BY <1>1 DEF Resets, Init
  <2> QED BY <2>1 DEF SeedAhead
<1>4. Numbered /\ CallIsServed /\ ResultStands
  BY <1>1 DEF Init, Numbered, CallIsServed, ResultStands
<1> QED BY <1>2, <1>3, <1>4 DEF BridgeInv

(* The line a handler takes off the pipe.                                  *)
LEMMA Taken ==
  ASSUME Shape, TakeLine
  PROVE  /\ Head(stdin) \in Lines /\ Head(stdin) = stdin[1] /\ 1 \in 1..Len(stdin)
         /\ stdin' \in Seq(Lines) /\ Len(stdin') = Len(stdin) - 1 /\ Len(stdin) \in Nat \ {0}
         /\ \A i \in 1..Len(stdin') : stdin'[i] = stdin[i + 1] /\ i + 1 \in 1..Len(stdin)
         /\ Head(stdin).cmd = "reset" => \A e \in Head(stdin).batch : Head(stdin).seeds[e] # 0
         /\ \A i \in 1..Len(stdin') : stdin'[i].cmd = "reset" =>
              \A e \in stdin'[i].batch : stdin'[i].seeds[e] # 0
         /\ Len(stdin) = 1 => stdin' = <<>>
<1>1. stdin \in Seq(Lines) /\ stdin # <<>> /\ stdin' = Tail(stdin)
  BY DEF Shape, TakeLine
<1>2. /\ Head(stdin) \in Lines /\ Head(stdin) = stdin[1] /\ 1 \in 1..Len(stdin)
      /\ stdin' \in Seq(Lines) /\ Len(stdin') = Len(stdin) - 1 /\ Len(stdin) \in Nat \ {0}
      /\ \A i \in 1..Len(stdin') : stdin'[i] = stdin[i + 1] /\ i + 1 \in 1..Len(stdin)
      /\ Len(stdin) = 1 => stdin' = <<>>
  BY <1>1, Dropped
<1>3. \A i \in 1..Len(stdin) : stdin[i].cmd = "reset" =>
        \A e \in stdin[i].batch : stdin[i].seeds[e] # 0
  BY DEF Shape
<1>4. Head(stdin).cmd = "reset" => \A e \in Head(stdin).batch : Head(stdin).seeds[e] # 0
  BY <1>2, <1>3
<1>5. ASSUME NEW i \in 1..Len(stdin'), stdin'[i].cmd = "reset"
      PROVE  \A e \in stdin'[i].batch : stdin'[i].seeds[e] # 0
  <2>1. stdin'[i] = stdin[i + 1] /\ i + 1 \in 1..Len(stdin)
    BY <1>2
  <2> QED BY <1>3, <1>5, <2>1
<1> QED BY <1>2, <1>4, <1>5

LEMMA ResetShape ==
  ASSUME Shape, HandleReset
  PROVE  /\ Shape'
         /\ \A e \in Head(stdin).batch :
              envs'[e] # NoWorld /\ envs'[e].seed = Head(stdin).seeds[e]
         /\ \A e \in EnvIds \ Head(stdin).batch : envs'[e] = envs[e]
         /\ stdout' = Append(stdout, Answer(Head(stdin), envs', FALSE))
<1> DEFINE line == Head(stdin)
<1>1. /\ line \in Lines /\ line.cmd = "reset" /\ stdin' \in Seq(Lines)
      /\ \A e \in line.batch : line.seeds[e] # 0
      /\ \A i \in 1..Len(stdin') : stdin'[i].cmd = "reset" =>
           \A e \in stdin'[i].batch : stdin'[i].seeds[e] # 0
  BY Taken DEF HandleReset
<1>2. envs' = AfterReset(line.batch, line.seeds)
      /\ stdout' = Append(stdout, Answer(line, envs', FALSE))
  BY DEF HandleReset
<1> HIDE DEF line
<1>3. /\ envs' \in [EnvIds -> Worlds \cup {NoWorld}]
      /\ \A e \in line.batch : envs'[e] # NoWorld /\ envs'[e].seed = line.seeds[e]
      /\ \A e \in EnvIds \ line.batch : envs'[e] = envs[e]
  BY <1>1, <1>2, ResetWorlds
<1>4. stdout' \in Seq(Replies)
  <2>1. Answer(line, envs', FALSE) \in Replies
    BY <1>1, <1>3, AnswerShape
  <2> QED BY <1>2, <2>1, Appended DEF Shape
<1>5. Shape'
  BY <1>1, <1>3, <1>4 DEF Shape, HandleReset, envVars
<1> QED BY <1>2, <1>3, <1>5 DEF line

LEMMA StepShape ==
  ASSUME Shape, HandleStep
  PROVE  /\ Shape'
         /\ \A e \in EnvIds :
              envs'[e] = NoWorld \/ (envs[e] # NoWorld /\ envs'[e].seed = envs[e].seed)
         /\ \A e \in EnvIds \ Head(stdin).batch : envs'[e] = envs[e]
         /\ \E failed \in BOOLEAN :
              /\ stdout' = Append(stdout, Answer(Head(stdin), envs', failed))
              /\ ~failed => \A e \in Head(stdin).batch : envs[e] # NoWorld /\ envs'[e] # NoWorld
<1> DEFINE line == Head(stdin)
<1>1. /\ line \in Lines /\ line.cmd = "step" /\ stdin' \in Seq(Lines)
      /\ \A i \in 1..Len(stdin') : stdin'[i].cmd = "reset" =>
           \A e \in stdin'[i].batch : stdin'[i].seeds[e] # 0
  BY Taken DEF HandleStep
<1>2. PICK outcome \in [line.batch -> {"goes on", "ends", "throws"}] :
        /\ envs' = AfterStep(line.batch, outcome)
        /\ stdout' = Append(stdout, Answer(line, envs', Failing(line.batch, outcome) # {}))
  BY DEF HandleStep
<1> HIDE DEF line
<1>3. line.batch \in SUBSET EnvIds
  BY <1>1 DEF Lines
<1>4. /\ envs' \in [EnvIds -> Worlds \cup {NoWorld}]
      /\ \A e \in EnvIds :
           envs'[e] = NoWorld \/ (envs[e] # NoWorld /\ envs'[e].seed = envs[e].seed)
      /\ \A e \in EnvIds \ line.batch : envs'[e] = envs[e]
      /\ Failing(line.batch, outcome) = {} =>
           \A e \in line.batch : envs[e] # NoWorld /\ envs'[e] # NoWorld
  <2> DEFINE batch == line.batch
  <2>1. batch \in SUBSET EnvIds /\ envs' = AfterStep(batch, outcome)
    BY <1>2, <1>3
  <2> HIDE DEF batch
  <2>2. StepsTo(batch, Failing(batch, outcome) = {}, envs')
    BY <2>1, StepWorlds
  <2> QED BY <2>2 DEF batch, StepsTo
<1> DEFINE failed == Failing(line.batch, outcome) # {}
<1>5. failed \in BOOLEAN /\ stdout' = Append(stdout, Answer(line, envs', failed))
  BY <1>2
<1>6. ~failed => \A e \in line.batch : envs[e] # NoWorld /\ envs'[e] # NoWorld
  BY <1>4
<1> HIDE DEF failed
<1>7. stdout' \in Seq(Replies)
  <2>1. Answer(line, envs', failed) \in Replies
    BY <1>1, <1>4, <1>5, AnswerShape
  <2> QED BY <1>5, <2>1, Appended DEF Shape
<1>8. Shape'
  BY <1>1, <1>4, <1>7 DEF Shape, HandleStep, envVars
<1>9. \E f \in BOOLEAN :
        /\ stdout' = Append(stdout, Answer(line, envs', f))
        /\ ~f => \A e \in line.batch : envs[e] # NoWorld /\ envs'[e] # NoWorld
  BY <1>5, <1>6
<1> QED BY <1>4, <1>8, <1>9 DEF line

(* What a request leaves on the pipe, and in the call that waits for it.   *)
SentLine(by, cmd, batch, seeds, frames) ==
  IF alive /\ ~closed
  THEN /\ Len(stdin') = Len(stdin) + 1
       /\ \A i \in 1..Len(stdin) : stdin'[i] = stdin[i]
       /\ stdin'[Len(stdin) + 1] = [id |-> nextId, cmd |-> cmd, by |-> by,
                                    batch |-> batch, seeds |-> seeds]
       /\ call' = [by |-> by, cmd |-> cmd, id |-> nextId, frames |-> frames]
  ELSE call' = NoCall /\ stdin' = stdin

LEMMA Sent ==
  ASSUME Shape, NEW by \in {"reset()", "step()"}, NEW cmd \in {"reset", "step"},
         NEW batch \in SUBSET EnvIds, NEW seeds \in [EnvIds -> Nat], NEW frames \in Batches,
         cmd = "reset" => \A e \in batch : seeds[e] # 0,
         Send(by, cmd, batch, seeds, frames)
  PROVE  /\ stdin' \in Seq(Lines) /\ nextId' = nextId + 1 /\ nextId' \in Nat
         /\ call' # NoCall => call' \in Calls
         /\ \A i \in 1..Len(stdin') : stdin'[i].cmd = "reset" =>
              \A e \in stdin'[i].batch : stdin'[i].seeds[e] # 0
         /\ SentLine(by, cmd, batch, seeds, frames)
<1> DEFINE line == [id |-> nextId, cmd |-> cmd, by |-> by, batch |-> batch, seeds |-> seeds]
<1>1. nextId \in Nat /\ stdin \in Seq(Lines) /\ Len(stdin) \in Nat
  BY DEF Shape
<1>2. line \in Lines
  BY <1>1, LineShape
<1>3. line.cmd = cmd /\ line.batch = batch /\ line.seeds = seeds
  OBVIOUS
<1>4. [by |-> by, cmd |-> cmd, id |-> nextId, frames |-> frames] \in Calls
  BY <1>1 DEF Calls
<1>5. \A i \in 1..Len(stdin) : stdin[i].cmd = "reset" =>
        \A e \in stdin[i].batch : stdin[i].seeds[e] # 0
  BY DEF Shape
<1>6. CASE alive /\ ~closed
  <2>1. /\ stdin' = Append(stdin, line) /\ nextId' = nextId + 1
        /\ call' = [by |-> by, cmd |-> cmd, id |-> nextId, frames |-> frames]
    BY <1>6 DEF Send
  <2> HIDE DEF line
  <2>2. /\ stdin' \in Seq(Lines) /\ Len(stdin') = Len(stdin) + 1
        /\ stdin'[Len(stdin) + 1] = line /\ \A i \in 1..Len(stdin) : stdin'[i] = stdin[i]
    BY <1>1, <1>2, <2>1, Appended
  <2>3. ASSUME NEW i \in 1..Len(stdin'), stdin'[i].cmd = "reset"
        PROVE  \A e \in stdin'[i].batch : stdin'[i].seeds[e] # 0
    <3>1. CASE i \in 1..Len(stdin)
      BY <1>5, <2>2, <2>3, <3>1
    <3>2. CASE i = Len(stdin) + 1
      BY <1>3, <2>2, <2>3, <3>2
    <3> QED BY <1>1, <2>2, <3>1, <3>2
  <2>4. SentLine(by, cmd, batch, seeds, frames)
    BY <1>6, <2>1, <2>2 DEF SentLine, line
  <2> QED BY <1>1, <1>4, <2>1, <2>2, <2>3, <2>4
<1>7. CASE ~(alive /\ ~closed)
  <2>1. call' = NoCall /\ nextId' = nextId + 1 /\ stdin' = stdin
    BY <1>7 DEF Send
  <2> QED BY <1>1, <1>5, <1>7, <2>1 DEF SentLine
<1> QED BY <1>6, <1>7

LEMMA NoFrames == <<>> \in Batches /\ DOMAIN <<>> = {}
<1>1. DOMAIN <<>> = {}
  OBVIOUS
<1>2. <<>> \in [{} -> AnyWorld]
  OBVIOUS
<1> QED BY <1>1, <1>2, FramesAreBatches

LEMMA GatheredShape ==
  ASSUME Shape, call # NoCall, stdout # <<>>
  PROVE  /\ Gathered \in Batches
         /\ DOMAIN Gathered = DOMAIN call.frames \cup DOMAIN Head(stdout).frames
         /\ DOMAIN Gathered \subseteq EnvIds
         /\ \A e \in DOMAIN Head(stdout).frames : Gathered[e] = Head(stdout).frames[e]
         /\ \A e \in DOMAIN call.frames \ DOMAIN Head(stdout).frames : Gathered[e] = call.frames[e]
<1> DEFINE a == call.frames
           b == Head(stdout).frames
           es == DOMAIN a \cup DOMAIN b
<1>1. a \in Batches /\ b \in Batches
  <2>1. Head(stdout) \in Replies
    BY Dropped DEF Shape
  <2>2. call \in Calls
    BY DEF Shape
  <2> QED BY <2>1, <2>2 DEF Replies, Calls
<1>2. Gathered = [e \in es |-> IF e \in DOMAIN b THEN b[e] ELSE a[e]]
  BY DEF Gathered
<1> HIDE DEF a, b
<1>3. /\ DOMAIN a \subseteq EnvIds /\ \A e \in DOMAIN a : a[e] \in AnyWorld
      /\ DOMAIN b \subseteq EnvIds /\ \A e \in DOMAIN b : b[e] \in AnyWorld
  BY <1>1, BatchesAreFrames
<1>4. Gathered \in [es -> AnyWorld] /\ es \in SUBSET EnvIds
  BY <1>2, <1>3
<1>5. Gathered \in Batches /\ DOMAIN Gathered = es
  BY <1>4, FramesAreBatches
<1> QED BY <1>2, <1>3, <1>5 DEF a, b

LEMMA RestartingAreEnvs == Restarting \in SUBSET EnvIds /\ Restarting \subseteq Members
BY MembersAreEnvs DEF Restarting

LEMMA ShapeKept == Shape /\ [Next]_vars => Shape'
<1> SUFFICES ASSUME Shape, [Next]_vars PROVE Shape'
  OBVIOUS
<1>1. CASE HandleReset
  BY <1>1, ResetShape
<1>2. CASE HandleStep
  BY <1>2, StepShape
<1>3. CASE HandleClose
  <2>1. stdin' \in Seq(Lines) /\ \A i \in 1..Len(stdin') : stdin'[i].cmd = "reset" =>
          \A e \in stdin'[i].batch : stdin'[i].seeds[e] # 0
    BY <1>3, Taken DEF HandleClose
  <2>2. envs' \in [EnvIds -> Worlds \cup {NoWorld}]
    BY <1>3 DEF HandleClose
  <2> QED BY <1>3, <2>1, <2>2 DEF HandleClose, Shape, envVars
<1>4. CASE BridgeDies
  <2>1. envs' \in [EnvIds -> Worlds \cup {NoWorld}]
    BY <1>4 DEF BridgeDies
  <2> QED BY <1>4, <2>1 DEF BridgeDies, Shape, pipes, envVars
<1>5. CASE ResetCall
  <2>1. /\ draws' \in Nat /\ currentSeeds' \in [EnvIds -> Nat]
        /\ \A e \in Members : currentSeeds'[e] # 0
    BY <1>5, MembersAreEnvs, Drawn DEF ResetCall
  <2>2. Send("reset()", "reset", Members, currentSeeds', <<>>)
    BY <1>5 DEF ResetCall
  <2>3. /\ stdin' \in Seq(Lines) /\ nextId' \in Nat /\ (call' # NoCall => call' \in Calls)
        /\ \A i \in 1..Len(stdin') : stdin'[i].cmd = "reset" =>
             \A e \in stdin'[i].batch : stdin'[i].seeds[e] # 0
    BY <2>1, <2>2, MembersAreEnvs, NoFrames, Sent
  <2> QED BY <1>5, <2>1, <2>3 DEF ResetCall, Shape, bridgeVars
<1>6. CASE StepCall
  <2>1. /\ draws' \in Nat /\ currentSeeds' \in [EnvIds -> Nat]
        /\ \A e \in Restarting : currentSeeds'[e] # 0
    BY <1>6, RestartingAreEnvs, Drawn DEF StepCall
  <2>2. /\ stdin' \in Seq(Lines) /\ nextId' \in Nat /\ (call' # NoCall => call' \in Calls)
        /\ \A i \in 1..Len(stdin') : stdin'[i].cmd = "reset" =>
             \A e \in stdin'[i].batch : stdin'[i].seeds[e] # 0
    <3>1. CASE Restarting # {}
      <4>1. Send("step()", "reset", Restarting, currentSeeds', <<>>)
        BY <1>6, <3>1 DEF StepCall
      <4> QED BY <2>1, <4>1, RestartingAreEnvs, NoFrames, Sent
    <3>2. CASE Restarting = {}
      <4>1. Send("step()", "step", Members, currentSeeds, <<>>)
        BY <1>6, <3>2 DEF StepCall
      <4>2. currentSeeds \in [EnvIds -> Nat]
        BY DEF Shape
      <4> QED BY <4>1, <4>2, MembersAreEnvs, NoFrames, Sent
    <3> QED BY <3>1, <3>2
  <2> QED BY <1>6, <2>1, <2>2 DEF StepCall, Shape, bridgeVars
<1>7. CASE StepCallRaises
  <2>1. PICK b \in Members \ Restarting : DrawSeeds({e \in Restarting : e < b})
    BY <1>7 DEF StepCallRaises
  <2> DEFINE es == {e \in Restarting : e < b}
  <2>2. es \in SUBSET EnvIds /\ DrawSeeds(es)
    BY <2>1, RestartingAreEnvs
  <2> HIDE DEF es
  <2>3. draws' \in Nat /\ currentSeeds' \in [EnvIds -> Nat]
    BY <2>2, Drawn
  <2> QED BY <1>7, <2>3 DEF StepCallRaises, Shape, bridgeVars, pipes
<1>8. CASE Close
  <2> DEFINE line == [id |-> nextId, cmd |-> "close", by |-> "close()", batch |-> {},
                      seeds |-> currentSeeds]
  <2>1. nextId \in Nat /\ currentSeeds \in [EnvIds -> Nat] /\ stdin \in Seq(Lines)
        /\ \A i \in 1..Len(stdin) : stdin[i].cmd = "reset" =>
             \A e \in stdin[i].batch : stdin[i].seeds[e] # 0
    BY DEF Shape
  <2>2. line \in Lines /\ line.cmd = "close"
    BY <2>1, LineShape
  <2>3. stdin' = IF alive THEN Append(stdin, line) ELSE stdin
    BY <1>8 DEF Close
  <2> HIDE DEF line
  <2>4. stdin' \in Seq(Lines) /\ \A i \in 1..Len(stdin') : stdin'[i].cmd = "reset" =>
             \A e \in stdin'[i].batch : stdin'[i].seeds[e] # 0
    <3>1. CASE alive
      <4>1. /\ stdin' \in Seq(Lines) /\ Len(stdin') = Len(stdin) + 1 /\ Len(stdin) \in Nat
            /\ stdin'[Len(stdin) + 1] = line /\ \A i \in 1..Len(stdin) : stdin'[i] = stdin[i]
        BY <2>1, <2>2, <2>3, <3>1, Appended
      <4>2. \A i \in 1..Len(stdin') : i \in 1..Len(stdin) \/ i = Len(stdin) + 1
        BY <4>1
      <4> QED BY <2>1, <2>2, <4>1, <4>2
    <3> QED BY <2>1, <2>3, <3>1
  <2> QED BY <1>8, <2>4 DEF Close, Shape, bridgeVars
<1>9. CASE Raises
  <2>1. (stdout # <<>> /\ stdout' = Tail(stdout)) \/ stdout' = stdout
    BY <1>9 DEF Raises
  <2>2. stdout \in Seq(Replies)
    BY DEF Shape
  <2>3. stdout' \in Seq(Replies)
    BY <2>1, <2>2, Dropped
  <2> QED BY <1>9, <2>3 DEF Raises, Shape, bridgeVars, envVars
<1>10. CASE Interrupted
  BY <1>10 DEF Interrupted, Shape, bridgeVars, pipes, envVars
<1>11. CASE Receive
  <2>1. /\ stdout' = Tail(stdout) /\ stdout # <<>> /\ call # NoCall
        /\ envs' = envs /\ alive' = alive /\ closed' = closed /\ single' = single
        /\ currentSeeds' = currentSeeds /\ draws' = draws
    BY <1>11 DEF Receive, bridgeVars
  <2>2. stdout' \in Seq(Replies)
    BY <2>1, Dropped DEF Shape
  <2>3. CASE DOMAIN Gathered = Members
    <3>1. Return(Gathered) /\ stdin' = stdin /\ nextId' = nextId
      BY <1>11, <2>3 DEF Receive
    <3>2. autoreset' \in [EnvIds -> BOOLEAN]
      BY <3>1 DEF Return
    <3> QED BY <2>1, <2>2, <3>1, <3>2 DEF Return, Shape
  <2>4. CASE DOMAIN Gathered # Members
    <3>1. Send("step()", "step", Members \ Restarting, currentSeeds, Gathered)
          /\ autoreset' = autoreset
      BY <1>11, <2>4 DEF Receive
    <3>2. Members \ Restarting \in SUBSET EnvIds /\ currentSeeds \in [EnvIds -> Nat]
          /\ Gathered \in Batches
      BY <2>1, MembersAreEnvs, GatheredShape DEF Shape
    <3>3. /\ stdin' \in Seq(Lines) /\ nextId' \in Nat /\ (call' # NoCall => call' \in Calls)
          /\ \A i \in 1..Len(stdin') : stdin'[i].cmd = "reset" =>
               \A e \in stdin'[i].batch : stdin'[i].seeds[e] # 0
      BY <3>1, <3>2, Sent
    <3> QED BY <2>1, <2>2, <3>1, <3>3 DEF Shape
  <2> QED BY <2>3, <2>4
<1>12. CASE UNCHANGED vars
  BY <1>12 DEF vars, bridgeVars, pipes, envVars, Shape
<1> QED BY <1>1, <1>2, <1>3, <1>4, <1>5, <1>6, <1>7, <1>8, <1>9, <1>10, <1>11, <1>12
        DEF Next, Bridge, Caller, Pending

-----------------------------------------------------------------------------
(* The bridge handles a line and lives.                                    *)

(* The seed e will run under once the rest of the pipe is read.            *)
LEMMA SeedTaken ==
  ASSUME Shape, TakeLine, NEW e \in EnvIds, currentSeeds' = currentSeeds, SeedAhead(e),
         Head(stdin).cmd = "reset" /\ e \in Head(stdin).batch =>
           envs'[e].seed = Head(stdin).seeds[e],
         ~(Head(stdin).cmd = "reset" /\ e \in Head(stdin).batch) =>
           envs'[e] = NoWorld \/ (envs[e] # NoWorld /\ envs'[e].seed = envs[e].seed)
  PROVE  SeedAhead(e)'
<1>1. /\ Head(stdin) = stdin[1] /\ 1 \in 1..Len(stdin) /\ Len(stdin) \in Nat
      /\ Len(stdin') = Len(stdin) - 1
      /\ \A i \in 1..Len(stdin') : stdin'[i] = stdin[i + 1] /\ i + 1 \in 1..Len(stdin)
  BY Taken
<1>2. \A i \in 1..Len(stdin') : i \in Resets(e)' <=> i + 1 \in Resets(e)
  BY <1>1 DEF Resets
<1>3. Resets(e)' \subseteq 1..Len(stdin') /\ Resets(e) \subseteq 1..Len(stdin)
  BY DEF Resets
<1>4. \A j \in Resets(e) : j = 1 \/ (j - 1 \in Resets(e)' /\ j - 1 \in Nat)
  <2> SUFFICES ASSUME NEW j \in Resets(e), j # 1 PROVE j - 1 \in Resets(e)' /\ j - 1 \in Nat
    OBVIOUS
  <2>1. j - 1 \in 1..Len(stdin') /\ (j - 1) + 1 = j
    BY <1>1, <1>3
  <2> QED BY <1>2, <2>1
<1>5. 1 \in Resets(e) <=> Head(stdin).cmd = "reset" /\ e \in Head(stdin).batch
  BY <1>1 DEF Resets
<1>6. ASSUME Resets(e)' = {}
      PROVE  envs'[e] = NoWorld \/ envs'[e].seed = currentSeeds'[e]
  <2>1. CASE 1 \in Resets(e)
    <3>1. \A j \in Resets(e) : j <= 1
      BY <1>4, <1>6
    <3>2. stdin[1].seeds[e] = currentSeeds[e]
      BY <2>1, <3>1 DEF SeedAhead
    <3> QED BY <1>1, <1>5, <2>1, <3>2
  <2>2. CASE 1 \notin Resets(e)
    <3>1. Resets(e) = {}
      BY <1>4, <1>6, <2>2
    <3> QED BY <1>5, <2>2, <3>1 DEF SeedAhead
  <2> QED BY <2>1, <2>2
<1>7. ASSUME NEW i \in Resets(e)', \A j \in Resets(e)' : j <= i
      PROVE  stdin'[i].seeds[e] = currentSeeds'[e]
  <2>1. i \in 1..Len(stdin') /\ i \in Nat /\ stdin'[i] = stdin[i + 1] /\ i + 1 \in Resets(e)
    BY <1>1, <1>2, <1>3
  <2>2. ASSUME NEW j \in Resets(e) PROVE j <= i + 1
    <3>1. j \in Nat
      BY <1>1, <1>3
    <3>2. CASE j = 1
      BY <2>1, <3>2
    <3>3. CASE j - 1 \in Resets(e)'
      <4>1. j - 1 <= i
        BY <1>7, <3>3
      <4> QED BY <2>1, <3>1, <4>1
    <3> QED BY <1>4, <3>2, <3>3
  <2>3. stdin[i + 1].seeds[e] = currentSeeds[e]
    BY <2>1, <2>2 DEF SeedAhead
  <2> QED BY <2>1, <2>3
<1> QED BY <1>6, <1>7 DEF SeedAhead

(* A handled line, and the reply to it.                                    *)
Handles(line, reply) ==
  /\ TakeLine
  /\ line = Head(stdin) /\ line.cmd # "close"
  /\ reply \in Replies /\ stdout' = Append(stdout, reply)
  /\ reply.id = line.id /\ DOMAIN reply.frames = line.batch
  /\ \A e \in EnvIds \ line.batch : envs'[e] = envs[e]
  /\ line.cmd = "reset" =>
       \A e \in line.batch : envs'[e] # NoWorld /\ envs'[e].seed = line.seeds[e]
  /\ line.cmd # "reset" =>
       \A e \in line.batch :
         envs'[e] = NoWorld \/ (envs[e] # NoWorld /\ envs'[e].seed = envs[e].seed)
  /\ ~reply.error => \A e \in line.batch : reply.frames[e] = envs'[e] /\ envs'[e] # NoWorld
  /\ UNCHANGED <<alive, nextId, envVars, draws, call, result, history>>

LEMMA ResetHandles ==
  ASSUME Shape, HandleReset
  PROVE  Handles(Head(stdin), Answer(Head(stdin), envs', FALSE))
<1> DEFINE line == Head(stdin)
           reply == Answer(line, envs', FALSE)
<1>1. line \in Lines /\ line.cmd = "reset" /\ TakeLine
  BY Taken DEF HandleReset
<1>2. /\ envs' \in [EnvIds -> Worlds \cup {NoWorld}]
      /\ \A e \in line.batch : envs'[e] # NoWorld /\ envs'[e].seed = line.seeds[e]
      /\ \A e \in EnvIds \ line.batch : envs'[e] = envs[e]
      /\ stdout' = Append(stdout, reply)
  BY ResetShape DEF Shape
<1> HIDE DEF line
<1>3. /\ reply \in Replies /\ reply.id = line.id
      /\ DOMAIN reply.frames = line.batch /\ \A e \in line.batch : reply.frames[e] = envs'[e]
  BY <1>1, <1>2, AnswerShape
<1>4. UNCHANGED <<alive, nextId, envVars, draws, call, result, history>>
  BY DEF HandleReset
<1> HIDE DEF reply
<1>5. line = Head(stdin)
  BY DEF line
<1>6. Handles(line, reply)
  BY <1>1, <1>2, <1>3, <1>4, <1>5 DEF Handles
<1> QED BY <1>6 DEF line, reply

LEMMA StepHandles ==
  ASSUME Shape, HandleStep
  PROVE  \E reply : Handles(Head(stdin), reply)
<1> DEFINE line == Head(stdin)
<1>1. line \in Lines /\ line.cmd = "step" /\ TakeLine
  BY Taken DEF HandleStep
<1>2. /\ envs' \in [EnvIds -> Worlds \cup {NoWorld}]
      /\ \A e \in EnvIds :
           envs'[e] = NoWorld \/ (envs[e] # NoWorld /\ envs'[e].seed = envs[e].seed)
      /\ \A e \in EnvIds \ line.batch : envs'[e] = envs[e]
  BY StepShape DEF Shape
<1>3. PICK failed \in BOOLEAN :
        /\ stdout' = Append(stdout, Answer(line, envs', failed))
        /\ ~failed => \A e \in line.batch : envs[e] # NoWorld /\ envs'[e] # NoWorld
  BY StepShape
<1> DEFINE reply == Answer(line, envs', failed)
<1> HIDE DEF line
<1>4. /\ reply \in Replies /\ reply.id = line.id /\ reply.error = failed
      /\ DOMAIN reply.frames = line.batch
      /\ ~failed => \A e \in line.batch : reply.frames[e] = envs'[e]
  BY <1>1, <1>2, AnswerShape
<1>5. UNCHANGED <<alive, nextId, envVars, draws, call, result, history>>
  BY DEF HandleStep
<1>6. stdout' = Append(stdout, reply)
  BY <1>3
<1>7. line.batch \subseteq EnvIds /\ line = Head(stdin)
  BY <1>1 DEF Lines, line
<1> HIDE DEF reply
<1>8. Handles(line, reply)
  BY <1>1, <1>2, <1>3, <1>4, <1>5, <1>6, <1>7 DEF Handles
<1> QED BY <1>8 DEF line

LEMMA HandleKeeps ==
  ASSUME BridgeInv, alive, NEW line, NEW reply, Handles(line, reply)
  PROVE  SeedsAgree' /\ Numbered' /\ CallIsServed' /\ ResultStands'
<1>1. Shape /\ SeedsAgree /\ Numbered /\ CallIsServed /\ ResultStands
  BY DEF BridgeInv
<1>2. /\ line \in Lines /\ line = stdin[1] /\ 1 \in 1..Len(stdin) /\ line = Head(stdin)
      /\ Len(stdin') = Len(stdin) - 1 /\ Len(stdin) \in Nat \ {0}
      /\ \A i \in 1..Len(stdin') : stdin'[i] = stdin[i + 1] /\ i + 1 \in 1..Len(stdin)
      /\ Len(stdin) = 1 => stdin' = <<>>
      /\ stdin # <<>>
  BY <1>1, Taken DEF Handles, TakeLine
<1>3. /\ Len(stdout') = Len(stdout) + 1 /\ Len(stdout) \in Nat /\ stdout' # <<>>
      /\ stdout'[Len(stdout) + 1] = reply
      /\ \A i \in 1..Len(stdout) : stdout'[i] = stdout[i]
  <2>1. stdout \in Seq(Replies) /\ reply \in Replies /\ stdout' = Append(stdout, reply)
    BY <1>1 DEF Handles, Shape
  <2> QED BY <2>1, Appended
<1>4. /\ alive' = alive /\ nextId' = nextId /\ closed' = closed /\ call' = call
      /\ single' = single /\ autoreset' = autoreset /\ currentSeeds' = currentSeeds
      /\ result' = result /\ Members' = Members /\ Restarting' = Restarting
  BY DEF Handles, envVars, Members, Restarting
<1>5. /\ line.batch \subseteq EnvIds /\ line.id \in Nat /\ line.cmd # "close"
      /\ reply.id = line.id /\ DOMAIN reply.frames = line.batch
      /\ \A e \in EnvIds \ line.batch : envs'[e] = envs[e]
      /\ line.cmd = "reset" =>
           \A e \in line.batch : envs'[e] # NoWorld /\ envs'[e].seed = line.seeds[e]
      /\ line.cmd # "reset" =>
           \A e \in line.batch :
             envs'[e] = NoWorld \/ (envs[e] # NoWorld /\ envs'[e].seed = envs[e].seed)
      /\ ~reply.error =>
           \A e \in line.batch : reply.frames[e] = envs'[e] /\ envs'[e] # NoWorld
  BY <1>2 DEF Handles, Lines
<1>6. SeedsAgree'
  <2> SUFFICES ASSUME ~closed, NEW e \in Members \ Restarting PROVE SeedAhead(e)'
    BY <1>4 DEF SeedsAgree
  <2>1. SeedAhead(e) /\ e \in EnvIds
    BY <1>1, MembersAreEnvs DEF SeedsAgree
  <2>2. TakeLine /\ currentSeeds' = currentSeeds
    BY <1>4 DEF Handles
  <2>3. Head(stdin).cmd = "reset" /\ e \in Head(stdin).batch =>
          envs'[e].seed = Head(stdin).seeds[e]
    BY <1>2, <1>5
  <2>4. ~(Head(stdin).cmd = "reset" /\ e \in Head(stdin).batch) =>
          envs'[e] = NoWorld \/ (envs[e] # NoWorld /\ envs'[e].seed = envs[e].seed)
    BY <1>2, <1>5, <2>1
  <2> QED BY <1>1, <2>1, <2>2, <2>3, <2>4, SeedTaken
<1>7. line.id < nextId
  BY <1>1, <1>2, <1>5 DEF Numbered
<1>8. \A i \in 1..Len(stdout') : (i \in 1..Len(stdout) /\ stdout'[i] = stdout[i])
                                \/ (i = Len(stdout') /\ stdout'[i] = reply)
  BY <1>3
<1>9. Numbered'
  <2>1. \A i \in 1..Len(stdin') :
          (stdin'[i].cmd # "close" /\ stdin'[i].id < nextId) \/ (stdin'[i].cmd = "close" /\ closed)
    BY <1>1, <1>2 DEF Numbered
  <2>2. \A i \in 1..Len(stdout') : stdout'[i].id < nextId
    BY <1>1, <1>5, <1>7, <1>8 DEF Numbered
  <2> QED BY <1>1, <1>4, <2>1, <2>2 DEF Numbered
<1>10. CallIsServed'
  <2> SUFFICES ASSUME call # NoCall
               PROVE  /\ Asked' \/ IsAnswered'
                      /\ \A e \in DOMAIN call.frames :
                           call.frames[e] = envs'[e] /\ Known(e)'
    BY <1>4 DEF CallIsServed
  <2>1. Asked
    BY <1>1, <1>2 DEF CallIsServed, IsAnswered
  <2> DEFINE last == stdin[Len(stdin)]
  <2>2. /\ last.id = call.id /\ Asks(last.batch)
        /\ last.cmd = "reset" => \A e \in last.batch : last.seeds[e] = currentSeeds[e]
        /\ last.cmd = "step" => last.batch \subseteq Members \ Restarting
        /\ \A i \in 1..Len(stdout) : stdout[i].id < call.id
        /\ \A i \in 1..Len(stdin) : i # Len(stdin) => stdin[i].id < call.id
        /\ DOMAIN call.frames # {} => Len(stdin) = 1
    BY <2>1 DEF Asked
  <2>3. \A e \in EnvIds : (Known(e)' <=> envs'[e] # NoWorld /\ envs'[e].seed = currentSeeds[e])
    BY <1>4 DEF Known
  <2>4. \A b : Asks(b)' <=> Asks(b)
    BY <1>4 DEF Asks
  <2>5. /\ DOMAIN call.frames \subseteq EnvIds
        /\ \A e \in DOMAIN call.frames : call.frames[e] = envs[e] /\ Known(e)
    <3>1. call.frames \in Batches
      BY <1>1 DEF Shape, Calls
    <3> QED BY <1>1, <3>1, BatchesAreFrames DEF CallIsServed
  <2>6. ASSUME NEW e \in DOMAIN call.frames
        PROVE  call.frames[e] = envs'[e] /\ Known(e)'
    <3>1. Len(stdin) = 1 /\ last = line
      BY <1>2, <2>2, <2>6
    <3>2. e \notin line.batch
      BY <2>2, <2>6, <3>1 DEF Asks
    <3>3. envs'[e] = envs[e] /\ e \in EnvIds
      BY <1>5, <2>5, <3>2
    <3> QED BY <2>3, <2>5, <3>3 DEF Known
  <2>7. CASE Len(stdin) = 1
    <3>1. last = line /\ stdin' = <<>> /\ \A i \in 1..Len(stdin) : stdin[i] = line
      BY <1>2, <2>7
    <3>2. stdout'[Len(stdout')] = reply /\ \A i \in 1..Len(stdout') :
            i # Len(stdout') => stdout'[i].id < call.id
      BY <1>3, <1>8, <2>2
    <3>3. reply.id = call.id /\ Asks(DOMAIN reply.frames)
      BY <1>5, <2>2, <3>1
    <3>4. ASSUME ~reply.error, NEW e \in line.batch
          PROVE  reply.frames[e] = envs'[e] /\ Known(e)'
      <4>1. reply.frames[e] = envs'[e] /\ envs'[e] # NoWorld /\ e \in EnvIds
        BY <1>5, <3>4
      <4>2. CASE line.cmd = "reset"
        <5>1. envs'[e].seed = currentSeeds[e]
          BY <1>5, <2>2, <3>1, <3>4, <4>2
        <5> QED BY <2>3, <4>1, <5>1
      <4>3. CASE line.cmd # "reset"
        <5>1. line.cmd = "step"
          BY <1>2, <1>5, <4>3 DEF Lines
        <5>2. e \in Members \ Restarting /\ ~closed
          BY <1>1, <2>2, <3>1, <3>4, <5>1 DEF Numbered
        <5>3. SeedAhead(e) /\ Resets(e) = {}
          BY <1>1, <3>1, <5>1, <5>2 DEF SeedsAgree, Resets
        <5>4. envs[e] # NoWorld /\ envs'[e].seed = envs[e].seed
          BY <1>5, <3>4, <4>1, <4>3
        <5>5. envs'[e].seed = currentSeeds[e]
          BY <5>3, <5>4 DEF SeedAhead
        <5> QED BY <2>3, <4>1, <5>5
      <4> QED BY <4>2, <4>3
    <3>5. IsAnswered'
      <4>1. ~reply.error =>
              \A e \in DOMAIN reply.frames : reply.frames[e] = envs'[e] /\ Known(e)'
        BY <1>5, <3>4
      <4> QED BY <1>3, <1>4, <2>4, <3>1, <3>2, <3>3, <4>1 DEF IsAnswered
    <3> QED BY <2>6, <3>5
  <2>8. CASE Len(stdin) # 1
    <3>1. DOMAIN call.frames = {}
      BY <2>2, <2>8
    <3>2. Len(stdin') \in Nat /\ Len(stdin') # 0 /\ stdin' # <<>>
      BY <1>2, <2>8
    <3>3. stdin'[Len(stdin')] = last
      BY <1>2, <3>2
    <3>4. line.id < call.id
      BY <1>2, <2>2, <2>8
    <3>5. \A i \in 1..Len(stdout') : stdout'[i].id < call.id
      BY <1>5, <1>8, <2>2, <3>4
    <3>6. \A i \in 1..Len(stdin') : i # Len(stdin') => stdin'[i].id < call.id
      BY <1>2, <2>2
    <3>7. Asked'
      BY <1>4, <2>2, <2>4, <3>1, <3>2, <3>3, <3>5, <3>6 DEF Asked
    <3> QED BY <2>6, <3>7
  <2> QED BY <2>7, <2>8
<1>11. ResultStands'
  <2>1. result = NoResult
    BY <1>1, <1>2, <1>5 DEF ResultStands
  <2> QED BY <1>4, <2>1 DEF ResultStands
<1> QED BY <1>6, <1>9, <1>10, <1>11

-----------------------------------------------------------------------------
(* The caller's steps while the bridge lives.                              *)

LEMMA IdsAreNumbers ==
  /\ \A s \in Seq(Lines) : \A i \in 1..Len(s) : s[i].id \in Nat
  /\ \A s \in Seq(Replies) : \A i \in 1..Len(s) : s[i].id \in Nat
<1>1. ASSUME NEW s \in Seq(Lines), NEW i \in 1..Len(s) PROVE s[i].id \in Nat
  <2>1. s[i] \in Lines
    OBVIOUS
  <2> QED BY <2>1 DEF Lines
<1>2. ASSUME NEW s \in Seq(Replies), NEW i \in 1..Len(s) PROVE s[i].id \in Nat
  <2>1. s[i] \in Replies
    OBVIOUS
  <2> QED BY <2>1 DEF Replies
<1> QED BY <1>1, <1>2

(* A request that goes out with what the call already has.                 *)
LEMMA AskKeeps ==
  ASSUME BridgeInv, alive,
         NEW by, NEW cmd \in {"reset", "step"}, NEW batch \in SUBSET EnvIds, NEW seeds,
         NEW frames, frames \in Batches,
         SentLine(by, cmd, batch, seeds, frames), nextId' = nextId + 1,
         UNCHANGED <<envs, alive, closed, single, autoreset>>,
         result' = NoResult,
         Shape',
         \A i \in 1..Len(stdout') : stdout'[i].id < nextId,
         \A e \in Members \ Restarting :
           cmd = "step" \/ e \notin batch => currentSeeds'[e] = currentSeeds[e],
         cmd = "reset" => \A e \in batch : seeds[e] = currentSeeds'[e],
         cmd = "step" => batch \subseteq Members \ Restarting,
         \/ batch \cup DOMAIN frames = Members /\ batch \cap DOMAIN frames = {}
         \/ batch = Restarting /\ DOMAIN frames = {},
         DOMAIN frames # {} => stdin = <<>>,
         \A e \in DOMAIN frames :
           frames[e] = envs[e] /\ envs[e] # NoWorld /\ envs[e].seed = currentSeeds'[e]
  PROVE  SeedsAgree' /\ Numbered' /\ CallIsServed' /\ ResultStands'
<1>1. Shape /\ SeedsAgree /\ Numbered
  BY DEF BridgeInv
<1>2. Len(stdin) \in Nat /\ nextId \in Nat /\ (stdin = <<>> => Len(stdin) = 0)
  BY <1>1 DEF Shape
<1>3. Members' = Members /\ Restarting' = Restarting
  BY DEF Members, Restarting
<1>4. ResultStands'
  BY DEF ResultStands
<1>5. \A i \in 1..Len(stdout') : stdout'[i].id < nextId'
  <2>1. stdout' \in Seq(Replies)
    BY DEF Shape
  <2>2. \A i \in 1..Len(stdout') : stdout'[i].id \in Nat
    BY <2>1, IdsAreNumbers
  <2> QED BY <1>2, <2>2
<1>6. \A i \in 1..Len(stdin) : stdin[i].id \in Nat
  <2>1. stdin \in Seq(Lines)
    BY <1>1 DEF Shape
  <2> QED BY <2>1, IdsAreNumbers
<1>7. CASE closed
  <2>1. call' = NoCall /\ stdin' = stdin
    BY <1>7 DEF SentLine
  <2>2. SeedsAgree'
    BY <1>7 DEF SeedsAgree
  <2>3. Numbered'
    BY <1>1, <1>2, <1>5, <1>6, <2>1 DEF Numbered
  <2>4. CallIsServed'
    BY <2>1 DEF CallIsServed
  <2> QED BY <1>4, <2>2, <2>3, <2>4
<1>8. CASE ~closed
  <2> DEFINE n == Len(stdin) + 1
             line == [id |-> nextId, cmd |-> cmd, by |-> by, batch |-> batch,
                      seeds |-> seeds]
  <2>1. /\ Len(stdin') = n /\ \A i \in 1..Len(stdin) : stdin'[i] = stdin[i]
        /\ stdin'[n] = line
        /\ call' = [by |-> by, cmd |-> cmd, id |-> nextId, frames |-> frames]
    BY <1>8 DEF SentLine
  <2>2. /\ line.id = nextId /\ line.cmd = cmd /\ line.batch = batch /\ line.seeds = seeds
        /\ call'.id = nextId /\ call'.frames = frames
    BY <2>1
  <2> HIDE DEF line
  <2>3. \A i \in 1..Len(stdin') : (i \in 1..Len(stdin) /\ stdin'[i] = stdin[i])
                                  \/ (i = n /\ stdin'[i] = line)
    BY <1>2, <2>1
  <2>4. \A i \in 1..Len(stdin) : stdin[i].cmd # "close" /\ stdin[i].id < nextId
    BY <1>1, <1>8 DEF Numbered
  <2>5. Numbered'
    <3>1. \A i \in 1..Len(stdin') : stdin'[i].cmd # "close" /\ stdin'[i].id < nextId'
      BY <1>2, <1>6, <2>2, <2>3, <2>4
    <3>2. call'.id < nextId' /\ ~closed'
      BY <1>2, <1>8, <2>2
    <3> QED BY <1>5, <3>1, <3>2 DEF Numbered
  <2>6. SeedsAgree'
    <3> SUFFICES ASSUME NEW e \in Members \ Restarting PROVE SeedAhead(e)'
      BY <1>3 DEF SeedsAgree
    <3>1. SeedAhead(e)
      BY <1>1, <1>8 DEF SeedsAgree
    <3>2. /\ Resets(e)' \subseteq 1..n /\ Resets(e) \subseteq 1..Len(stdin)
          /\ \A i \in 1..Len(stdin) : i \in Resets(e)' <=> i \in Resets(e)
          /\ n \in Resets(e)' <=> cmd = "reset" /\ e \in batch
      BY <1>2, <2>1, <2>2 DEF Resets
    <3>3. CASE cmd = "reset" /\ e \in batch
      <4>1. n \in Resets(e)' /\ n \in Nat
        BY <1>2, <3>2, <3>3
      <4>2. ASSUME NEW i \in Resets(e)', \A j \in Resets(e)' : j <= i
            PROVE  stdin'[i].seeds[e] = currentSeeds'[e]
        <5>1. n <= i /\ i \in 1..n
          BY <3>2, <4>1, <4>2
        <5>2. i = n
          BY <4>1, <5>1
        <5> QED BY <2>1, <2>2, <3>3, <5>2
      <4> QED BY <4>1, <4>2 DEF SeedAhead
    <3>4. CASE ~(cmd = "reset" /\ e \in batch)
      <4>1. currentSeeds'[e] = currentSeeds[e]
        BY <3>4
      <4>2. Resets(e)' = Resets(e)
        <5>1. \A i \in Resets(e)' : i \in 1..Len(stdin)
          BY <1>2, <3>2, <3>4
        <5> QED BY <3>2, <5>1
      <4>3. \A i \in Resets(e) : stdin'[i] = stdin[i]
        BY <2>1, <3>2
      <4> QED BY <3>1, <4>1, <4>2, <4>3 DEF SeedAhead
    <3> QED BY <3>3, <3>4
  <2>7. CallIsServed'
    <3>1. n \in Nat /\ n # 0 /\ stdin' # <<>>
      BY <1>2, <2>1
    <3>2. Asks(batch)'
      BY <1>3, <2>2 DEF Asks
    <3>3. /\ \A i \in 1..Len(stdout') : stdout'[i].id < call'.id
          /\ \A i \in 1..Len(stdin') : i # Len(stdin') => stdin'[i].id < call'.id
      BY <2>1, <2>2, <2>3, <2>4
    <3>4. DOMAIN call'.frames # {} => Len(stdin') = 1
      BY <1>2, <2>1, <2>2
    <3>5. Asked'
      BY <1>3, <2>1, <2>2, <3>1, <3>2, <3>3, <3>4 DEF Asked
    <3>6. \A e \in DOMAIN call'.frames : call'.frames[e] = envs'[e] /\ Known(e)'
      BY <2>2 DEF Known
    <3> QED BY <3>5, <3>6 DEF CallIsServed
  <2> QED BY <1>4, <2>5, <2>6, <2>7
<1> QED BY <1>7, <1>8

LEMMA ResetCallKeeps ==
  ASSUME BridgeInv, alive, ResetCall, Shape'
  PROVE  SeedsAgree' /\ Numbered' /\ CallIsServed' /\ ResultStands'
<1>1. Shape /\ Numbered /\ nextId \in Nat
  BY DEF BridgeInv, Shape
<1>2. /\ UNCHANGED <<envs, alive, stdout, closed, single, autoreset>> /\ result' = NoResult
      /\ DrawSeeds(Members) /\ Send("reset()", "reset", Members, currentSeeds', <<>>)
  BY DEF ResetCall, bridgeVars
<1>3. /\ currentSeeds' \in [EnvIds -> Nat] /\ \A e \in Members : currentSeeds'[e] # 0
  BY <1>1, <1>2, MembersAreEnvs, Drawn
<1>4. SentLine("reset()", "reset", Members, currentSeeds', <<>>) /\ nextId' = nextId + 1
  BY <1>1, <1>2, <1>3, MembersAreEnvs, NoFrames, Sent
<1>5. \A i \in 1..Len(stdout') : stdout'[i].id < nextId
  BY <1>1, <1>2 DEF Numbered
<1>6. /\ Members \cup DOMAIN <<>> = Members /\ Members \cap DOMAIN <<>> = {}
      /\ DOMAIN <<>> = {} /\ <<>> \in Batches
  BY NoFrames
<1> DEFINE frames == <<>>
<1>7. /\ Members \cup DOMAIN frames = Members /\ Members \cap DOMAIN frames = {}
      /\ DOMAIN frames = {} /\ frames \in Batches
      /\ SentLine("reset()", "reset", Members, currentSeeds', frames)
  BY <1>4, <1>6
<1> HIDE DEF frames
<1> QED BY <1>2, <1>4, <1>5, <1>7, MembersAreEnvs, AskKeeps

LEMMA StepCallKeeps ==
  ASSUME BridgeInv, alive, StepCall, Shape'
  PROVE  SeedsAgree' /\ Numbered' /\ CallIsServed' /\ ResultStands'
<1>1. Shape /\ Numbered /\ nextId \in Nat /\ currentSeeds \in [EnvIds -> Nat]
  BY DEF BridgeInv, Shape
<1>2. /\ UNCHANGED <<envs, alive, stdout, closed, single, autoreset>> /\ result' = NoResult
      /\ DrawSeeds(Restarting)
  BY DEF StepCall, bridgeVars
<1>3. /\ currentSeeds' \in [EnvIds -> Nat] /\ \A e \in Restarting : currentSeeds'[e] # 0
      /\ \A e \in EnvIds \ Restarting : currentSeeds'[e] = currentSeeds[e]
  BY <1>1, <1>2, RestartingAreEnvs, Drawn
<1>4. \A i \in 1..Len(stdout') : stdout'[i].id < nextId
  BY <1>1, <1>2 DEF Numbered
<1> DEFINE frames == <<>>
<1>5. DOMAIN frames = {} /\ frames \in Batches
  BY NoFrames
<1>6. \A e \in Members \ Restarting : currentSeeds'[e] = currentSeeds[e]
  BY <1>3, MembersAreEnvs
<1>7. CASE Restarting # {}
  <2>1. Send("step()", "reset", Restarting, currentSeeds', frames)
    BY <1>7 DEF StepCall
  <2> HIDE DEF frames
  <2>2. SentLine("step()", "reset", Restarting, currentSeeds', frames) /\ nextId' = nextId + 1
    BY <1>1, <1>3, <1>5, <2>1, RestartingAreEnvs, Sent
  <2> QED BY <1>2, <1>4, <1>5, <1>6, <2>2, RestartingAreEnvs, AskKeeps
<1>8. CASE Restarting = {}
  <2>1. Send("step()", "step", Members, currentSeeds, frames)
    BY <1>8 DEF StepCall
  <2> HIDE DEF frames
  <2>2. SentLine("step()", "step", Members, currentSeeds, frames) /\ nextId' = nextId + 1
    BY <1>1, <1>5, <2>1, MembersAreEnvs, Sent
  <2>3. Members \cup DOMAIN frames = Members /\ Members \cap DOMAIN frames = {}
        /\ Members \subseteq Members \ Restarting
    BY <1>5, <1>8
  <2> QED BY <1>2, <1>4, <1>5, <1>6, <2>2, <2>3, MembersAreEnvs, AskKeeps
<1> QED BY <1>7, <1>8

LEMMA StepCallRaisesKeeps ==
  ASSUME BridgeInv, alive, StepCallRaises
  PROVE  SeedsAgree' /\ Numbered' /\ CallIsServed' /\ ResultStands'
<1>1. Shape /\ SeedsAgree /\ Numbered /\ call = NoCall
  BY DEF BridgeInv, StepCallRaises, MayCall, Idle
<1>2. /\ envs' = envs /\ stdin' = stdin /\ stdout' = stdout /\ nextId' = nextId
      /\ closed' = closed /\ single' = single /\ autoreset' = autoreset /\ call' = call
      /\ result' = NoResult
  BY DEF StepCallRaises, bridgeVars, pipes
<1>3. PICK b \in Members \ Restarting : DrawSeeds({e \in Restarting : e < b})
  BY DEF StepCallRaises
<1> DEFINE es == {e \in Restarting : e < b}
<1>4. es \in SUBSET EnvIds /\ DrawSeeds(es) /\ es \subseteq Restarting
  BY <1>3, RestartingAreEnvs
<1> HIDE DEF es
<1>5. \A e \in EnvIds \ es : currentSeeds'[e] = currentSeeds[e]
  BY <1>1, <1>4, Drawn
<1>6. SeedsAgree'
  <2> SUFFICES ASSUME ~closed, NEW e \in Members \ Restarting PROVE SeedAhead(e)'
    BY <1>2 DEF SeedsAgree, Members, Restarting
  <2>1. SeedAhead(e) /\ currentSeeds'[e] = currentSeeds[e]
    BY <1>1, <1>4, <1>5, MembersAreEnvs DEF SeedsAgree
  <2>2. Resets(e)' = Resets(e)
    BY <1>2 DEF Resets
  <2> QED BY <1>2, <2>1, <2>2 DEF SeedAhead
<1> QED BY <1>1, <1>2, <1>6 DEF Numbered, CallIsServed, ResultStands

LEMMA CloseKeeps ==
  ASSUME BridgeInv, alive, Close
  PROVE  SeedsAgree' /\ Numbered' /\ CallIsServed' /\ ResultStands'
<1> DEFINE line == [id |-> nextId, cmd |-> "close", by |-> "close()", batch |-> {},
                    seeds |-> currentSeeds]
<1>1. /\ Shape /\ Numbered /\ ResultStands /\ call = NoCall /\ ~closed
      /\ nextId \in Nat /\ currentSeeds \in [EnvIds -> Nat] /\ stdin \in Seq(Lines)
  BY DEF BridgeInv, Close, Idle, Shape
<1>2. /\ envs' = envs /\ stdout' = stdout /\ nextId' = nextId /\ closed'
      /\ single' = single /\ autoreset' = autoreset /\ call' = call /\ result' = result
      /\ stdin' = Append(stdin, line)
  BY DEF Close, bridgeVars
<1>3. line \in Lines /\ line.cmd = "close"
  BY <1>1, LineShape
<1> HIDE DEF line
<1>4. /\ Len(stdin') = Len(stdin) + 1 /\ Len(stdin) \in Nat
      /\ stdin'[Len(stdin) + 1] = line /\ \A i \in 1..Len(stdin) : stdin'[i] = stdin[i]
  BY <1>1, <1>2, <1>3, Appended
<1>5. \A i \in 1..Len(stdin') : (i \in 1..Len(stdin) /\ stdin'[i] = stdin[i])
                                \/ stdin'[i].cmd = "close"
  BY <1>3, <1>4
<1>6. SeedsAgree'
  BY <1>2 DEF SeedsAgree
<1>7. Numbered'
  BY <1>1, <1>2, <1>5 DEF Numbered
<1>8. CallIsServed'
  BY <1>1, <1>2 DEF CallIsServed
<1>9. ResultStands'
  BY <1>1, <1>2, <1>5 DEF ResultStands, Members
<1> QED BY <1>6, <1>7, <1>8, <1>9

(* A call that unwinds, with or without the line it has read.              *)
LEMMA UnwindKeeps ==
  ASSUME BridgeInv, alive, call # NoCall, call' = NoCall,
         (stdout # <<>> /\ stdout' = Tail(stdout)) \/ stdout' = stdout,
         UNCHANGED <<bridgeVars, stdin, nextId, envVars, draws, result>>
  PROVE  SeedsAgree' /\ Numbered' /\ CallIsServed' /\ ResultStands'
<1>1. /\ Shape /\ SeedsAgree /\ Numbered /\ ResultStands /\ stdout \in Seq(Replies)
  BY DEF BridgeInv, Shape
<1>2. /\ envs' = envs /\ stdin' = stdin /\ nextId' = nextId /\ closed' = closed
      /\ single' = single /\ autoreset' = autoreset /\ currentSeeds' = currentSeeds
      /\ result' = NoResult
  BY <1>1 DEF bridgeVars, envVars, ResultStands
<1>3. SeedsAgree'
  BY <1>1, <1>2 DEF SeedsAgree, SeedAhead, Resets, Members, Restarting
<1>4. \A i \in 1..Len(stdout') : stdout'[i].id < nextId'
  <2>1. CASE stdout' = stdout
    BY <1>1, <1>2, <2>1 DEF Numbered
  <2>2. CASE stdout # <<>> /\ stdout' = Tail(stdout)
    <3>1. \A i \in 1..Len(stdout') : stdout'[i] = stdout[i + 1] /\ i + 1 \in 1..Len(stdout)
      BY <1>1, <2>2, Dropped
    <3> QED BY <1>1, <1>2, <3>1 DEF Numbered
  <2> QED BY <2>1, <2>2
<1>5. Numbered'
  BY <1>1, <1>2, <1>4 DEF Numbered
<1>6. CallIsServed' /\ ResultStands'
  BY <1>2 DEF CallIsServed, ResultStands
<1> QED BY <1>3, <1>5, <1>6

(* What a call has when the answer it waits for arrives.                   *)
LEMMA Arrived ==
  ASSUME BridgeInv, alive, Receive
  PROVE  /\ stdin = <<>> /\ stdout' = <<>> /\ ~closed /\ result = NoResult
         /\ \A e \in DOMAIN Gathered : Gathered[e] = envs[e] /\ Known(e)
         /\ DOMAIN Gathered \subseteq EnvIds
         /\ DOMAIN Gathered = Members \/ DOMAIN Gathered = Restarting
         /\ DOMAIN Gathered # Members => DOMAIN call.frames = {}
<1> DEFINE reply == Head(stdout)
<1>1. /\ Shape /\ Numbered /\ CallIsServed /\ ResultStands /\ stdout \in Seq(Replies)
      /\ stdout # <<>> /\ call # NoCall /\ stdout' = Tail(stdout)
      /\ reply.id = call.id /\ ~reply.error
  BY DEF BridgeInv, Shape, Receive, IsAnswerTo
<1>2. /\ reply = stdout[1] /\ Len(stdout) \in Nat \ {0} /\ reply.id \in Nat
      /\ Len(stdout) = 1 => stdout' = <<>>
  <2>1. /\ reply = stdout[1] /\ Len(stdout) \in Nat \ {0} /\ reply \in Replies
        /\ Len(stdout) = 1 => stdout' = <<>>
    BY <1>1, Dropped
  <2> QED BY <2>1 DEF Replies
<1>3. ~(reply.id < call.id) /\ 1 \in 1..Len(stdout)
  BY <1>1, <1>2
<1>4. IsAnswered
  BY <1>1, <1>2, <1>3 DEF CallIsServed, Asked
<1>5. Len(stdout) = 1 /\ stdout[Len(stdout)] = reply
  BY <1>2, <1>3, <1>4 DEF IsAnswered
<1>6. /\ stdin = <<>> /\ Asks(DOMAIN reply.frames)
      /\ \A e \in DOMAIN reply.frames : reply.frames[e] = envs[e] /\ Known(e)
  BY <1>1, <1>4, <1>5 DEF IsAnswered
<1>7. \A e \in DOMAIN call.frames : call.frames[e] = envs[e] /\ Known(e)
  BY <1>1 DEF CallIsServed
<1>8. /\ DOMAIN Gathered = DOMAIN call.frames \cup DOMAIN reply.frames
      /\ DOMAIN Gathered \subseteq EnvIds
      /\ \A e \in DOMAIN reply.frames : Gathered[e] = reply.frames[e]
      /\ \A e \in DOMAIN call.frames \ DOMAIN reply.frames : Gathered[e] = call.frames[e]
  BY <1>1, GatheredShape
<1>9. \A e \in DOMAIN Gathered : Gathered[e] = envs[e] /\ Known(e)
  BY <1>6, <1>7, <1>8
<1>10. /\ DOMAIN Gathered = Members \/ DOMAIN Gathered = Restarting
       /\ DOMAIN Gathered # Members => DOMAIN call.frames = {}
  BY <1>6, <1>8 DEF Asks
<1>11. ~closed /\ result = NoResult
  BY <1>1 DEF Numbered, ResultStands
<1> QED BY <1>2, <1>5, <1>6, <1>8, <1>9, <1>10, <1>11

LEMMA ReceiveKeeps ==
  ASSUME BridgeInv, alive, Receive, Shape'
  PROVE  SeedsAgree' /\ Numbered' /\ CallIsServed' /\ ResultStands'
<1>1. /\ stdin = <<>> /\ stdout' = <<>> /\ ~closed /\ result = NoResult
      /\ \A e \in DOMAIN Gathered : Gathered[e] = envs[e] /\ Known(e)
      /\ DOMAIN Gathered \subseteq EnvIds
      /\ DOMAIN Gathered = Members \/ DOMAIN Gathered = Restarting
  BY Arrived
<1>2. /\ Shape /\ SeedsAgree /\ Numbered /\ nextId \in Nat
      /\ Len(stdin) = 0 /\ Len(stdout') = 0 /\ 1..0 = {}
  BY <1>1 DEF BridgeInv, Shape
<1>3. /\ UNCHANGED <<envs, alive, closed, single, currentSeeds>>
      /\ call # NoCall /\ stdout # <<>>
  BY DEF Receive, bridgeVars
<1>4. CASE DOMAIN Gathered = Members
  <2>1. Return(Gathered) /\ stdin' = stdin /\ nextId' = nextId
    BY <1>4 DEF Receive
  <2>2. /\ call' = NoCall /\ result'.frames = Gathered /\ result'.seeds = currentSeeds
        /\ result'.terminated = Ended(Gathered)
    BY <2>1 DEF Return
  <2>3. \A e \in Members : Gathered[e] = envs[e] /\ envs[e] # NoWorld
                           /\ envs[e].seed = currentSeeds[e]
    BY <1>1, <1>4 DEF Known
  <2>4. SeedsAgree'
    <3> SUFFICES ASSUME NEW e \in Members PROVE SeedAhead(e)'
      BY <1>3 DEF SeedsAgree, Members
    <3>1. Resets(e)' = {}
      BY <1>1, <1>2, <2>1 DEF Resets
    <3> QED BY <1>3, <2>3, <3>1 DEF SeedAhead
  <2>5. Numbered' /\ CallIsServed'
    BY <1>1, <1>2, <2>1, <2>2 DEF Numbered, CallIsServed
  <2>6. ResultStands'
    <3>1. \A e \in Members : /\ result'.frames[e] = envs'[e] /\ result'.seeds[e] = envs'[e].seed
                             /\ envs'[e] # NoWorld
                             /\ e \in result'.terminated => envs'[e].done
      BY <1>3, <2>2, <2>3 DEF Ended
    <3>2. Members' = Members
      BY <1>3 DEF Members
    <3>3. \A i \in 1..Len(stdin') : stdin'[i].cmd = "close"
      BY <1>1, <1>2, <2>1
    <3> QED BY <1>1, <2>2, <3>1, <3>2, <3>3 DEF ResultStands
  <2> QED BY <2>4, <2>5, <2>6
<1>5. CASE DOMAIN Gathered # Members
  <2> DEFINE batch == Members \ Restarting
             frames == Gathered
  <2>1. /\ Send("step()", "step", batch, currentSeeds, frames)
        /\ autoreset' = autoreset /\ result' = NoResult
    BY <1>1, <1>5 DEF Receive
  <2>2. /\ batch \in SUBSET EnvIds /\ currentSeeds \in [EnvIds -> Nat] /\ frames \in Batches
        /\ batch \subseteq Members \ Restarting
    BY <1>2, <1>3, MembersAreEnvs, GatheredShape DEF Shape
  <2>3. /\ batch \cup DOMAIN frames = Members /\ batch \cap DOMAIN frames = {}
    BY <1>1, <1>5, RestartingAreEnvs
  <2>4. \A e \in DOMAIN frames :
           frames[e] = envs[e] /\ envs[e] # NoWorld /\ envs[e].seed = currentSeeds'[e]
    BY <1>1, <1>3 DEF Known
  <2>5. \A i \in 1..Len(stdout') : stdout'[i].id < nextId
    BY <1>2
  <2>6. \A e \in Members \ Restarting : currentSeeds'[e] = currentSeeds[e]
    BY <1>3
  <2> HIDE DEF batch, frames
  <2>7. SentLine("step()", "step", batch, currentSeeds, frames) /\ nextId' = nextId + 1
    BY <1>2, <2>1, <2>2, Sent
  <2> QED BY <1>1, <1>3, <2>1, <2>2, <2>3, <2>4, <2>5, <2>6, <2>7, AskKeeps
<1> QED BY <1>4, <1>5

LEMMA BridgeInvKept == BridgeInv /\ [Next]_vars => BridgeInv'
<1> SUFFICES ASSUME BridgeInv, [Next]_vars PROVE BridgeInv'
  OBVIOUS
<1>1. Shape /\ Shape'
  BY ShapeKept DEF BridgeInv
<1> SUFFICES ASSUME alive' PROVE SeedsAgree' /\ Numbered' /\ CallIsServed' /\ ResultStands'
  BY <1>1 DEF BridgeInv
<1>2. CASE HandleReset
  <2>1. alive
    BY <1>2 DEF HandleReset, TakeLine
  <2> QED BY <1>1, <1>2, <2>1, ResetHandles, HandleKeeps
<1>3. CASE HandleStep
  <2>1. alive
    BY <1>3 DEF HandleStep, TakeLine
  <2> QED BY <1>1, <1>3, <2>1, StepHandles, HandleKeeps
<1>4. CASE HandleClose \/ BridgeDies
  BY <1>4 DEF HandleClose, BridgeDies
<1>5. CASE ResetCall
  BY <1>1, <1>5, ResetCallKeeps DEF ResetCall, bridgeVars
<1>6. CASE StepCall
  BY <1>1, <1>6, StepCallKeeps DEF StepCall, bridgeVars
<1>7. CASE StepCallRaises
  BY <1>7, StepCallRaisesKeeps DEF StepCallRaises, bridgeVars
<1>8. CASE Close
  BY <1>8, CloseKeeps DEF Close, bridgeVars
<1>9. CASE Raises
  BY <1>9, UnwindKeeps DEF Raises, bridgeVars
<1>10. CASE Interrupted
  BY <1>10, UnwindKeeps DEF Interrupted, bridgeVars, pipes
<1>11. CASE Receive
  BY <1>1, <1>11, ReceiveKeeps DEF Receive, bridgeVars
<1>12. CASE UNCHANGED vars
  <2>1. /\ envs' = envs /\ stdin' = stdin /\ stdout' = stdout /\ nextId' = nextId
        /\ closed' = closed /\ single' = single /\ autoreset' = autoreset /\ call' = call
        /\ currentSeeds' = currentSeeds /\ result' = result /\ alive' = alive
    BY <1>12 DEF vars, bridgeVars, pipes, envVars
  <2>2. SeedsAgree' /\ Numbered'
    BY <2>1 DEF BridgeInv, SeedsAgree, SeedAhead, Resets, Members, Restarting, Numbered
  <2>3. CallIsServed'
    BY <2>1 DEF BridgeInv, CallIsServed, Asked, IsAnswered, Asks, Known, Members, Restarting
  <2>4. ResultStands'
    BY <2>1 DEF BridgeInv, ResultStands, Members
  <2> QED BY <2>2, <2>3, <2>4
<1> QED BY <1>2, <1>3, <1>4, <1>5, <1>6, <1>7, <1>8, <1>9, <1>10, <1>11, <1>12
        DEF Next, Bridge, Caller, Pending

-----------------------------------------------------------------------------
(* What reset() and step() return is how the bridge's worlds stand, under  *)
(* the seeds they really have, whatever was interrupted, failed or retried *)
(* before: for any number of sub-environments, of requests in the pipes    *)
(* and of episodes (WarwrightEnv, WarwrightVectorEnv, Transport._send,     *)
(* handleReset, handleStep).                                               *)
THEOREM ResultsAreCurrent == Spec => []ResultIsCurrent
<1>1. Init => BridgeInv
  BY BridgeStarts
<1>2. BridgeInv /\ [Next]_vars => BridgeInv'
  BY BridgeInvKept
<1>3. BridgeInv => ResultIsCurrent
  BY InvGivesCurrent
<1> QED BY <1>1, <1>2, <1>3, PTL DEF Spec

-----------------------------------------------------------------------------
(* The ends of episodes.                                                   *)

(* What a call has, and the answer it waits for, show worlds under the     *)
(* seeds the environment has noted, even after the bridge is gone.         *)
ShowsNoted(frames) == \A e \in DOMAIN frames : frames[e].seed = currentSeeds[e] /\ frames[e].seed # 0

AnswersFit ==
  call # NoCall =>
    /\ ShowsNoted(call.frames)
    /\ \A i \in 1..Len(stdout) :
         stdout[i].id = call.id /\ ~stdout[i].error => ShowsNoted(stdout[i].frames)

(* Seeds are drawn once.                                                   *)
SeedsCounted ==
  /\ \A e \in EnvIds : currentSeeds[e] <= draws
  /\ \A e, f \in EnvIds : e # f /\ currentSeeds[e] # 0 => currentSeeds[e] # currentSeeds[f]
  /\ \A s \in shown \cup told : s \in Nat \ {0} /\ s <= draws

(* An end that was told is of a sub-environment that will restart; while a *)
(* call is under way its successor has been drawn.                         *)
ToldRestarts ==
  \A e \in Members : currentSeeds[e] \in told => call = NoCall /\ autoreset[e]

SingleWaits == single => (autoreset[0] <=> awaitingReset)

(* A world that would be replaced unasked has been told the end of, or was *)
(* never shown, and nor was any that a request on the pipe will start.     *)
MayGo(e) == envs[e].seed \in told \/ envs[e].seed \notin shown

RestartsMayGo == \A e \in Members : autoreset[e] => MayGo(e)

StartsAreNew ==
  \A i \in 1..Len(stdin) : stdin[i].cmd = "reset" =>
    /\ \A e \in stdin[i].batch : stdin[i].seeds[e] \notin shown /\ stdin[i].seeds[e] <= draws
    /\ stdin[i].by = "step()" => ~single /\ stdin[i].batch \subseteq Restarting

EndsInv ==
  /\ BridgeInv /\ AnswersFit /\ SeedsCounted /\ ToldRestarts /\ SingleWaits
  /\ alive => RestartsMayGo /\ StartsAreNew

(* The place of e in es                                                    *)
Place(es, e) == Cardinality({f \in es : f <= e})

(* The seeds drawn for es are new and all different.                       *)
LEMMA DrawnFresh ==
  ASSUME Shape, NEW es \in SUBSET EnvIds, DrawSeeds(es)
  PROVE  /\ draws <= draws'
         /\ \A e \in es : draws < currentSeeds'[e] /\ currentSeeds'[e] <= draws'
         /\ \A e, f \in es : e < f => currentSeeds'[e] < currentSeeds'[f]
<1> DEFINE upTo(e) == {f \in es : f <= e}
<1>1. IsFiniteSet(EnvIds)
  BY MembersAreEnvs, FS_Interval DEF EnvIds
<1>2. IsFiniteSet(es) /\ Cardinality(es) \in Nat /\ draws \in Nat
  BY <1>1, FS_Subset, FS_CardinalityType DEF Shape
<1>3. draws' = draws + Cardinality(es) /\ \A e \in es : currentSeeds'[e] = draws + Place(es, e)
  BY DEF DrawSeeds, Place
<1>4. \A e \in es : e \in Int
  BY DEF EnvIds
<1>5. ASSUME NEW e \in es
      PROVE  Place(es, e) \in Nat \ {0} /\ Place(es, e) <= Cardinality(es) /\ IsFiniteSet(upTo(e))
  <2>1. upTo(e) \in SUBSET es /\ e \in upTo(e)
    BY <1>4
  <2>2. Place(es, e) = Cardinality(upTo(e))
    BY DEF Place
  <2> HIDE DEF upTo
  <2>3. IsFiniteSet(upTo(e)) /\ Place(es, e) <= Cardinality(es) /\ Place(es, e) \in Nat
    BY <1>2, <2>1, <2>2, FS_Subset, FS_CardinalityType
  <2>4. Place(es, e) # 0
    BY <2>1, <2>3, <2>2, FS_EmptySet
  <2> QED BY <2>3, <2>4
<1>6. ASSUME NEW e \in es, NEW f \in es, e < f PROVE Place(es, e) < Place(es, f)
  <2>1. upTo(e) \in SUBSET upTo(f) /\ f \in upTo(f) /\ f \notin upTo(e)
    BY <1>4, <1>6
  <2>2. Place(es, e) = Cardinality(upTo(e)) /\ Place(es, f) = Cardinality(upTo(f))
    BY DEF Place
  <2> HIDE DEF upTo
  <2>3. Place(es, e) <= Place(es, f) /\ (Place(es, f) = Place(es, e) => upTo(f) = upTo(e))
    BY <1>5, <2>1, <2>2, FS_Subset
  <2> QED BY <1>5, <2>1, <2>3
<1>7. draws <= draws'
  BY <1>2, <1>3
<1> HIDE DEF upTo
<1>8. \A e \in es : currentSeeds'[e] = draws + Place(es, e) /\ Place(es, e) \in Nat \ {0}
                    /\ Place(es, e) <= Cardinality(es)
  BY <1>3, <1>5
<1>9. ASSUME NEW e \in es PROVE draws < currentSeeds'[e] /\ currentSeeds'[e] <= draws'
  <2> DEFINE k == Place(es, e)
             c == Cardinality(es)
  <2>1. currentSeeds'[e] = draws + k /\ k \in Nat \ {0} /\ k <= c /\ draws' = draws + c
        /\ c \in Nat /\ draws \in Nat
    BY <1>2, <1>3, <1>8
  <2> HIDE DEF k, c
  <2> QED BY <2>1
<1>10. ASSUME NEW e \in es, NEW f \in es, e < f PROVE currentSeeds'[e] < currentSeeds'[f]
  <2>1. currentSeeds'[e] = draws + Place(es, e) /\ currentSeeds'[f] = draws + Place(es, f) /\ Place(es, e) < Place(es, f)
    BY <1>6, <1>10, <1>8
  <2>2. Place(es, e) \in Nat /\ Place(es, f) \in Nat /\ draws \in Nat
    BY <1>2, <1>8
  <2> QED BY <2>1, <2>2
<1> QED BY <1>7, <1>9, <1>10

LEMMA SeedsStayCounted ==
  ASSUME Shape, SeedsCounted, NEW es \in SUBSET EnvIds, DrawSeeds(es), shown' = shown, told' = told
  PROVE  /\ SeedsCounted' /\ draws' \in Nat /\ draws \in Nat /\ draws <= draws'
         /\ \A e \in es : currentSeeds'[e] \notin shown /\ currentSeeds'[e] \notin told
                          /\ currentSeeds'[e] <= draws'
         /\ \A e \in EnvIds \ es : currentSeeds'[e] = currentSeeds[e]
<1>1. /\ draws \in Nat /\ currentSeeds \in [EnvIds -> Nat] /\ \A e \in EnvIds : e \in Int
  BY DEF Shape, EnvIds
<1>2. /\ draws' \in Nat /\ currentSeeds' \in [EnvIds -> Nat]
      /\ \A e \in EnvIds \ es : currentSeeds'[e] = currentSeeds[e]
  BY Drawn
<1>3. /\ draws <= draws'
      /\ \A e \in es : draws < currentSeeds'[e] /\ currentSeeds'[e] <= draws'
      /\ \A e, f \in es : e < f => currentSeeds'[e] < currentSeeds'[f]
  BY DrawnFresh
<1>4. /\ \A e \in EnvIds : currentSeeds[e] <= draws
      /\ \A e, f \in EnvIds : e # f /\ currentSeeds[e] # 0 => currentSeeds[e] # currentSeeds[f]
      /\ \A s \in shown \cup told : s \in Nat \ {0} /\ s <= draws
  BY DEF SeedsCounted
<1>5. \A e \in EnvIds : currentSeeds'[e] <= draws'
  <2> SUFFICES ASSUME NEW e \in EnvIds PROVE currentSeeds'[e] <= draws'
    OBVIOUS
  <2>1. CASE e \in es
    BY <1>3, <2>1
  <2>2. CASE e \notin es
    <3>1. currentSeeds'[e] = currentSeeds[e] /\ currentSeeds[e] <= draws /\ currentSeeds[e] \in Nat
      BY <1>1, <1>2, <1>4, <2>2
    <3> QED BY <1>1, <1>2, <1>3, <3>1
  <2> QED BY <2>1, <2>2
<1>6. ASSUME NEW e \in EnvIds, NEW f \in EnvIds, e # f, currentSeeds'[e] # 0
      PROVE  currentSeeds'[e] # currentSeeds'[f]
  <2>1. currentSeeds'[e] \in Nat /\ currentSeeds'[f] \in Nat
    BY <1>2
  <2>2. CASE e \in es /\ f \in es
    <3>1. e < f \/ f < e
      BY <1>1, <1>6
    <3> QED BY <1>3, <2>1, <2>2, <3>1
  <2>3. CASE e \in es /\ f \notin es
    <3>1. draws < currentSeeds'[e] /\ currentSeeds'[f] <= draws
      BY <1>2, <1>3, <1>4, <2>3
    <3> QED BY <1>1, <2>1, <3>1
  <2>4. CASE e \notin es /\ f \in es
    <3>1. draws < currentSeeds'[f] /\ currentSeeds'[e] <= draws
      BY <1>2, <1>3, <1>4, <2>4
    <3> QED BY <1>1, <2>1, <3>1
  <2>5. CASE e \notin es /\ f \notin es
    BY <1>2, <1>4, <1>6, <2>5
  <2> QED BY <2>2, <2>3, <2>4, <2>5
<1>7. ASSUME NEW s \in shown \cup told PROVE s \in Nat \ {0} /\ s <= draws /\ s <= draws'
  BY <1>1, <1>2, <1>3, <1>4
<1>8. SeedsCounted'
  BY <1>5, <1>6, <1>7 DEF SeedsCounted
<1>9. ASSUME NEW e \in es PROVE currentSeeds'[e] \notin shown \cup told
  <2>1. currentSeeds'[e] \in Nat /\ draws < currentSeeds'[e]
    BY <1>2, <1>3
  <2> QED BY <1>1, <1>7, <2>1
<1> QED BY <1>1, <1>2, <1>3, <1>8, <1>9

LEMMA EndsStart == Init => EndsInv
<1> SUFFICES ASSUME Init PROVE EndsInv
  OBVIOUS
<1>1. BridgeInv /\ AnswersFit
  BY BridgeStarts DEF Init, AnswersFit
<1>2. SeedsCounted /\ ToldRestarts
  BY MembersAreEnvs DEF Init, SeedsCounted, ToldRestarts
<1>3. SingleWaits
  BY MembersAreEnvs DEF Init, SingleWaits
<1>4. RestartsMayGo
  BY MembersAreEnvs DEF Init, RestartsMayGo
<1>5. StartsAreNew
  <2>1. Len(stdin) = 0 /\ 1..0 = {}
    BY DEF Init
  <2> QED BY <2>1 DEF StartsAreNew
<1> QED BY <1>1, <1>2, <1>3, <1>4, <1>5 DEF EndsInv

LEMMA AliveFits == BridgeInv /\ alive => AnswersFit
<1> SUFFICES ASSUME BridgeInv, alive, call # NoCall
             PROVE  /\ ShowsNoted(call.frames)
                    /\ \A i \in 1..Len(stdout) :
                         stdout[i].id = call.id /\ ~stdout[i].error => ShowsNoted(stdout[i].frames)
  BY DEF AnswersFit
<1>1. Shape /\ CallIsServed /\ stdout \in Seq(Replies) /\ call \in Calls
  BY DEF BridgeInv, Shape
<1>2. \A e \in EnvIds : Known(e) => envs[e].seed = currentSeeds[e] /\ envs[e].seed # 0
  BY <1>1 DEF Shape, Known, Worlds
<1>3. \A e \in DOMAIN call.frames : call.frames[e] = envs[e] /\ Known(e) /\ e \in EnvIds
  BY <1>1, BatchesAreFrames DEF CallIsServed, Calls
<1>4. ShowsNoted(call.frames)
  BY <1>2, <1>3 DEF ShowsNoted
<1>5. ASSUME NEW i \in 1..Len(stdout), stdout[i].id = call.id, ~stdout[i].error
      PROVE  ShowsNoted(stdout[i].frames)
  <2>0. stdout[i] \in Replies
    BY <1>1
  <2>1. stdout[i].id \in Nat /\ stdout[i].frames \in Batches
    BY <2>0 DEF Replies
  <2>2. ~(stdout[i].id < call.id)
    BY <1>5, <2>1
  <2>3. IsAnswered
    BY <1>1, <2>2 DEF CallIsServed, Asked
  <2>4. i = Len(stdout)
    BY <2>2, <2>3 DEF IsAnswered
  <2>5. \A e \in DOMAIN stdout[i].frames : stdout[i].frames[e] = envs[e] /\ Known(e)
    BY <1>5, <2>3, <2>4 DEF IsAnswered
  <2>6. \A e \in DOMAIN stdout[i].frames : e \in EnvIds
    BY <2>1, BatchesAreFrames
  <2> QED BY <1>2, <2>5, <2>6 DEF ShowsNoted
<1> QED BY <1>4, <1>5

(* A handler takes one line: the worlds it starts are new ones.            *)
LEMMA HandlingKeepsEnds ==
  ASSUME EndsInv, alive, NEW line, NEW reply, Handles(line, reply)
  PROVE  SeedsCounted' /\ ToldRestarts' /\ SingleWaits' /\ RestartsMayGo' /\ StartsAreNew'
<1>1. /\ Shape /\ TakeLine /\ SeedsCounted /\ ToldRestarts /\ SingleWaits
      /\ RestartsMayGo /\ StartsAreNew
  BY DEF EndsInv, BridgeInv, Handles
<1>2. /\ closed' = closed /\ single' = single /\ awaitingReset' = awaitingReset
      /\ autoreset' = autoreset /\ currentSeeds' = currentSeeds /\ draws' = draws
      /\ call' = call /\ shown' = shown /\ told' = told
  BY DEF Handles, envVars, history
<1>3. SeedsCounted' /\ ToldRestarts' /\ SingleWaits'
  BY <1>1, <1>2 DEF SeedsCounted, ToldRestarts, SingleWaits, Members
<1>4. /\ line = stdin[1] /\ 1 \in 1..Len(stdin) /\ line \in Lines
      /\ \A i \in 1..Len(stdin') : stdin'[i] = stdin[i + 1] /\ i + 1 \in 1..Len(stdin)
  BY <1>1, Taken DEF Handles
<1>5. RestartsMayGo'
  <2> SUFFICES ASSUME NEW e \in Members, autoreset[e]
               PROVE  envs'[e].seed \in told \/ envs'[e].seed \notin shown
    BY <1>2 DEF RestartsMayGo, MayGo, Members
  <2>1. e \in EnvIds /\ (envs[e].seed \in told \/ envs[e].seed \notin shown)
    BY <1>1, MembersAreEnvs DEF RestartsMayGo, MayGo
  <2>2. CASE e \notin line.batch
    BY <2>1, <2>2 DEF Handles
  <2>3. CASE e \in line.batch /\ line.cmd = "reset"
    <3>1. envs'[e].seed = line.seeds[e] /\ line.seeds[e] \notin shown
      BY <1>1, <1>4, <2>3 DEF Handles, StartsAreNew
    <3> QED BY <3>1
  <2>4. CASE e \in line.batch /\ line.cmd # "reset"
    <3>1. envs'[e] = NoWorld \/ envs'[e].seed = envs[e].seed
      BY <2>4 DEF Handles
    <3>2. 0 \notin shown
      BY <1>1 DEF SeedsCounted
    <3> QED BY <2>1, <3>1, <3>2 DEF NoWorld
  <2> QED BY <2>2, <2>3, <2>4
<1>6. StartsAreNew'
  BY <1>1, <1>2, <1>4 DEF StartsAreNew, Restarting, Members
<1> QED BY <1>3, <1>5, <1>6

(* What becomes of the pipe when a request for batch is written.           *)
LEMMA SendingKeepsStarts ==
  ASSUME StartsAreNew, Shape, NEW by, NEW cmd, NEW batch, NEW seeds, NEW frames,
         SentLine(by, cmd, batch, seeds, frames),
         UNCHANGED <<shown, single, autoreset>>, draws' \in Nat, draws <= draws',
         cmd = "reset" =>
           /\ \A e \in batch : seeds[e] \in Nat /\ seeds[e] \notin shown /\ seeds[e] <= draws'
           /\ by = "step()" => ~single /\ batch \subseteq Restarting
  PROVE  StartsAreNew'
<1>1. Restarting' = Restarting
  BY DEF Restarting, Members
<1>2. \A i \in 1..Len(stdin) : stdin[i].cmd = "reset" =>
        /\ \A e \in stdin[i].batch : stdin[i].seeds[e] \notin shown /\ stdin[i].seeds[e] <= draws'
        /\ stdin[i].by = "step()" => ~single /\ stdin[i].batch \subseteq Restarting
  <2> SUFFICES ASSUME NEW i \in 1..Len(stdin), stdin[i].cmd = "reset", NEW e \in stdin[i].batch
               PROVE  stdin[i].seeds[e] <= draws'
    BY DEF StartsAreNew
  <2>1. stdin[i].seeds[e] <= draws /\ draws \in Nat
    BY DEF StartsAreNew, Shape
  <2>2. stdin[i].seeds[e] \in Nat
    <3>1. stdin[i] \in Lines
      BY DEF Shape
    <3>2. stdin[i].batch \in SUBSET EnvIds /\ stdin[i].seeds \in [EnvIds -> Nat]
      BY <3>1 DEF Lines
    <3> QED BY <3>2
  <2> QED BY <2>1, <2>2
<1>3. CASE alive /\ ~closed
  <2> DEFINE line == [id |-> nextId, cmd |-> cmd, by |-> by, batch |-> batch, seeds |-> seeds]
  <2>1. /\ Len(stdin') = Len(stdin) + 1 /\ Len(stdin) \in Nat
        /\ stdin'[Len(stdin) + 1] = line /\ \A i \in 1..Len(stdin) : stdin'[i] = stdin[i]
    BY <1>3 DEF SentLine, Shape
  <2>2. line.cmd = cmd /\ line.by = by /\ line.batch = batch /\ line.seeds = seeds
    OBVIOUS
  <2> HIDE DEF line
  <2> SUFFICES ASSUME NEW i \in 1..Len(stdin'), stdin'[i].cmd = "reset"
               PROVE  /\ \A e \in stdin'[i].batch :
                           stdin'[i].seeds[e] \notin shown /\ stdin'[i].seeds[e] <= draws'
                      /\ stdin'[i].by = "step()" => ~single /\ stdin'[i].batch \subseteq Restarting
    BY <1>1 DEF StartsAreNew
  <2>3. CASE i \in 1..Len(stdin)
    BY <1>2, <2>1, <2>3
  <2>4. CASE i = Len(stdin) + 1
    BY <2>1, <2>2, <2>4
  <2> QED BY <2>1, <2>3, <2>4
<1>4. CASE ~(alive /\ ~closed)
  BY <1>1, <1>2, <1>4 DEF SentLine, StartsAreNew
<1> QED BY <1>3, <1>4

(* Where nothing is sent, drawing seeds leaves the pipe's promises alone.  *)
LEMMA DrawingKeepsStarts ==
  ASSUME StartsAreNew, Shape, UNCHANGED <<shown, single, autoreset, stdin>>,
         draws' \in Nat, draws <= draws'
  PROVE  StartsAreNew'
<1> SUFFICES ASSUME NEW i \in 1..Len(stdin), stdin[i].cmd = "reset", NEW e \in stdin[i].batch
             PROVE  stdin[i].seeds[e] <= draws'
  BY DEF StartsAreNew, Restarting, Members
<1>1. stdin[i].seeds[e] <= draws /\ draws \in Nat
  BY DEF StartsAreNew, Shape
<1>2. stdin[i] \in Lines
  BY DEF Shape
<1>3. stdin[i].batch \in SUBSET EnvIds /\ stdin[i].seeds \in [EnvIds -> Nat]
  BY <1>2 DEF Lines
<1>4. stdin[i].seeds[e] \in Nat
  BY <1>3
<1> QED BY <1>1, <1>4

LEMMA ResetCallKeepsEnds ==
  ASSUME EndsInv, ResetCall
  PROVE  SeedsCounted' /\ ToldRestarts' /\ SingleWaits'
         /\ (alive => RestartsMayGo' /\ StartsAreNew')
<1>1. /\ Shape /\ SeedsCounted /\ SingleWaits /\ alive => RestartsMayGo /\ StartsAreNew
  BY DEF EndsInv, BridgeInv
<1>2. /\ envs' = envs /\ alive' = alive /\ single' = single /\ awaitingReset' = awaitingReset
      /\ autoreset' = autoreset /\ shown' = shown /\ told' = told
      /\ DrawSeeds(Members) /\ Send("reset()", "reset", Members, currentSeeds', <<>>)
  BY DEF ResetCall, bridgeVars, history
<1>3. /\ SeedsCounted' /\ draws' \in Nat /\ draws <= draws'
      /\ \A e \in Members : currentSeeds'[e] \notin shown /\ currentSeeds'[e] \notin told
                            /\ currentSeeds'[e] <= draws'
  BY <1>1, <1>2, MembersAreEnvs, SeedsStayCounted DEF EndsInv, BridgeInv
<1>4. ToldRestarts' /\ SingleWaits'
  BY <1>1, <1>2, <1>3 DEF ToldRestarts, SingleWaits, Members, EndsInv
<1>5. ASSUME alive PROVE RestartsMayGo' /\ StartsAreNew'
  <2>1. currentSeeds' \in [EnvIds -> Nat] /\ \A e \in Members : currentSeeds'[e] # 0
    BY <1>2, MembersAreEnvs, Drawn DEF EndsInv, BridgeInv
  <2> DEFINE frames == <<>>
  <2>2. frames \in Batches /\ Send("reset()", "reset", Members, currentSeeds', frames)
    BY <1>2, NoFrames
  <2> HIDE DEF frames
  <2>3. SentLine("reset()", "reset", Members, currentSeeds', frames)
    BY <2>1, <2>2, MembersAreEnvs, Sent DEF EndsInv, BridgeInv
  <2>4. \A e \in Members : currentSeeds'[e] \in Nat
    BY <2>1, MembersAreEnvs
  <2>5. StartsAreNew /\ Shape /\ RestartsMayGo
    BY <1>5 DEF EndsInv, BridgeInv
  <2>6. StartsAreNew'
    BY <1>2, <1>3, <2>3, <2>4, <2>5, SendingKeepsStarts
  <2>7. RestartsMayGo'
    BY <1>2, <2>5 DEF RestartsMayGo, MayGo, Members
  <2> QED BY <2>6, <2>7
<1> QED BY <1>3, <1>4, <1>5

LEMMA StepCallKeepsEnds ==
  ASSUME EndsInv, StepCall
  PROVE  SeedsCounted' /\ ToldRestarts' /\ SingleWaits'
         /\ (alive => RestartsMayGo' /\ StartsAreNew')
<1>1. Shape /\ SeedsCounted /\ SingleWaits /\ ToldRestarts
  BY DEF EndsInv, BridgeInv
<1>2. /\ envs' = envs /\ alive' = alive /\ single' = single /\ awaitingReset' = awaitingReset
      /\ autoreset' = autoreset /\ shown' = shown /\ told' = told
      /\ DrawSeeds(Restarting) /\ StepAllowed
  BY DEF StepCall, bridgeVars, history
<1>3. /\ SeedsCounted' /\ draws' \in Nat /\ draws <= draws'
      /\ \A e \in Restarting : currentSeeds'[e] \notin shown /\ currentSeeds'[e] \notin told
                               /\ currentSeeds'[e] <= draws'
      /\ \A e \in EnvIds \ Restarting : currentSeeds'[e] = currentSeeds[e]
  BY <1>1, <1>2, RestartingAreEnvs, SeedsStayCounted
<1>4. SingleWaits'
  BY <1>1, <1>2 DEF SingleWaits
<1>5. ASSUME NEW e \in Members PROVE currentSeeds'[e] \notin told
  <2>1. CASE e \in Restarting
    BY <1>3, <2>1
  <2>2. CASE e \notin Restarting
    <3>1. ~autoreset[e] /\ currentSeeds'[e] = currentSeeds[e]
      BY <1>3, <1>5, <2>2, MembersAreEnvs DEF Restarting
    <3> QED BY <1>1, <1>5, <3>1 DEF ToldRestarts
  <2> QED BY <2>1, <2>2
<1>6. ToldRestarts'
  BY <1>2, <1>5 DEF ToldRestarts, Members
<1>7. single => Restarting = {}
  BY <1>1, <1>2 DEF SingleWaits, StepAllowed, Restarting, Members
<1>8. ASSUME alive PROVE RestartsMayGo' /\ StartsAreNew'
  <2>1. StartsAreNew /\ RestartsMayGo
    BY <1>8 DEF EndsInv
  <2>2. RestartsMayGo'
    BY <1>2, <2>1 DEF RestartsMayGo, MayGo, Members
  <2>3. /\ currentSeeds' \in [EnvIds -> Nat] /\ \A e \in Restarting : currentSeeds'[e] # 0
        /\ \A e \in Restarting : currentSeeds'[e] \in Nat
    BY <1>1, <1>2, RestartingAreEnvs, Drawn
  <2> DEFINE frames == <<>>
  <2>4. frames \in Batches
    BY NoFrames
  <2>5. CASE Restarting # {}
    <3>1. Send("step()", "reset", Restarting, currentSeeds', frames)
      BY <2>5 DEF StepCall
    <3> HIDE DEF frames
    <3>2. SentLine("step()", "reset", Restarting, currentSeeds', frames)
      BY <1>1, <2>3, <2>4, <3>1, RestartingAreEnvs, Sent
    <3>3. ~single
      BY <1>7, <2>5
    <3> QED BY <1>1, <1>2, <1>3, <2>1, <2>2, <2>3, <3>2, <3>3, SendingKeepsStarts
  <2>6. CASE Restarting = {}
    <3>1. Send("step()", "step", Members, currentSeeds, frames)
      BY <2>6 DEF StepCall
    <3> HIDE DEF frames
    <3>2. currentSeeds \in [EnvIds -> Nat]
      BY <1>1 DEF Shape
    <3>3. SentLine("step()", "step", Members, currentSeeds, frames)
      BY <1>1, <2>4, <3>1, <3>2, MembersAreEnvs, Sent
    <3> QED BY <1>1, <1>2, <1>3, <2>1, <2>2, <3>3, SendingKeepsStarts
  <2> QED BY <2>5, <2>6
<1> QED BY <1>3, <1>4, <1>6, <1>8

LEMMA StepCallRaisesKeepsEnds ==
  ASSUME EndsInv, StepCallRaises
  PROVE  SeedsCounted' /\ ToldRestarts' /\ SingleWaits'
         /\ (alive => RestartsMayGo' /\ StartsAreNew')
<1>1. Shape /\ SeedsCounted /\ SingleWaits /\ ToldRestarts
  BY DEF EndsInv, BridgeInv
<1>2. /\ envs' = envs /\ single' = single /\ awaitingReset' = awaitingReset /\ stdin' = stdin
      /\ autoreset' = autoreset /\ shown' = shown /\ told' = told /\ call' = call
  BY DEF StepCallRaises, bridgeVars, pipes, history
<1>3. PICK b \in Members \ Restarting : DrawSeeds({e \in Restarting : e < b})
  BY DEF StepCallRaises
<1> DEFINE es == {e \in Restarting : e < b}
<1>4. es \in SUBSET EnvIds /\ DrawSeeds(es)
  BY <1>3, RestartingAreEnvs
<1> HIDE DEF es
<1>5. /\ SeedsCounted' /\ draws' \in Nat /\ draws <= draws'
      /\ \A e \in es : currentSeeds'[e] \notin told
      /\ \A e \in EnvIds \ es : currentSeeds'[e] = currentSeeds[e]
  BY <1>1, <1>2, <1>4, SeedsStayCounted
<1>6. ToldRestarts' /\ SingleWaits'
  BY <1>1, <1>2, <1>5, MembersAreEnvs DEF ToldRestarts, SingleWaits, Members
<1>7. ASSUME alive PROVE RestartsMayGo' /\ StartsAreNew'
  <2>1. StartsAreNew /\ RestartsMayGo
    BY <1>7 DEF EndsInv
  <2>2. RestartsMayGo'
    BY <1>2, <2>1 DEF RestartsMayGo, MayGo, Members
  <2> QED BY <1>1, <1>2, <1>5, <2>1, <2>2, DrawingKeepsStarts
<1> QED BY <1>5, <1>6, <1>7

LEMMA CloseKeepsEnds ==
  ASSUME EndsInv, Close
  PROVE  SeedsCounted' /\ ToldRestarts' /\ SingleWaits'
         /\ (alive => RestartsMayGo' /\ StartsAreNew')
<1>1. /\ Shape /\ SeedsCounted /\ SingleWaits /\ ToldRestarts
      /\ nextId \in Nat /\ currentSeeds \in [EnvIds -> Nat] /\ stdin \in Seq(Lines)
  BY DEF EndsInv, BridgeInv, Shape
<1>2. /\ envs' = envs /\ single' = single /\ awaitingReset' = awaitingReset /\ draws' = draws
      /\ autoreset' = autoreset /\ shown' = shown /\ told' = told /\ call' = call
      /\ currentSeeds' = currentSeeds
  BY DEF Close, bridgeVars, history
<1>3. SeedsCounted' /\ ToldRestarts' /\ SingleWaits'
  BY <1>1, <1>2 DEF SeedsCounted, ToldRestarts, SingleWaits, Members
<1>4. ASSUME alive PROVE RestartsMayGo' /\ StartsAreNew'
  <2>1. StartsAreNew /\ RestartsMayGo
    BY <1>4 DEF EndsInv
  <2>2. RestartsMayGo'
    BY <1>2, <2>1 DEF RestartsMayGo, MayGo, Members
  <2> DEFINE line == [id |-> nextId, cmd |-> "close", by |-> "close()", batch |-> {},
                      seeds |-> currentSeeds]
  <2>3. stdin' = Append(stdin, line) /\ line \in Lines /\ line.cmd = "close"
    BY <1>1, <1>4, LineShape DEF Close
  <2> HIDE DEF line
  <2>4. \A i \in 1..Len(stdin') : (i \in 1..Len(stdin) /\ stdin'[i] = stdin[i])
                                  \/ stdin'[i].cmd = "close"
    BY <1>1, <2>3, Appended
  <2>5. StartsAreNew'
    BY <1>2, <2>1, <2>4 DEF StartsAreNew, Restarting, Members
  <2> QED BY <2>2, <2>5
<1> QED BY <1>3, <1>4

LEMMA UnwindKeepsEnds ==
  ASSUME EndsInv, call # NoCall,
         UNCHANGED <<bridgeVars, stdin, nextId, envVars, draws, result, history>>
  PROVE  SeedsCounted' /\ ToldRestarts' /\ SingleWaits'
         /\ (alive => RestartsMayGo' /\ StartsAreNew')
<1>1. SeedsCounted /\ ToldRestarts /\ SingleWaits /\ (alive => RestartsMayGo /\ StartsAreNew)
  BY DEF EndsInv
<1>2. /\ envs' = envs /\ single' = single /\ awaitingReset' = awaitingReset /\ draws' = draws
      /\ autoreset' = autoreset /\ shown' = shown /\ told' = told /\ stdin' = stdin
      /\ currentSeeds' = currentSeeds
  BY DEF bridgeVars, envVars, history
<1>3. SeedsCounted' /\ ToldRestarts' /\ SingleWaits'
  BY <1>1, <1>2 DEF SeedsCounted, ToldRestarts, SingleWaits, Members
<1> QED BY <1>1, <1>2, <1>3 DEF RestartsMayGo, MayGo, StartsAreNew, Restarting, Members

(* The frames of a call that returns are of the episodes it names.         *)
LEMMA ReturnsNoted ==
  ASSUME EndsInv, Receive
  PROVE  ShowsNoted(Gathered) /\ Shape /\ call # NoCall /\ \A e \in Members : currentSeeds[e] \notin told
<1>1. /\ Shape /\ AnswersFit /\ ToldRestarts /\ call # NoCall /\ stdout # <<>>
      /\ Head(stdout).id = call.id /\ ~Head(stdout).error
  BY DEF EndsInv, BridgeInv, Receive, IsAnswerTo
<1>2. Head(stdout) = stdout[1] /\ 1 \in 1..Len(stdout)
  BY <1>1, Dropped DEF Shape
<1>3. ShowsNoted(call.frames) /\ ShowsNoted(Head(stdout).frames)
  BY <1>1, <1>2 DEF AnswersFit
<1>4. ShowsNoted(Gathered)
  BY <1>1, <1>3, GatheredShape DEF ShowsNoted
<1> QED BY <1>1, <1>4 DEF ToldRestarts

LEMMA ReceiveKeepsEnds ==
  ASSUME EndsInv, Receive
  PROVE  SeedsCounted' /\ ToldRestarts' /\ SingleWaits'
         /\ (alive => RestartsMayGo' /\ StartsAreNew')
<1>1. /\ Shape /\ SeedsCounted /\ ToldRestarts /\ SingleWaits /\ ShowsNoted(Gathered)
      /\ call # NoCall /\ \A e \in Members : currentSeeds[e] \notin told
  BY ReturnsNoted DEF EndsInv
<1>2. /\ envs' = envs /\ single' = single /\ draws' = draws /\ currentSeeds' = currentSeeds
      /\ alive' = alive
  BY DEF Receive, bridgeVars
<1>3. Members' = Members /\ Members \subseteq EnvIds /\ 0 \in EnvIds
  BY <1>2, MembersAreEnvs DEF Members
<1>4. /\ draws \in Nat /\ currentSeeds \in [EnvIds -> Nat]
  BY <1>1 DEF Shape
<1>5. CASE DOMAIN Gathered = Members
  <2> DEFINE ended == Ended(Gathered)
  <2>1. /\ autoreset' = [e \in EnvIds |-> e \in ended]
        /\ awaitingReset' = (single /\ ended # {})
        /\ shown' = shown \cup {currentSeeds[e] : e \in Members}
        /\ told' = told \cup {currentSeeds[e] : e \in ended}
        /\ call' = NoCall /\ stdin' = stdin
    BY <1>5 DEF Receive, Return
  <2>2. ended \subseteq Members
    BY DEF Ended
  <2> HIDE DEF ended
  <2>3. \A e \in Members : currentSeeds[e] # 0 /\ currentSeeds[e] = Gathered[e].seed
    BY <1>1, <1>5 DEF ShowsNoted
  <2>4. SeedsCounted'
    <3>1. \A s \in shown' \cup told' : s \in Nat \ {0} /\ s <= draws
      BY <1>1, <1>3, <1>4, <2>1, <2>2, <2>3 DEF SeedsCounted
    <3> QED BY <1>1, <1>2, <3>1 DEF SeedsCounted
  <2>5. ToldRestarts'
    <3> SUFFICES ASSUME NEW e \in Members, currentSeeds[e] \in told'
                 PROVE  call' = NoCall /\ autoreset'[e]
      BY <1>2, <1>3 DEF ToldRestarts
    <3>1. PICK f \in ended : currentSeeds[e] = currentSeeds[f]
      BY <1>1, <2>1
    <3>2. e = f
      BY <1>1, <1>3, <2>2, <2>3, <3>1 DEF SeedsCounted
    <3> QED BY <1>3, <2>1, <3>1, <3>2
  <2>6. SingleWaits'
    <3> SUFFICES ASSUME single PROVE autoreset'[0] <=> awaitingReset'
      BY <1>2 DEF SingleWaits
    <3>1. ended \subseteq {0}
      BY <2>2 DEF Members
    <3> QED BY <1>3, <2>1, <3>1
  <2>7. ASSUME alive PROVE RestartsMayGo' /\ StartsAreNew'
    <3>1. stdin = <<>> /\ \A e \in Members : Known(e)
      BY <1>5, <2>7, Arrived DEF EndsInv
    <3>2. StartsAreNew'
      <4>1. Len(stdin') = 0 /\ 1..0 = {}
        BY <2>1, <3>1
      <4> QED BY <4>1 DEF StartsAreNew
    <3>3. RestartsMayGo'
      <4> SUFFICES ASSUME NEW e \in Members, autoreset'[e] PROVE envs[e].seed \in told'
        BY <1>2, <1>3 DEF RestartsMayGo, MayGo
      <4>1. e \in ended /\ envs[e].seed = currentSeeds[e]
        BY <1>3, <2>1, <3>1 DEF Known
      <4> QED BY <2>1, <4>1
    <3> QED BY <3>2, <3>3
  <2> QED BY <2>4, <2>5, <2>6, <2>7
<1>6. CASE DOMAIN Gathered # Members
  <2> DEFINE batch == Members \ Restarting
             frames == Gathered
  <2>1. /\ Send("step()", "step", batch, currentSeeds, frames)
        /\ autoreset' = autoreset /\ awaitingReset' = awaitingReset
        /\ shown' = shown /\ told' = told
    BY <1>6 DEF Receive, history
  <2>2. SeedsCounted' /\ ToldRestarts' /\ SingleWaits'
    BY <1>1, <1>2, <1>3, <2>1 DEF SeedsCounted, ToldRestarts, SingleWaits
  <2>3. ASSUME alive PROVE RestartsMayGo' /\ StartsAreNew'
    <3>1. RestartsMayGo /\ StartsAreNew
      BY <2>3 DEF EndsInv
    <3>2. RestartsMayGo'
      BY <1>2, <1>3, <2>1, <3>1 DEF RestartsMayGo, MayGo
    <3>3. batch \in SUBSET EnvIds /\ frames \in Batches
      BY <1>1, <1>3, GatheredShape DEF Receive
    <3> HIDE DEF batch, frames
    <3>4. SentLine("step()", "step", batch, currentSeeds, frames)
      BY <1>1, <1>4, <2>1, <3>3, Sent
    <3>5. draws' \in Nat /\ draws <= draws'
      BY <1>2, <1>4
    <3> QED BY <1>1, <1>2, <2>1, <3>1, <3>2, <3>4, <3>5, SendingKeepsStarts
  <2> QED BY <2>2, <2>3
<1> QED BY <1>5, <1>6

(* Once the bridge is gone every call ends without another answer.         *)
LEMMA FitsWhenDead ==
  ASSUME EndsInv, [Next]_vars, ~alive'
  PROVE  AnswersFit'
<1>1. AnswersFit
  BY DEF EndsInv
<1>2. ~(HandleReset \/ HandleStep)
  <2>1. HandleReset => alive /\ alive' = alive
    BY DEF HandleReset, TakeLine
  <2>2. HandleStep => alive /\ alive' = alive
    BY DEF HandleStep, TakeLine
  <2> QED BY <2>1, <2>2
<1>3. CASE HandleClose \/ BridgeDies
  <2>1. UNCHANGED <<call, stdout, currentSeeds>>
    BY <1>3 DEF HandleClose, BridgeDies, pipes, envVars
  <2> QED BY <1>1, <2>1 DEF AnswersFit, ShowsNoted
<1>4. CASE ResetCall \/ StepCall
  <2>1. ~alive
    BY <1>4 DEF ResetCall, StepCall, bridgeVars
  <2>2. call' = NoCall
    BY <1>4, <2>1 DEF ResetCall, StepCall, Send
  <2> QED BY <2>2 DEF AnswersFit
<1>5. CASE StepCallRaises \/ Close
  <2>1. call = NoCall /\ call' = call
    BY <1>5 DEF StepCallRaises, Close, MayCall, Idle
  <2> QED BY <2>1 DEF AnswersFit
<1>6. CASE Raises \/ Interrupted
  BY <1>6 DEF Raises, Interrupted, AnswersFit
<1>7. CASE Receive
  <2>1. ~alive
    BY <1>7 DEF Receive, bridgeVars
  <2>2. call' = NoCall
    BY <1>7, <2>1 DEF Receive, Send, Return
  <2> QED BY <2>2 DEF AnswersFit
<1>8. CASE UNCHANGED vars
  BY <1>1, <1>8 DEF vars, pipes, envVars, AnswersFit, ShowsNoted
<1> QED BY <1>2, <1>3, <1>4, <1>5, <1>6, <1>7, <1>8 DEF Next, Bridge, Caller, Pending

LEMMA EndsKept == EndsInv /\ [Next]_vars => EndsInv'
<1>1. EndsInv /\ [Next]_vars => BridgeInv'
  BY BridgeInvKept DEF EndsInv
<1>2. EndsInv /\ [Next]_vars => AnswersFit'
  <2>1. (BridgeInv /\ alive => AnswersFit)'
    BY AliveFits, PTL
  <2> QED BY <1>1, <2>1, FitsWhenDead
<1> SUFFICES ASSUME EndsInv, [Next]_vars
             PROVE  SeedsCounted' /\ ToldRestarts' /\ SingleWaits'
                    /\ (alive' => RestartsMayGo' /\ StartsAreNew')
  BY <1>1, <1>2 DEF EndsInv
<1>3. CASE HandleReset
  <2>1. alive /\ Handles(Head(stdin), Answer(Head(stdin), envs', FALSE))
    BY <1>3, ResetHandles DEF HandleReset, TakeLine, EndsInv, BridgeInv
  <2> QED BY <2>1, HandlingKeepsEnds
<1>4. CASE HandleStep
  <2>1. alive /\ \E reply : Handles(Head(stdin), reply)
    BY <1>4, StepHandles DEF HandleStep, TakeLine, EndsInv, BridgeInv
  <2> QED BY <2>1, HandlingKeepsEnds
<1>5. CASE HandleClose \/ BridgeDies
  <2>1. /\ single' = single /\ awaitingReset' = awaitingReset /\ draws' = draws /\ call' = call
        /\ autoreset' = autoreset /\ shown' = shown /\ told' = told /\ ~alive'
        /\ currentSeeds' = currentSeeds
    BY <1>5 DEF HandleClose, BridgeDies, envVars, history
  <2> QED BY <2>1 DEF EndsInv, SeedsCounted, ToldRestarts, SingleWaits, Members
<1>6. CASE ResetCall
  BY <1>6, ResetCallKeepsEnds DEF ResetCall, bridgeVars
<1>7. CASE StepCall
  BY <1>7, StepCallKeepsEnds DEF StepCall, bridgeVars
<1>8. CASE StepCallRaises
  BY <1>8, StepCallRaisesKeepsEnds DEF StepCallRaises, bridgeVars
<1>9. CASE Close
  BY <1>9, CloseKeepsEnds DEF Close, bridgeVars
<1>10. CASE Raises
  BY <1>10, UnwindKeepsEnds DEF Raises, bridgeVars
<1>11. CASE Interrupted
  BY <1>11, UnwindKeepsEnds DEF Interrupted, bridgeVars, pipes
<1>12. CASE Receive
  BY <1>12, ReceiveKeepsEnds DEF Receive, bridgeVars
<1>13. CASE UNCHANGED vars
  <2>1. /\ envs' = envs /\ single' = single /\ awaitingReset' = awaitingReset /\ draws' = draws
        /\ autoreset' = autoreset /\ shown' = shown /\ told' = told /\ stdin' = stdin
        /\ currentSeeds' = currentSeeds /\ alive' = alive /\ call' = call
    BY <1>13 DEF vars, bridgeVars, envVars, history, pipes
  <2>2. SeedsCounted' /\ ToldRestarts' /\ SingleWaits'
    BY <2>1 DEF EndsInv, SeedsCounted, ToldRestarts, SingleWaits, Members
  <2> QED BY <2>1, <2>2 DEF EndsInv, RestartsMayGo, MayGo, StartsAreNew, Restarting, Members
<1> QED BY <1>3, <1>4, <1>5, <1>6, <1>7, <1>8, <1>9, <1>10, <1>11, <1>12, <1>13
        DEF Next, Bridge, Caller, Pending

(* A step that returns names no end that was told before.                  *)
LEMMA StepTellsOnce ==
  ASSUME EndsInv, [Next]_vars, result' # result, result' # NoResult
  PROVE  \A e \in result'.terminated : result'.seeds[e] \notin told
<1>1. Receive /\ DOMAIN Gathered = Members
  BY DEF Next, Bridge, Caller, Pending, HandleReset, HandleStep, HandleClose, BridgeDies, ResetCall,
         StepCall, StepCallRaises, Close, Raises, Interrupted, Receive, vars
<1>2. result'.terminated = Ended(Gathered) /\ result'.seeds = currentSeeds
  BY <1>1 DEF Receive, Return
<1>3. Ended(Gathered) \subseteq Members
  BY DEF Ended
<1> QED BY <1>1, <1>2, <1>3, ReturnsNoted

(* A world of another seed is started unasked only where it may be.        *)
LEMMA StepReplacesTold ==
  ASSUME EndsInv, [Next]_vars, NEW e \in EnvIds, stdin # <<>>, Head(stdin).by = "step()", alive,
         envs'[e].seed \notin {0, envs[e].seed}, envs[e].seed \in shown
  PROVE  envs[e].seed \in told /\ ~single
<1>1. HandleReset \/ HandleStep
  <2>1. envs' # envs
    OBVIOUS
  <2>2. ~(HandleClose \/ BridgeDies)
    BY DEF HandleClose, BridgeDies, NoWorld
  <2> QED BY <2>1, <2>2 DEF Next, Bridge, Caller, Pending, ResetCall, StepCall, StepCallRaises,
             Close, Raises, Interrupted, Receive, vars, bridgeVars
<1>2. Shape /\ StartsAreNew /\ RestartsMayGo
  BY DEF EndsInv, BridgeInv
<1>3. ~HandleStep
  <2>1. HandleStep => envs'[e] = NoWorld \/ envs'[e].seed = envs[e].seed
    BY <1>2, StepShape
  <2> QED BY <2>1 DEF NoWorld
<1>4. HandleReset
  BY <1>1, <1>3
<1>5. Head(stdin) = stdin[1] /\ 1 \in 1..Len(stdin) /\ stdin[1].cmd = "reset"
  BY <1>2, <1>4, Taken DEF HandleReset
<1>6. e \in stdin[1].batch
  BY <1>2, <1>4, <1>5, ResetShape
<1>7. ~single /\ e \in Restarting
  BY <1>2, <1>5, <1>6 DEF StartsAreNew
<1> QED BY <1>2, <1>7 DEF RestartsMayGo, MayGo, Restarting

(* No end is told twice, for any number of sub-environments, interrupts    *)
(* and retries, the bridge alive or not (WarwrightVectorEnv.step, reset).  *)
THEOREM EndsAreToldOnce == Spec => EndToldOnce
<1>1. EndsInv /\ [Next]_vars => (result' # result /\ result' # NoResult =>
        \A e \in result'.terminated : result'.seeds[e] \notin told)
  BY StepTellsOnce
<1> QED BY <1>1, EndsStart, EndsKept, PTL DEF Spec, EndToldOnce

(* step() never replaces an episode the caller has seen and not seen the   *)
(* end of, and never any of the single environment's (WarwrightEnv.step,   *)
(* WarwrightVectorEnv.step, handleReset).                                  *)
THEOREM NoEpisodeIsCutShort == Spec => EpisodesRunToTheirEnd
<1>1. EndsInv /\ [Next]_vars =>
        \A e \in EnvIds :
          /\ stdin # <<>> /\ Head(stdin).by = "step()" /\ stdin' # stdin
          /\ alive /\ envs'[e].seed \notin {0, envs[e].seed}
          /\ envs[e].seed \in shown
          => envs[e].seed \in told /\ ~single
  BY StepReplacesTold
<1> QED BY <1>1, EndsStart, EndsKept, PTL DEF Spec, EpisodesRunToTheirEnd

-----------------------------------------------------------------------------
(* Why every call returns: what it waits for is on its way, each line that *)
(* is handled is one less in the pipes, and a call sends at most twice.    *)

(* A call blocks in readline() only if its request or the answer to it is  *)
(* the last thing in the pipes, or the bridge is gone.                     *)
AnswerIsComing ==
  call # NoCall =>
    \/ ~alive
    \/ stdin # <<>> /\ stdin[Len(stdin)].id = call.id
    \/ stdout # <<>> /\ stdout[Len(stdout)].id = call.id

(* What is still to be handled: a request has an answer to come.           *)
Unread == 2 * Len(stdin) + Len(stdout)

(* While a call waits, every step handles a line of the pipes, ends the    *)
(* bridge, or has the call ask for the rest of its frames, once.           *)
CallsRunDown ==
  [][call # NoCall /\ call' # NoCall =>
       \/ call' = call /\ (Unread' < Unread \/ (alive /\ ~alive'))
       \/ DOMAIN call.frames = {} /\ DOMAIN call'.frames # {}]_vars

(* Nobody waits for an answer that nobody will give.                       *)
THEOREM AnswersAreComing == Spec => []AnswerIsComing
<1>1. BridgeInv => AnswerIsComing
  BY DEF BridgeInv, CallIsServed, Asked, IsAnswered, AnswerIsComing
<1> QED BY <1>1, BridgeStarts, BridgeInvKept, PTL DEF Spec

(* No request is for nobody, and no answer is about nobody.                *)
AsksSomething ==
  /\ \A i \in 1..Len(stdin) : stdin[i].cmd # "close" => stdin[i].batch # {}
  /\ \A i \in 1..Len(stdout) : DOMAIN stdout[i].frames # {}

(* A request that is sent asks for at least one sub-environment.           *)
LEMMA SendingAsks ==
  ASSUME Shape, AsksSomething, stdout' \in {stdout, Tail(stdout)}, stdout # <<>> \/ stdout' = stdout,
         NEW by \in {"reset()", "step()"}, NEW cmd \in {"reset", "step"},
         NEW batch \in (SUBSET EnvIds) \ {{}}, NEW seeds, NEW frames,
         Send(by, cmd, batch, seeds, frames)
  PROVE  AsksSomething'
<1> DEFINE line == [id |-> nextId, cmd |-> cmd, by |-> by, batch |-> batch, seeds |-> seeds]
<1>1. \A i \in 1..Len(stdout') : DOMAIN stdout'[i].frames # {}
  <2>1. CASE stdout' = stdout
    BY <2>1 DEF AsksSomething
  <2>2. CASE stdout # <<>> /\ stdout' = Tail(stdout)
    <3>1. \A i \in 1..Len(stdout') : stdout'[i] = stdout[i + 1] /\ i + 1 \in 1..Len(stdout)
      BY <2>2, Dropped DEF Shape
    <3> QED BY <3>1 DEF AsksSomething
  <2> QED BY <2>1, <2>2
<1>2. CASE alive /\ ~closed
  <2>1. stdin' = Append(stdin, line)
    BY <1>2 DEF Send
  <2>2. line.batch # {}
    OBVIOUS
  <2>3. stdin \in Seq(Lines)
    BY DEF Shape
  <2> HIDE DEF line
  <2>4. ASSUME NEW i \in 1..Len(stdin'), stdin'[i].cmd # "close" PROVE stdin'[i].batch # {}
    <3>1. CASE i \in 1..Len(stdin)
      <4>1. stdin'[i] = stdin[i]
        BY <2>1, <2>3, <3>1
      <4> QED BY <2>4, <3>1, <4>1 DEF AsksSomething
    <3>2. CASE i \notin 1..Len(stdin)
      <4>1. stdin'[i] = line
        BY <2>1, <2>3, <3>2
      <4> QED BY <2>2, <4>1
    <3> QED BY <3>1, <3>2
  <2> QED BY <1>1, <2>4 DEF AsksSomething
<1>3. CASE ~(alive /\ ~closed)
  <2>1. stdin' = stdin
    BY <1>3 DEF Send
  <2> QED BY <1>1, <2>1 DEF AsksSomething
<1> QED BY <1>2, <1>3

(* A line that is handled is answered about the same sub-environments.     *)
LEMMA HandlingAnswers ==
  ASSUME Shape, AsksSomething, TakeLine, Head(stdin).cmd # "close",
         NEW worlds, NEW failed, stdout' = Append(stdout, Answer(Head(stdin), worlds, failed))
  PROVE  AsksSomething' /\ Unread' < Unread
<1> DEFINE a == Answer(Head(stdin), worlds, failed)
<1>1. /\ \A i \in 1..Len(stdin') : stdin'[i] = stdin[i + 1] /\ i + 1 \in 1..Len(stdin)
      /\ Head(stdin) = stdin[1] /\ 1 \in 1..Len(stdin)
      /\ Len(stdin') = Len(stdin) - 1 /\ Len(stdin) \in Nat \ {0}
  BY Taken
<1>2. DOMAIN a.frames # {}
  BY <1>1 DEF AsksSomething, Answer
<1>3. stdout \in Seq(Replies)
  BY DEF Shape
<1> HIDE DEF a
<1>4. stdout' = Append(stdout, a)
  BY DEF a
<1>5. /\ Len(stdout') = Len(stdout) + 1 /\ Len(stdout) \in Nat
      /\ \A i \in 1..Len(stdout') : stdout'[i] = IF i \in 1..Len(stdout) THEN stdout[i] ELSE a
  BY <1>3, <1>4
<1>6. \A i \in 1..Len(stdout') : DOMAIN stdout'[i].frames # {}
  BY <1>2, <1>5 DEF AsksSomething
<1>7. \A i \in 1..Len(stdin') : stdin'[i].cmd # "close" => stdin'[i].batch # {}
  BY <1>1 DEF AsksSomething
<1> QED BY <1>1, <1>5, <1>6, <1>7 DEF AsksSomething, Unread

(* Lines that are dropped, or a close() that is added, leave it so.        *)
LEMMA DroppingAsks ==
  ASSUME Shape, AsksSomething, stdout' = stdout \/ (stdout # <<>> /\ stdout' = Tail(stdout)),
         \/ stdin' = stdin \/ (stdin # <<>> /\ stdin' = Tail(stdin))
         \/ \E line \in Lines : line.cmd = "close" /\ stdin' = Append(stdin, line)
  PROVE  AsksSomething'
<1>0. stdin \in Seq(Lines) /\ stdout \in Seq(Replies)
  BY DEF Shape
<1>1. \A i \in 1..Len(stdout') : DOMAIN stdout'[i].frames # {}
  <2>1. CASE stdout' = stdout
    BY <2>1 DEF AsksSomething
  <2>2. CASE stdout # <<>> /\ stdout' = Tail(stdout)
    <3>1. \A i \in 1..Len(stdout') : stdout'[i] = stdout[i + 1] /\ i + 1 \in 1..Len(stdout)
      BY <1>0, <2>2, Dropped
    <3> QED BY <3>1 DEF AsksSomething
  <2> QED BY <2>1, <2>2
<1>2. \A i \in 1..Len(stdin') : stdin'[i].cmd # "close" => stdin'[i].batch # {}
  <2>1. CASE stdin' = stdin
    BY <2>1 DEF AsksSomething
  <2>2. CASE stdin # <<>> /\ stdin' = Tail(stdin)
    <3>1. \A i \in 1..Len(stdin') : stdin'[i] = stdin[i + 1] /\ i + 1 \in 1..Len(stdin)
      BY <1>0, <2>2, Dropped
    <3> QED BY <3>1 DEF AsksSomething
  <2>3. ASSUME NEW line \in Lines, line.cmd = "close", stdin' = Append(stdin, line)
        PROVE  \A i \in 1..Len(stdin') : stdin'[i].cmd # "close" => stdin'[i].batch # {}
    <3>1. \A i \in 1..Len(stdin') : stdin'[i] = IF i \in 1..Len(stdin) THEN stdin[i] ELSE line
      BY <1>0, <2>3
    <3> QED BY <2>3, <3>1 DEF AsksSomething
  <2> QED BY <2>1, <2>2, <2>3
<1> QED BY <1>1, <1>2 DEF AsksSomething

(* Every step keeps it so that something is asked.                         *)
LEMMA AsksKept == BridgeInv /\ AsksSomething /\ [Next]_vars => AsksSomething'
<1> SUFFICES ASSUME BridgeInv, AsksSomething, [Next]_vars PROVE AsksSomething'
  OBVIOUS
<1> Shape
  BY DEF BridgeInv
<1>0. Members # {} /\ Members \in SUBSET EnvIds
  BY MembersAreEnvs DEF Members
<1>1. CASE HandleReset
  BY <1>1, HandlingAnswers DEF HandleReset
<1>2. CASE HandleStep
  BY <1>2, HandlingAnswers DEF HandleStep
<1>3. CASE HandleClose
  BY <1>3, DroppingAsks DEF HandleClose, TakeLine
<1>4. CASE BridgeDies \/ StepCallRaises \/ Interrupted \/ UNCHANGED vars
  BY <1>4, DroppingAsks DEF BridgeDies, StepCallRaises, Interrupted, pipes, vars
<1>5. CASE Raises
  BY <1>5, DroppingAsks DEF Raises
<1>6. CASE ResetCall
  <2>1. Send("reset()", "reset", Members, currentSeeds', <<>>) /\ stdout' = stdout
    BY <1>6 DEF ResetCall
  <2> QED BY <1>0, <2>1, SendingAsks
<1>7. CASE StepCall
  <2>1. stdout' = stdout
    BY <1>7 DEF StepCall
  <2>2. CASE Restarting # {}
    <3>1. Send("step()", "reset", Restarting, currentSeeds', <<>>)
      BY <1>7, <2>2 DEF StepCall
    <3> QED BY <2>1, <2>2, <3>1, RestartingAreEnvs, SendingAsks
  <2>3. CASE Restarting = {}
    <3>1. Send("step()", "step", Members, currentSeeds, <<>>)
      BY <1>7, <2>3 DEF StepCall
    <3> QED BY <1>0, <2>1, <3>1, SendingAsks
  <2> QED BY <2>2, <2>3
<1>8. CASE Receive
  <2>1. stdout # <<>> /\ stdout' = Tail(stdout)
    BY <1>8 DEF Receive
  <2>2. CASE DOMAIN Gathered = Members
    BY <1>8, <2>1, <2>2, DroppingAsks DEF Receive
  <2>3. CASE DOMAIN Gathered # Members
    <3>1. Send("step()", "step", Members \ Restarting, currentSeeds, Gathered)
      BY <1>8, <2>3 DEF Receive
    <3>2. CASE alive
      <4>1. Members \ Restarting \in (SUBSET EnvIds) \ {{}}
        BY <1>0, <1>8, <2>3, <3>2, Arrived, RestartingAreEnvs
      <4> QED BY <2>1, <3>1, <4>1, SendingAsks
    <3>3. CASE ~alive
      BY <2>1, <3>1, <3>3, DroppingAsks DEF Send
    <3> QED BY <3>2, <3>3
  <2> QED BY <2>2, <2>3
<1>9. CASE Close
  <2>1. stdin' = stdin \/ stdin' = Append(stdin, [id |-> nextId, cmd |-> "close", by |-> "close()",
                                                  batch |-> {}, seeds |-> currentSeeds])
    BY <1>9 DEF Close
  <2>2. [id |-> nextId, cmd |-> "close", by |-> "close()", batch |-> {}, seeds |-> currentSeeds] \in Lines
    BY LineShape DEF Shape
  <2> QED BY <1>9, <2>1, <2>2, DroppingAsks DEF Close
<1> QED BY <1>1, <1>2, <1>3, <1>4, <1>5, <1>6, <1>7, <1>8, <1>9
        DEF Next, Bridge, Caller, Pending

(* However often it was interrupted or left answers behind: a call that    *)
(* waits has only the lines now in the pipes before it, and one more       *)
(* request to make.                                                        *)
THEOREM CallsAlwaysRunDown == Spec => CallsRunDown
<1> DEFINE Down == call # NoCall /\ call' # NoCall =>
             \/ call' = call /\ (Unread' < Unread \/ (alive /\ ~alive'))
             \/ DOMAIN call.frames = {} /\ DOMAIN call'.frames # {}
<1>1. ASSUME BridgeInv, AsksSomething, [Next]_vars, ~UNCHANGED vars PROVE Down
  <2> SUFFICES ASSUME call # NoCall, call' # NoCall
               PROVE  \/ call' = call /\ (Unread' < Unread \/ (alive /\ ~alive'))
                      \/ DOMAIN call.frames = {} /\ DOMAIN call'.frames # {}
    OBVIOUS
  <2>0. Shape
    BY <1>1 DEF BridgeInv
  <2>1. CASE HandleReset
    <3>1. Unread' < Unread
      BY <1>1, <2>0, <2>1, HandlingAnswers DEF HandleReset
    <3> QED BY <2>1, <3>1 DEF HandleReset
  <2>2. CASE HandleStep
    <3>1. Unread' < Unread
      BY <1>1, <2>0, <2>2, HandlingAnswers DEF HandleStep
    <3> QED BY <2>2, <3>1 DEF HandleStep
  <2>3. CASE HandleClose \/ BridgeDies
    BY <2>3 DEF HandleClose, TakeLine, BridgeDies
  <2>4. CASE Receive
    <3>1. DOMAIN Gathered # Members
      BY <2>4 DEF Receive, Return
    <3>2. Send("step()", "step", Members \ Restarting, currentSeeds, Gathered)
      BY <2>4, <3>1 DEF Receive
    <3>3. alive /\ call'.frames = Gathered
      BY <3>2 DEF Send
    <3>4. DOMAIN call.frames = {}
      BY <1>1, <2>4, <3>1, <3>3, Arrived
    <3>5. DOMAIN Head(stdout).frames # {} /\ stdout # <<>>
      <4>1. stdout # <<>> /\ stdout \in Seq(Replies)
        BY <2>0, <2>4 DEF Receive, Shape
      <4>2. Head(stdout) = stdout[1] /\ 1 \in 1..Len(stdout)
        BY <4>1
      <4> QED BY <1>1, <4>1, <4>2 DEF AsksSomething
    <3>6. DOMAIN Gathered # {}
      BY <2>0, <3>5, GatheredShape
    <3> QED BY <3>3, <3>4, <3>6
  <2>5. ~Raises /\ ~Interrupted /\ ~Caller
    BY DEF Raises, Interrupted, Caller, ResetCall, StepCall, StepCallRaises, MayCall, Close, Idle
  <2> QED BY <1>1, <2>1, <2>2, <2>3, <2>4, <2>5 DEF Next, Bridge, Pending
<1>2. BridgeInv /\ AsksSomething /\ [Next]_vars => [Down]_vars
  BY <1>1
<1>3. Init => AsksSomething
  BY DEF Init, AsksSomething
<1> QED BY <1>2, <1>3, BridgeStarts, BridgeInvKept, AsksKept, PTL DEF Spec, CallsRunDown
=============================================================================
