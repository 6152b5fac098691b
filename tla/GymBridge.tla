----------------------------- MODULE GymBridge ------------------------------
(***************************************************************************)
(* A trainer's environment and the match bridge it drives: the Gymnasium   *)
(* environments of gym/warwright_gym/env.py, the Transport of transport.py *)
(* and, at the other end of the child process's stdin and stdout, the      *)
(* session of packages/gym-bridge.                                         *)
(*                                                                         *)
(* Both sides are sequential, the pipes between them are not: a call that  *)
(* is interrupted while it blocks in readline() leaves its request or its  *)
(* answer behind, and the child may die at any moment.                     *)
(*                                                                         *)
(* An episode is a match and is named by its replay seed; seeds are drawn  *)
(* in the order 1, 2, ... so that two draws differ.  Of its world the      *)
(* module keeps how many steps it has made.                                *)
(***************************************************************************)
EXTENDS Integers, FiniteSets, FiniteSetsExt, Sequences

CONSTANTS
  NumEnvs,   (* num_envs, sub-environments behind one bridge               *)
  Length,    (* steps after which the tick cap ends an episode             *)
  MaxDraws,  (* bound: seeds drawn                                         *)
  MaxSends,  (* bound: requests sent                                       *)
  NoCall,    (* no call is under way                                       *)
  NoResult   (* the last call has raised, or there was none                *)

EnvIds == 0..(NumEnvs - 1)
Seeds == 1..MaxDraws

(* A SteppedTransport: the match it is in the middle of, whether that match*)
(* is over, and whether a tick of it was left half done by an exception.   *)
World == [seed : Seeds, age : 0..Length, done : BOOLEAN, torn : BOOLEAN]
NoWorld == [seed |-> 0, age |-> 0, done |-> FALSE, torn |-> FALSE]

(* A batch's frames, one for each sub-environment of it.                   *)
Frames == UNION {[es -> World \cup {NoWorld}] : es \in SUBSET EnvIds}

Call == [by : {"reset()", "step()"}, cmd : {"reset", "step"}, id : Nat,
         frames : Frames]

Result == [seeds : [EnvIds -> Seeds \cup {0}], frames : Frames,
           terminated : SUBSET EnvIds]

ASSUME GymAssumption ==
  /\ NumEnvs \in Nat \ {0} /\ Length \in Nat \ {0}
  /\ MaxDraws \in Nat /\ MaxSends \in Nat
  /\ NoCall \notin Call /\ NoResult \notin Result

VARIABLES
  envs,          (* bridge: the Map envId -> SteppedTransport              *)
  alive,         (* bridge: the process runs                               *)
  stdin, stdout, (* the two pipes, one line per element                    *)
  nextId,        (* Transport._next_id                                     *)
  closed,        (* Transport.close() has been called                      *)
  single,        (* the caller holds a WarwrightEnv, not the vector env    *)
  awaitingReset, (* WarwrightEnv._awaiting_reset                           *)
  autoreset,     (* WarwrightVectorEnv._autoreset                          *)
  currentSeeds,  (* WarwrightVectorEnv._current_seeds                      *)
  draws,         (* seeds drawn so far                                     *)
  call,          (* the reset() or step() that blocks in readline()        *)
  result,        (* what the last call returned                            *)
  shown, told    (* history: episodes the caller has seen, seen the end of *)

bridgeVars == <<envs, alive>>
pipes == <<stdin, stdout>>
envVars == <<closed, single, awaitingReset, autoreset, currentSeeds>>
history == <<shown, told>>
vars == <<bridgeVars, pipes, nextId, envVars, draws, call, result, history>>

(* The sub-environments of the caller's environment.                       *)
Members == IF single THEN {0} ELSE EnvIds

-----------------------------------------------------------------------------
(* The bridge                                                              *)

Started(seed) == [seed |-> seed, age |-> 0, done |-> FALSE, torn |-> FALSE]

(* SteppedTransport.step() with the rest of the match left open: `o` says  *)
(* whether a team falls.  A finished match no longer moves.                *)
Stepped(w, o) ==
  IF w.done THEN w
  ELSE [w EXCEPT !.age = @ + 1, !.done = (o = "ends") \/ w.age + 1 = Length]

(* handleReset                                                             *)
AfterReset(batch, seeds) ==
  [e \in EnvIds |-> IF e \in batch THEN Started(seeds[e]) ELSE envs[e]]

(* The entries of a batch that raise: an action that does not decode, a    *)
(* world that cannot be stepped, an envId that is not there.               *)
Failing(batch, outcome) ==
  {e \in batch : outcome[e] = "throws" \/ envs[e] = NoWorld}

(* The entries handled before the batch stops at the first that raises.    *)
Handled(batch, outcome) ==
  {e \in batch : \A f \in Failing(batch, outcome) : e < f}

FirstFailing(batch, outcome) ==
  {e \in Failing(batch, outcome) :
     \A f \in Failing(batch, outcome) : e <= f}

(* step() threw in the middle of a tick; there may be no world to step.    *)
HalfStepped(w) == IF w = NoWorld THEN w ELSE [w EXCEPT !.torn = TRUE]

(* The worlds as the loop over the batch leaves them.                      *)
SteppedWorlds(batch, outcome) ==
  [e \in EnvIds |->
     CASE e \in Handled(batch, outcome) -> Stepped(envs[e], outcome[e])
       [] e \in FirstFailing(batch, outcome) -> HalfStepped(envs[e])
       [] OTHER -> envs[e]]

(* The entry whose transport threw must not be used again: the catch takes *)
(* it out of the Map before the error is answered.  The mutant does not.   *)
EvictedNone(batch, outcome) == {}

Evicted(batch, outcome) == FirstFailing(batch, outcome)

(* handleStep                                                              *)
AfterStep(batch, outcome) ==
  [e \in EnvIds |->
     IF e \in Evicted(batch, outcome) THEN NoWorld
     ELSE SteppedWorlds(batch, outcome)[e]]

Answer(line, worlds, failed) ==
  [id |-> line.id, error |-> failed,
   frames |-> [e \in line.batch |-> IF failed THEN NoWorld ELSE worlds[e]]]

TakeLine == alive /\ stdin # <<>> /\ stdin' = Tail(stdin)

HandleReset ==
  /\ TakeLine
  /\ LET line == Head(stdin) IN
       /\ line.cmd = "reset"
       /\ envs' = AfterReset(line.batch, line.seeds)
       /\ stdout' = Append(stdout, Answer(line, envs', FALSE))
  /\ UNCHANGED <<alive, nextId, envVars, draws, call, result, history>>

HandleStep ==
  /\ TakeLine
  /\ LET line == Head(stdin) IN
       /\ line.cmd = "step"
       /\ \E outcome \in [line.batch -> {"goes on", "ends", "throws"}] :
            /\ envs' = AfterStep(line.batch, outcome)
            /\ stdout' = Append(stdout,
                 Answer(line, envs', Failing(line.batch, outcome) # {}))
  /\ UNCHANGED <<alive, nextId, envVars, draws, call, result, history>>

(* `close` answers nothing; main() leaves its loop and the process ends.   *)
HandleClose ==
  /\ TakeLine
  /\ Head(stdin).cmd = "close"
  /\ envs' = [e \in EnvIds |-> NoWorld]
  /\ alive' = FALSE
  /\ UNCHANGED <<stdout, nextId, envVars, draws, call, result, history>>

(* The process is killed, by close() after its five seconds or from        *)
(* outside; what it has written stays readable.                            *)
BridgeDies ==
  /\ alive
  /\ alive' = FALSE
  /\ envs' = [e \in EnvIds |-> NoWorld]
  /\ UNCHANGED <<pipes, nextId, envVars, draws, call, result, history>>

-----------------------------------------------------------------------------
(* Transport._send                                                         *)

(* Write one request and block: the call waits for the answer to nextId.   *)
(* A closed pipe raises instead.                                           *)
Send(by, cmd, batch, seeds, frames) ==
  IF alive /\ ~closed
  THEN /\ stdin' = Append(stdin, [id |-> nextId, cmd |-> cmd, by |-> by,
                                  batch |-> batch, seeds |-> seeds])
       /\ call' = [by |-> by, cmd |-> cmd, id |-> nextId, frames |-> frames]
       /\ nextId' = nextId + 1
  ELSE /\ call' = NoCall
       /\ nextId' = nextId + 1
       /\ UNCHANGED stdin

(* The answer the call takes for its own; the mutant takes any.            *)
AnyAnswer(answer, id) == TRUE

IsAnswerTo(answer, id) == answer.id = id

(* Mutant: the end of the stream goes unnoticed.                           *)
RaisesOnAnswer ==
  /\ call # NoCall
  /\ stdout # <<>>
  /\ Head(stdout).error \/ ~IsAnswerTo(Head(stdout), call.id)
  /\ stdout' = Tail(stdout)
  /\ call' = NoCall
  /\ UNCHANGED <<bridgeVars, stdin, nextId, envVars, draws, result, history>>

(* readline() meets an answer to another request, an error, or the end of  *)
(* the stream: the call raises BridgeError.                                *)
Raises ==
  /\ call # NoCall
  /\ \/ /\ stdout # <<>>
        /\ Head(stdout).error \/ ~IsAnswerTo(Head(stdout), call.id)
        /\ stdout' = Tail(stdout)
     \/ ~alive /\ stdout = <<>> /\ UNCHANGED stdout
  /\ call' = NoCall
  /\ UNCHANGED <<bridgeVars, stdin, nextId, envVars, draws, result, history>>

(* An exception of the caller's side (a KeyboardInterrupt, a test's        *)
(* timeout) unwinds the call out of readline().                            *)
Interrupted ==
  /\ call # NoCall
  /\ call' = NoCall
  /\ UNCHANGED <<bridgeVars, pipes, nextId, envVars, draws, result, history>>

-----------------------------------------------------------------------------
(* WarwrightVectorEnv and WarwrightEnv                                     *)

Idle == call = NoCall
MayCall == Idle /\ nextId < MaxSends /\ draws + NumEnvs <= MaxDraws

(* One seed for each of es, in ascending order of sub-environment.         *)
DrawSeeds(es) ==
  /\ draws' = draws + Cardinality(es)
  /\ currentSeeds' = [e \in EnvIds |->
       IF e \in es THEN draws + Cardinality({f \in es : f <= e})
                   ELSE currentSeeds[e]]

ResetCall ==
  /\ MayCall
  /\ DrawSeeds(Members)
  /\ Send("reset()", "reset", Members, currentSeeds', <<>>)
  /\ result' = NoResult
  /\ UNCHANGED <<bridgeVars, stdout, closed, single, awaitingReset, autoreset,
                 history>>

Restarting == {e \in Members : autoreset[e]}

(* step() of the single environment refuses once the episode has ended.    *)
StepAllowed == ~(single /\ awaitingReset)

(* The ended sub-environments first, then the others.                      *)
StepCall ==
  /\ MayCall /\ StepAllowed
  /\ DrawSeeds(Restarting)
  /\ IF Restarting # {}
     THEN Send("step()", "reset", Restarting, currentSeeds', <<>>)
     ELSE Send("step()", "step", Members, currentSeeds, <<>>)
  /\ result' = NoResult
  /\ UNCHANGED <<bridgeVars, stdout, closed, single, awaitingReset, autoreset,
                 history>>

(* The action row of sub-environment b does not encode: step() raises in   *)
(* the middle of its first loop, with seeds already drawn below b.         *)
StepCallRaises ==
  /\ MayCall /\ StepAllowed
  /\ \E b \in Members \ Restarting : DrawSeeds({e \in Restarting : e < b})
  /\ result' = NoResult
  /\ UNCHANGED <<bridgeVars, pipes, nextId, closed, single, awaitingReset,
                 autoreset, call, history>>

(* A call has all its frames and returns.  Only step() reports an end, and *)
(* not of an episode that this very call has started.                      *)
Ended(frames) ==
  {e \in Members : call.by = "step()" /\ ~autoreset[e] /\ frames[e].done}

(* The mutants: _autoreset is not set by step(), is not cleared by reset().*)
ReturnUnflagged(frames) ==
  /\ result' = [seeds |-> currentSeeds, frames |-> frames,
                terminated |-> Ended(frames)]
  /\ autoreset' = [e \in EnvIds |-> FALSE]
  /\ awaitingReset' = (single /\ Ended(frames) # {})
  /\ shown' = shown \cup {currentSeeds[e] : e \in Members}
  /\ told' = told \cup {currentSeeds[e] : e \in Ended(frames)}
  /\ call' = NoCall

ReturnFlagged(frames) ==
  /\ result' = [seeds |-> currentSeeds, frames |-> frames,
                terminated |-> Ended(frames)]
  /\ autoreset' = [e \in EnvIds |->
       IF call.by = "reset()" THEN autoreset[e] ELSE e \in Ended(frames)]
  /\ awaitingReset' = (single /\ Ended(frames) # {})
  /\ shown' = shown \cup {currentSeeds[e] : e \in Members}
  /\ told' = told \cup {currentSeeds[e] : e \in Ended(frames)}
  /\ call' = NoCall

Return(frames) ==
  /\ result' = [seeds |-> currentSeeds, frames |-> frames,
                terminated |-> Ended(frames)]
  /\ autoreset' = [e \in EnvIds |-> e \in Ended(frames)]
  /\ awaitingReset' = (single /\ Ended(frames) # {})
  /\ shown' = shown \cup {currentSeeds[e] : e \in Members}
  /\ told' = told \cup {currentSeeds[e] : e \in Ended(frames)}
  /\ call' = NoCall

Gathered == [e \in DOMAIN call.frames \cup DOMAIN Head(stdout).frames |->
               IF e \in DOMAIN Head(stdout).frames
               THEN Head(stdout).frames[e] ELSE call.frames[e]]

Receive ==
  /\ call # NoCall
  /\ stdout # <<>>
  /\ IsAnswerTo(Head(stdout), call.id) /\ ~Head(stdout).error
  /\ stdout' = Tail(stdout)
  /\ IF DOMAIN Gathered = Members
     THEN /\ Return(Gathered)
          /\ UNCHANGED <<stdin, nextId>>
     ELSE /\ Send("step()", "step", Members \ Restarting, currentSeeds,
                  Gathered)
          /\ UNCHANGED <<awaitingReset, autoreset, result, history>>
  /\ UNCHANGED <<bridgeVars, closed, single, currentSeeds, draws>>

(* Transport.close().                                                      *)
Close ==
  /\ Idle /\ ~closed
  /\ closed' = TRUE
  /\ stdin' = IF alive
              THEN Append(stdin, [id |-> nextId, cmd |-> "close",
                                  by |-> "close()", batch |-> {},
                                  seeds |-> currentSeeds])
              ELSE stdin
  /\ UNCHANGED <<bridgeVars, stdout, nextId, single, awaitingReset, autoreset,
                 currentSeeds, draws, call, result, history>>

-----------------------------------------------------------------------------
Init ==
  /\ envs = [e \in EnvIds |-> NoWorld] /\ alive = TRUE
  /\ stdin = <<>> /\ stdout = <<>>
  /\ nextId = 0 /\ closed = FALSE
  /\ single \in BOOLEAN /\ awaitingReset = FALSE
  /\ autoreset = [e \in EnvIds |-> FALSE]
  /\ currentSeeds = [e \in EnvIds |-> 0]
  /\ draws = 0 /\ call = NoCall /\ result = NoResult
  /\ shown = {} /\ told = {}

Bridge == HandleReset \/ HandleStep \/ HandleClose
Caller == ResetCall \/ StepCall \/ StepCallRaises \/ Close
Pending == Raises \/ Receive

Next == Bridge \/ BridgeDies \/ Caller \/ Pending \/ Interrupted

(* The child answers what it is sent and a blocked readline() wakes up.    *)
(* Nothing obliges the caller to call, nor anybody to interrupt or kill.   *)
Spec == Init /\ [][Next]_vars /\ WF_vars(Bridge) /\ WF_vars(Pending)

-----------------------------------------------------------------------------
Request == [id : Nat, cmd : {"reset", "step", "close"},
            by : {"reset()", "step()", "close()"}, batch : SUBSET EnvIds,
            seeds : [EnvIds -> Seeds \cup {0}]]

Reply == [id : Nat, error : BOOLEAN, frames : Frames]

TypeOK ==
  /\ envs \in [EnvIds -> World \cup {NoWorld}]
  /\ alive \in BOOLEAN /\ closed \in BOOLEAN
  /\ stdin \in Seq(Request) /\ stdout \in Seq(Reply)
  /\ nextId \in Nat
  /\ single \in BOOLEAN /\ awaitingReset \in BOOLEAN
  /\ autoreset \in [EnvIds -> BOOLEAN]
  /\ currentSeeds \in [EnvIds -> Seeds \cup {0}]
  /\ draws \in 0..MaxDraws
  /\ call \in Call \cup {NoCall} /\ result \in Result \cup {NoResult}
  /\ shown \subseteq Seeds /\ told \subseteq shown

(* What a call hands to the trainer is how the bridge's worlds stand now,  *)
(* under the replay seed each of them really has, and an episode is called *)
(* terminated only if it is over: neither a failed batch, nor an interrupt *)
(* between request and answer, nor a retry makes a later call show one     *)
(* world as another, or a world whose tick was left half done.             *)
ResultIsCurrent ==
  result # NoResult /\ alive =>
    \A e \in Members :
      /\ result.frames[e] = envs[e]
      /\ result.seeds[e] = envs[e].seed
      /\ envs[e] # NoWorld /\ ~envs[e].torn
      /\ e \in result.terminated => envs[e].done

(* step() starts a new episode only in the place of one whose end it has   *)
(* told the caller, or that the caller never saw; for the single           *)
(* environment, which "raises instead of silently autoresetting", it never *)
(* replaces an episode that was shown.                                     *)
EpisodesRunToTheirEnd ==
  [][\A e \in EnvIds :
       /\ stdin # <<>> /\ Head(stdin).by = "step()" /\ stdin' # stdin
       /\ alive /\ envs'[e].seed \notin {0, envs[e].seed}
       /\ envs[e].seed \in shown
       => envs[e].seed \in told /\ ~single]_vars

(* No episode's end is told twice: rewards are paid on it.                 *)
EndToldOnce ==
  [][result' # result /\ result' # NoResult =>
       \A e \in result'.terminated : result'.seeds[e] \notin told]_vars

(* reset() and step() return or raise, whatever becomes of the bridge.     *)
CallsReturn == call # NoCall ~> call = NoCall
=============================================================================
