------------------------------- MODULE Playback -------------------------------
(***************************************************************************)
(* The playback reducer of the match viewer, packages/web/src/playback.ts, *)
(* as operators on its state.  Time is counted in whole units: speeds in   *)
(* quarters (MIN_SPEED is one of them), the accumulator in quarters of a   *)
(* millisecond, where the code has floating-point numbers.                 *)
(***************************************************************************)
EXTENDS Integers

CONSTANTS
  MsPerTick,     (* MS_PER_TICK                                            *)
  SpeedOptions,  (* SPEED_OPTIONS of the speed selector, in quarters       *)
  MaxLastTick    (* bound: the length of an event log in ticks             *)

ASSUME PlaybackAssumption ==
  /\ MsPerTick \in Nat \ {0} /\ MaxLastTick \in Nat
  /\ SpeedOptions \subseteq Nat

MIN_SPEED == 1

MAX_SPEED == 16

TickUnits == 4 * MsPerTick

PlaybackState ==
  [status : {"playing", "paused"}, speed : MIN_SPEED..MAX_SPEED,
   tick : 0..MaxLastTick, accumulator : 0..MaxLastTick * TickUnits,
   lastTick : 0..MaxLastTick]

createInitialPlaybackState(lastTick) ==
  [status |-> "paused", speed |-> 4, tick |-> 0, accumulator |-> 0,
   lastTick |-> lastTick]

clamp(value, min, max) ==
  IF value < min THEN min ELSE IF value > max THEN max ELSE value

(* Seek and step keep the accumulator on the tick; the mutant forgets it.  *)
withTickOnly(state, tick) == [state EXCEPT !.tick = clamp(tick, 0, state.lastTick)]

withTick(state, tick) ==
  LET clamped == clamp(tick, 0, state.lastTick) IN
  [state EXCEPT !.tick = clamped, !.accumulator = clamped * TickUnits]

play(state) == [state EXCEPT !.status = "playing"]

pause(state) == [state EXCEPT !.status = "paused"]

setSpeed(state, speed) ==
  [state EXCEPT !.speed = clamp(speed, MIN_SPEED, MAX_SPEED)]

seek(state, tick) == withTick(state, tick)

step(state) == withTick(state, state.tick + 1)

(* The tick at which playback stops by itself; the mutant waits for one    *)
(* that does not come.                                                     *)
AtEndTooLate(tick, lastTick) == tick > lastTick

AtEnd(tick, lastTick) == tick >= lastTick

advance(state, deltaMs) ==
  LET accumulator == clamp(state.accumulator + deltaMs * state.speed,
                           0, state.lastTick * TickUnits)
      tick == clamp(accumulator \div TickUnits, 0, state.lastTick)
  IN IF state.status # "playing" THEN state
     ELSE [state EXCEPT
             !.accumulator = accumulator, !.tick = tick,
             !.status = IF AtEnd(tick, state.lastTick) THEN "paused" ELSE @]
=============================================================================
