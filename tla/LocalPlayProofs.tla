--------------------------- MODULE LocalPlayProofs ----------------------------
(***************************************************************************)
(* Proofs about LocalPlay, for any files, speeds and tick length, event    *)
(* logs of any length and any number of files read at once.                *)
(***************************************************************************)
EXTENDS LocalPlay, TLAPS

-----------------------------------------------------------------------------
(* Ticks and the time they stand for.                                      *)

LEMMA TimeUnits == MsPerTick \in Nat \ {0} /\ MaxLastTick \in Nat /\ TickUnits \in Nat \ {0}
BY PlaybackAssumption DEF PlaybackAssumption, TickUnits

(* The time of n ticks is worth n ticks.                                   *)
LEMMA TicksOfTime ==
  ASSUME NEW n \in Nat, NEW k \in Nat \ {0}
  PROVE  n * k \in Nat /\ (n * k) \div k = n
OBVIOUS

(* Time within n ticks is worth at most n.                                 *)
LEMMA TimeWithin ==
  ASSUME NEW a \in Nat, NEW n \in Nat, NEW k \in Nat \ {0}, a <= n * k
  PROVE  a \div k \in 0..n
<1> DEFINE q == a \div k
           r == a % k
<1>1. q \in Nat /\ r \in Nat
  OBVIOUS
<1>2. a = k * q + r
  OBVIOUS
<1> HIDE DEF q, r
<1>3. ~ (q >= n + 1)
  <2> SUFFICES ASSUME q >= n + 1 PROVE FALSE
    OBVIOUS
  <2>1. PICK d \in Nat : q = n + 1 + d
    <3>1. q - n - 1 \in Nat /\ q = n + 1 + (q - n - 1)
      BY <1>1
    <3> QED BY <3>1
  <2>2. k * q = k * n + k + k * d /\ k * d \in Nat
    BY <1>1, <2>1
  <2> QED BY <1>1, <1>2, <2>2
<1> QED BY <1>1, <1>3 DEF q

LEMMA MoreTicksMoreTime ==
  ASSUME NEW m \in Nat, NEW n \in Nat, m <= n, NEW k \in Nat \ {0}
  PROVE  m * k <= n * k
<1>1. PICK d \in Nat : n = m + d
  <2>1. n - m \in Nat /\ n = m + (n - m)
    OBVIOUS
  <2> QED BY <2>1
<1>2. n * k = m * k + d * k /\ d * k \in Nat /\ m * k \in Nat
  BY <1>1
<1> QED BY <1>2

(* Time is worth all its ticks but less than one more.                     *)
LEMMA TimeOfTick ==
  ASSUME NEW a \in Nat, NEW k \in Nat \ {0}
  PROVE  a <= ((a \div k) + 1) * k
<1> DEFINE q == a \div k
           r == a % k
<1>1. q \in Nat /\ r \in Nat /\ r < k
  OBVIOUS
<1>2. a = k * q + r
  OBVIOUS
<1> HIDE DEF q, r
<1>3. (q + 1) * k = k * q + k
  BY <1>1
<1> QED BY <1>1, <1>2, <1>3 DEF q

(* A player whose tick is the one its accumulated time stands for.         *)
Fits(p) ==
  /\ p \in PlaybackState
  /\ p.accumulator <= p.lastTick * TickUnits
  /\ p.tick = p.accumulator \div TickUnits

LEMMA ClampWithin ==
  ASSUME NEW value \in Int, NEW max \in Nat
  PROVE  clamp(value, 0, max) \in 0..max
BY DEF clamp

LEMMA InitialFits ==
  ASSUME NEW lastTick \in 0..MaxLastTick
  PROVE  LET p == createInitialPlaybackState(lastTick) IN
         Fits(p) /\ p.lastTick = lastTick /\ p.status = "paused"
<1>1. 0 \in 0..MaxLastTick * TickUnits /\ lastTick * TickUnits >= 0 /\ 0 \in 0..MaxLastTick
      /\ 0 \div TickUnits = 0 /\ 4 \in MIN_SPEED..MAX_SPEED
  BY TimeUnits DEF MIN_SPEED, MAX_SPEED
<1> QED BY <1>1 DEF Fits, PlaybackState, createInitialPlaybackState

(* Every operation of the reducer leaves a player that fits its match.     *)
LEMMA SeekFits ==
  ASSUME NEW p, Fits(p), NEW tick \in Int
  PROVE  Fits(withTick(p, tick)) /\ withTick(p, tick).lastTick = p.lastTick
<1> DEFINE t == clamp(tick, 0, p.lastTick)
<1>1. /\ p \in PlaybackState /\ p.lastTick \in 0..MaxLastTick /\ p.lastTick \in Nat
  BY TimeUnits DEF Fits, PlaybackState
<1>0. t \in 0..p.lastTick
  BY <1>1, ClampWithin
<1> HIDE DEF t
<1>2. t \in Nat /\ t <= p.lastTick /\ t \in 0..MaxLastTick
  BY <1>0, <1>1, TimeUnits
<1>3. t * TickUnits \in Nat /\ (t * TickUnits) \div TickUnits = t
  BY <1>2, TicksOfTime, TimeUnits
<1>4. t * TickUnits <= p.lastTick * TickUnits
  BY <1>1, <1>2, MoreTicksMoreTime, TimeUnits
<1>5. t * TickUnits <= MaxLastTick * TickUnits /\ MaxLastTick * TickUnits \in Nat
  BY <1>2, MoreTicksMoreTime, TimeUnits
<1>6. withTick(p, tick) = [p EXCEPT !.tick = t, !.accumulator = t * TickUnits]
  BY DEF withTick, t
<1> DEFINE a == t * TickUnits
<1>7. a \in 0..MaxLastTick * TickUnits
  BY <1>3, <1>5
<1>8. withTick(p, tick) = [p EXCEPT !.tick = t, !.accumulator = a]
  BY <1>6
<1>9. a \div TickUnits = t /\ a <= p.lastTick * TickUnits
  BY <1>3, <1>4
<1> HIDE DEF a
<1> QED BY <1>1, <1>2, <1>7, <1>8, <1>9 DEF Fits, PlaybackState

LEMMA AdvanceFits ==
  ASSUME NEW p, Fits(p), NEW deltaMs \in Nat
  PROVE  Fits(advance(p, deltaMs)) /\ advance(p, deltaMs).lastTick = p.lastTick
<1> DEFINE a == clamp(p.accumulator + deltaMs * p.speed, 0, p.lastTick * TickUnits)
           t == clamp(a \div TickUnits, 0, p.lastTick)
<1>1. /\ p \in PlaybackState /\ p.lastTick \in 0..MaxLastTick /\ p.lastTick \in Nat
      /\ p.speed \in MIN_SPEED..MAX_SPEED /\ p.accumulator \in 0..MaxLastTick * TickUnits
      /\ p.status \in {"playing", "paused"}
  BY TimeUnits DEF Fits, PlaybackState
<1>2. p.lastTick * TickUnits \in Nat /\ MaxLastTick * TickUnits \in Nat
      /\ p.lastTick * TickUnits <= MaxLastTick * TickUnits
  BY <1>1, TimeUnits, MoreTicksMoreTime
<1>3. p.accumulator + deltaMs * p.speed \in Int
  <2>1. p.speed \in Nat /\ p.accumulator \in Nat
    BY <1>1, <1>2 DEF MIN_SPEED, MAX_SPEED
  <2> QED BY <2>1
<1>4. a \in 0..p.lastTick * TickUnits
  BY <1>2, <1>3, ClampWithin
<1> HIDE DEF a
<1>5. a \in 0..MaxLastTick * TickUnits /\ a \in Nat /\ a <= p.lastTick * TickUnits
  BY <1>2, <1>4
<1>6. a \div TickUnits \in 0..p.lastTick
  BY <1>1, <1>5, TimeUnits, TimeWithin
<1>7. t = a \div TickUnits
  BY <1>1, <1>6 DEF clamp
<1> DEFINE status == IF AtEnd(t, p.lastTick) THEN "paused" ELSE p.status
<1>8. advance(p, deltaMs) =
        IF p.status # "playing" THEN p
        ELSE [p EXCEPT !.accumulator = a, !.tick = t, !.status = status]
  BY <1>1 DEF advance, a
<1>9. t \in 0..MaxLastTick /\ status \in {"playing", "paused"}
  BY <1>1, <1>6, <1>7, TimeUnits
<1> HIDE DEF t, status
<1> QED BY <1>1, <1>5, <1>7, <1>8, <1>9 DEF Fits, PlaybackState

LEMMA ControlsFit ==
  ASSUME NEW p, Fits(p)
  PROVE  /\ Fits(play(p)) /\ play(p).lastTick = p.lastTick
         /\ Fits(pause(p)) /\ pause(p).lastTick = p.lastTick
         /\ Fits(step(p)) /\ step(p).lastTick = p.lastTick
         /\ \A s \in Int : Fits(setSpeed(p, s)) /\ setSpeed(p, s).lastTick = p.lastTick
         /\ \A t \in Int : Fits(seek(p, t)) /\ seek(p, t).lastTick = p.lastTick
<1>1. Fits(play(p)) /\ play(p).lastTick = p.lastTick
  BY DEF play, Fits, PlaybackState
<1>2. Fits(pause(p)) /\ pause(p).lastTick = p.lastTick
  BY DEF pause, Fits, PlaybackState
<1>3. Fits(step(p)) /\ step(p).lastTick = p.lastTick
  <2>1. p.tick + 1 \in Int
    BY TimeUnits DEF Fits, PlaybackState
  <2> QED BY <2>1, SeekFits DEF step
<1>4. \A t \in Int : Fits(seek(p, t)) /\ seek(p, t).lastTick = p.lastTick
  BY SeekFits DEF seek
<1>5. ASSUME NEW s \in Int PROVE Fits(setSpeed(p, s)) /\ setSpeed(p, s).lastTick = p.lastTick
  <2> DEFINE v == clamp(s, MIN_SPEED, MAX_SPEED)
  <2>1. v \in MIN_SPEED..MAX_SPEED
    BY DEF clamp, MIN_SPEED, MAX_SPEED
  <2>2. setSpeed(p, s) = [p EXCEPT !.speed = v]
    BY DEF setSpeed
  <2> HIDE DEF v
  <2> QED BY <2>1, <2>2 DEF Fits, PlaybackState
<1> QED BY <1>1, <1>2, <1>3, <1>4, <1>5

-----------------------------------------------------------------------------
(* The page.                                                               *)

(* What a side can be set to passes the checks of an upload.               *)
KnownUploads ==
  \A s \in Sides :
    /\ source[s].kind = "upload" => source[s].warband.ids = "known"
    /\ uploaded[s] # None => uploaded[s].ids = "known"

PlayerFits == Fits(player) /\ player.lastTick = match.lastTick

(* A loop that has a timestamp has got it from a frame of this playing.    *)
LoopIsTimed == loop = "timed" => seen

PageInv == TypeOK /\ KnownUploads /\ PlayerFits /\ LoopIsTimed

LEMMA FilesAndSample ==
  /\ Files \subseteq Warband \cup {Corrupt} /\ Sample \in Parsed /\ Sample \in Warband
  /\ Sample.ids = "known" /\ Sample.augments # "unknown"
  /\ Deltas \subseteq Nat /\ None \notin Parsed /\ None \notin Warband
BY LocalPlayAssumption DEF LocalPlayAssumption, Parsed

LEMMA DefaultParses == DefaultWarband \in Warband
BY DEF DefaultWarband, Warband, Squad

(* A page that is mounted is as good as new.                               *)
LEMMA MountedIsNew ==
  ASSUME TypeOK, NEW lastTick \in 0..MaxLastTick, Mounted(lastTick),
         mode' \in {"offline", "online", "blank"}
  PROVE  PageInv'
<1>1. /\ builder' = loadInitialWarband /\ reading' = {}
      /\ source' = [s \in Sides |-> [kind |-> "sample"]]
      /\ uploaded' = [s \in Sides |-> None]
      /\ match' = [lastTick |-> lastTick]
      /\ player' = createInitialPlaybackState(lastTick)
      /\ loop' = "off" /\ seen' = FALSE /\ draft' = draft
  BY DEF Mounted
<1>2. builder' \in Warband
  BY <1>1, DefaultParses DEF loadInitialWarband, Parses, Parsed
<1>3. source' \in [Sides -> Source] /\ uploaded' \in [Sides -> Parsed \cup {None}]
  BY <1>1 DEF Source
<1>4. match' \in [lastTick : 0..MaxLastTick] /\ match'.lastTick = lastTick
  BY <1>1, FilesAndSample
<1>5. Fits(player') /\ player'.lastTick = lastTick
  BY <1>1, InitialFits
<1>6. TypeOK'
  BY <1>1, <1>2, <1>3, <1>4, <1>5 DEF TypeOK, Fits
<1>7. KnownUploads'
  BY <1>1 DEF KnownUploads
<1> QED BY <1>1, <1>4, <1>5, <1>6, <1>7 DEF PageInv, PlayerFits, LoopIsTimed

LEMMA PageStarts == Init => PageInv
<1> SUFFICES ASSUME Init PROVE PageInv
  OBVIOUS
<1>1. PICK lastTick \in 0..MaxLastTick :
        /\ match = [lastTick |-> lastTick]
        /\ player = createInitialPlaybackState(lastTick)
  BY DEF Init
<1>2. Fits(player) /\ player.lastTick = lastTick
  BY <1>1, InitialFits
<1>3. match \in [lastTick : 0..MaxLastTick] /\ match.lastTick = lastTick
  BY <1>1, FilesAndSample
<1>4. draft \in Warband \cup {Corrupt, None} /\ builder \in Warband
  BY FilesAndSample, DefaultParses DEF Init, Parsed
<1>5. /\ source = [s \in Sides |-> [kind |-> "sample"]] /\ uploaded = [s \in Sides |-> None]
      /\ mode = "offline" /\ reading = {} /\ loop = "off" /\ seen = FALSE
  BY DEF Init
<1>6. source \in [Sides -> Source] /\ uploaded \in [Sides -> Parsed \cup {None}]
  BY <1>5 DEF Source
<1>7. TypeOK
  BY <1>2, <1>3, <1>4, <1>5, <1>6 DEF TypeOK, Fits
<1>8. KnownUploads
  BY <1>5 DEF KnownUploads
<1> QED BY <1>2, <1>3, <1>5, <1>7, <1>8 DEF PageInv, PlayerFits, LoopIsTimed

(* The controls and the frames.                                            *)
LEMMA PlayerStep ==
  ASSUME PageInv, Effects \/ (\E deltaMs \in Deltas : Frame(deltaMs))
                  \/ Play \/ Pause \/ Control \/ Seek
  PROVE  PageInv'
<1>1. UNCHANGED <<draft, builder, reading, setup, match, mode>>
  BY DEF Effects, Frame, Play, Pause, Control, Seek
<1>2. TypeOK /\ Fits(player) /\ player.lastTick = match.lastTick /\ LoopIsTimed /\ KnownUploads
  BY DEF PageInv, PlayerFits
<1>3. ASSUME Fits(player'), player'.lastTick = player.lastTick,
             loop' \in {"off", "armed", "timed"}, seen' \in BOOLEAN, loop' = "timed" => seen'
      PROVE  PageInv'
  <2>1. TypeOK'
    BY <1>1, <1>2, <1>3 DEF TypeOK, Fits, setup
  <2>2. KnownUploads'
    BY <1>1, <1>2 DEF KnownUploads, setup
  <2> QED BY <1>1, <1>2, <1>3, <2>1, <2>2 DEF PageInv, PlayerFits, LoopIsTimed
<1>4. loop \in {"off", "armed", "timed"} /\ seen \in BOOLEAN /\ (loop = "timed" => seen)
  BY <1>2 DEF TypeOK, LoopIsTimed
<1>5. CASE Effects
  BY <1>2, <1>3, <1>4, <1>5 DEF Effects
<1>6. ASSUME NEW deltaMs \in Deltas, Frame(deltaMs) PROVE PageInv'
  <2>1. deltaMs \in Nat
    BY FilesAndSample
  <2>2. player' = (IF loop = "timed" THEN advance(player, deltaMs) ELSE player)
        /\ loop' = "timed" /\ seen' = TRUE
    BY <1>6 DEF Frame
  <2>3. Fits(player') /\ player'.lastTick = player.lastTick
    BY <1>2, <2>1, <2>2, AdvanceFits
  <2> QED BY <1>3, <2>2, <2>3
<1>7. CASE Play
  <2>1. player' = play(player) /\ loop' = "armed" /\ seen' = FALSE
    BY <1>7 DEF Play, Start
  <2> QED BY <1>2, <1>3, <2>1, ControlsFit
<1>8. CASE Pause
  <2>1. player' = pause(player) /\ loop' = "off" /\ seen' = seen
    BY <1>8 DEF Pause
  <2> QED BY <1>2, <1>3, <1>4, <2>1, ControlsFit
<1>9. CASE Control
  <2>1. SpeedOptions \subseteq Int
    BY PlaybackAssumption DEF PlaybackAssumption
  <2>2. loop' = loop /\ seen' = seen
        /\ player' \in {step(player)} \cup {setSpeed(player, s) : s \in SpeedOptions}
    BY <1>9 DEF Control
  <2>3. Fits(player') /\ player'.lastTick = player.lastTick
    BY <1>2, <2>1, <2>2, ControlsFit
  <2> QED BY <1>3, <1>4, <2>2, <2>3
<1>10. CASE Seek
  <2>1. loop' = loop /\ seen' = seen
        /\ \E t \in Int : player' = seek(player, t)
    BY <1>10 DEF Seek
  <2>2. Fits(player') /\ player'.lastTick = player.lastTick
    BY <1>2, <2>1, ControlsFit
  <2> QED BY <1>3, <1>4, <2>1, <2>2
<1> QED BY <1>5, <1>6, <1>7, <1>8, <1>9, <1>10

(* The builder, the files, the sides and the draft.                        *)
LEMMA SetupStep ==
  ASSUME PageInv,
         \/ Edit \/ HandleSave \/ EditedOutside
         \/ \E reader \in Readers, file \in Files : PickFile(reader, file)
         \/ \E r \in reading : Imported(r) \/ Uploaded(r)
         \/ \E side \in Sides : handleSourceChange(side)
  PROVE  PageInv' /\ mode' = mode
<1>1. UNCHANGED <<mode, match, playing>>
  BY DEF Edit, HandleSave, EditedOutside, PickFile, Imported, Uploaded, handleSourceChange
<1>2. TypeOK /\ PlayerFits /\ LoopIsTimed /\ KnownUploads
  BY DEF PageInv
<1>3. PlayerFits' /\ LoopIsTimed'
  BY <1>1, <1>2 DEF PlayerFits, LoopIsTimed, playing
<1>4. ASSUME draft' \in Warband \cup {Corrupt, None}, builder' \in Warband,
             reading' \in SUBSET [for : Readers, file : Files],
             source' \in [Sides -> Source], uploaded' \in [Sides -> Parsed \cup {None}],
             KnownUploads'
      PROVE  PageInv'
  <2>1. TypeOK'
    BY <1>1, <1>2, <1>4 DEF TypeOK, playing
  <2> QED BY <1>3, <1>4, <2>1 DEF PageInv
<1>5. /\ draft \in Warband \cup {Corrupt, None} /\ builder \in Warband
      /\ reading \in SUBSET [for : Readers, file : Files]
      /\ source \in [Sides -> Source] /\ uploaded \in [Sides -> Parsed \cup {None}]
  BY <1>2 DEF TypeOK
<1>6. ASSUME UNCHANGED setup PROVE KnownUploads'
  BY <1>2, <1>6 DEF KnownUploads, setup
<1>7. CASE Edit
  <2>1. builder' \in Warband
    BY <1>5, <1>7, LocalPlayAssumption DEF Edit, Edited, Warband, LocalPlayAssumption
  <2> QED BY <1>1, <1>4, <1>5, <1>6, <1>7, <2>1 DEF Edit, setup
<1>8. CASE HandleSave
  <2>1. draft' \in Warband
    BY <1>5, <1>8 DEF HandleSave, Serialize, Warband
  <2> QED BY <1>1, <1>4, <1>5, <1>6, <1>8, <2>1 DEF HandleSave, setup
<1>9. CASE EditedOutside
  <2>1. draft' \in Warband \cup {Corrupt, None}
    BY <1>9, FilesAndSample DEF EditedOutside
  <2> QED BY <1>1, <1>4, <1>5, <1>6, <1>9, <2>1 DEF EditedOutside, setup
<1>10. ASSUME NEW reader \in Readers, NEW file \in Files, PickFile(reader, file)
       PROVE  PageInv' /\ mode' = mode
  BY <1>1, <1>4, <1>5, <1>6, <1>10 DEF PickFile, setup
<1>11. ASSUME NEW r \in reading, Imported(r) PROVE PageInv' /\ mode' = mode
  <2>1. builder' \in Warband
    BY <1>5, <1>11 DEF Imported, ReadsAsWarband, Parses, Parsed
  <2> QED BY <1>1, <1>4, <1>5, <1>6, <1>11, <2>1 DEF Imported, setup
<1>12. ASSUME NEW r \in reading, Uploaded(r) PROVE PageInv' /\ mode' = mode
  <2>1. reading' = reading \ {r} /\ draft' = draft /\ builder' = builder
    BY <1>12 DEF Uploaded
  <2>2. CASE UNCHANGED setup
    BY <1>1, <1>4, <1>5, <1>6, <2>1, <2>2 DEF setup
  <2>3. CASE ReadsAsWarband(r.file) /\ handleUploadSuccess(r.for, r.file)
    <3>1. r.file \in Parsed /\ r.file.ids = "known" /\ r.for \in Sides
      BY <1>12, <2>3 DEF Uploaded, ReadsAsWarband, Parses, HasKnownContent
    <3>2. [kind |-> "upload", warband |-> r.file] \in Source
      BY <3>1 DEF Source
    <3>3. uploaded' = [uploaded EXCEPT ![r.for] = r.file]
          /\ source' = [source EXCEPT ![r.for] = [kind |-> "upload", warband |-> r.file]]
      BY <2>3 DEF handleUploadSuccess
    <3>4. source' \in [Sides -> Source] /\ uploaded' \in [Sides -> Parsed \cup {None}]
      BY <1>5, <3>1, <3>2, <3>3
    <3>5. KnownUploads'
      BY <1>2, <1>5, <3>1, <3>3 DEF KnownUploads
    <3> QED BY <1>1, <1>4, <1>5, <2>1, <3>4, <3>5
  <2> QED BY <1>12, <2>2, <2>3 DEF Uploaded
<1>13. ASSUME NEW side \in Sides, handleSourceChange(side) PROVE PageInv' /\ mode' = mode
  <2>1. PICK s \in Offered(side) : source' = [source EXCEPT ![side] = s]
    BY <1>13 DEF handleSourceChange
  <2>2. UNCHANGED <<draft, builder, reading, uploaded>>
    BY <1>13 DEF handleSourceChange
  <2>3. s \in Source /\ (s.kind = "upload" => s.warband.ids = "known")
    <3>1. CASE s \in [kind : {"sample", "draft"}]
      BY <3>1 DEF Source
    <3>2. CASE s \in [kind : {"upload"}, warband : {uploaded[side]} \ {None}]
      <4>1. s.warband = uploaded[side] /\ uploaded[side] # None
        BY <3>2
      <4>2. s.warband \in Parsed /\ s.warband.ids = "known"
        BY <1>2, <1>5, <4>1 DEF KnownUploads
      <4> QED BY <3>2, <4>2 DEF Source
    <3> QED BY <3>1, <3>2 DEF Offered
  <2>4. source' \in [Sides -> Source]
    BY <1>5, <2>1, <2>3
  <2>5. KnownUploads'
    BY <1>2, <1>5, <2>1, <2>2, <2>3 DEF KnownUploads
  <2> QED BY <1>1, <1>4, <1>5, <2>2, <2>4, <2>5
<1> QED BY <1>1, <1>7, <1>8, <1>9, <1>10, <1>11, <1>12, <1>13

(* A side that resolves gives a warband the schema and the registry accept.*)
LEMMA ResolvedIsKnown ==
  ASSUME PageInv, NEW s \in Sides, Resolves(source[s])
  PROVE  Resolved(source[s]) \in Parsed /\ Resolved(source[s]).ids = "known"
<1>1. source[s] \in Source /\ (source[s].kind = "upload" => source[s].warband.ids = "known")
  BY DEF PageInv, TypeOK, KnownUploads
<1>2. CASE source[s].kind = "sample"
  BY <1>2, FilesAndSample DEF Resolved
<1>3. CASE source[s].kind = "draft"
  BY <1>3 DEF Resolved, Resolves, Parses, HasKnownContent
<1>4. CASE source[s].kind = "upload"
  BY <1>1, <1>4 DEF Resolved, Source
<1> QED BY <1>1, <1>2, <1>3, <1>4 DEF Source

(* Matches and tabs.                                                       *)
LEMMA MatchStep ==
  ASSUME PageInv,
         \/ RunThrows \/ GoOnline
         \/ \E lastTick \in 0..MaxLastTick : Run(lastTick) \/ GoOffline(lastTick)
  PROVE  PageInv'
<1>1. TypeOK /\ KnownUploads
  BY DEF PageInv
<1>2. CASE RunThrows \/ GoOnline
  <2>1. Mounted(0) /\ mode' \in {"blank", "online"} /\ 0 \in 0..MaxLastTick
    BY <1>2, TimeUnits DEF RunThrows, GoOnline, Unmounted
  <2> QED BY <1>1, <2>1, MountedIsNew
<1>3. ASSUME NEW lastTick \in 0..MaxLastTick, GoOffline(lastTick) PROVE PageInv'
  BY <1>1, <1>3, MountedIsNew DEF GoOffline
<1>4. ASSUME NEW lastTick \in 0..MaxLastTick, Run(lastTick) PROVE PageInv'
  <2>1. /\ match' = [lastTick |-> lastTick]
        /\ player' = createInitialPlaybackState(lastTick) /\ loop' = "off" /\ seen' = FALSE
        /\ UNCHANGED <<mode, draft, builder, reading, setup>>
    BY <1>4 DEF Run, Remount
  <2>3. match' \in [lastTick : 0..MaxLastTick]
        /\ match'.lastTick = lastTick
    BY <2>1
  <2>4. Fits(player') /\ player'.lastTick = lastTick
    BY <2>1, InitialFits
  <2>5. TypeOK'
    BY <1>1, <2>1, <2>3, <2>4 DEF TypeOK, Fits, setup
  <2>6. KnownUploads'
    BY <1>1, <2>1 DEF KnownUploads, setup
  <2> QED BY <2>1, <2>3, <2>4, <2>5, <2>6 DEF PageInv, PlayerFits, LoopIsTimed
<1> QED BY <1>2, <1>3, <1>4

LEMMA PageStep == PageInv /\ [Next]_vars => PageInv'
<1>1. PageInv /\ UNCHANGED vars => PageInv'
  BY DEF PageInv, vars, setup, playing, TypeOK, KnownUploads, PlayerFits, LoopIsTimed
<1> QED BY <1>1, PlayerStep, SetupStep, MatchStep DEF Next

-----------------------------------------------------------------------------
(* The values of the page are always those the code can give them.         *)
THEOREM TypeCorrect == Spec => []TypeOK
<1>1. PageInv => TypeOK
  BY DEF PageInv
<1> QED BY <1>1, PageStarts, PageStep, PTL DEF Spec

(* The controls act on the match on the screen and the tick shown is the   *)
(* one the accumulated time stands for, whatever the speeds, the frames    *)
(* and the length of the log.                                              *)
THEOREM PlaybackAlwaysFits == Spec => []PlaybackFitsMatch
<1>1. PageInv => PlaybackFitsMatch
  BY DEF PageInv, PlayerFits, Fits, PlaybackFitsMatch
<1> QED BY <1>1, PageStarts, PageStep, PTL DEF Spec

(* A frame moves the match only if another frame of the same stretch of    *)
(* playing came before it: the time of a pause is not played.              *)
THEOREM PausesAreNotPlayed == Spec => PausedTimeIsNotPlayed
<1>1. ASSUME PageInv, NEW deltaMs \in Deltas, Frame(deltaMs), player' # player PROVE seen
  BY <1>1 DEF PageInv, LoopIsTimed, Frame
<1>2. PageInv /\ [Next]_vars =>
        [(\E deltaMs \in Deltas : Frame(deltaMs)) /\ player' # player => seen]_vars
  BY <1>1
<1> QED BY <1>2, PageStarts, PageStep, PTL DEF Spec, PausedTimeIsNotPlayed

(* Whatever the files, the uploads and the draft hold: a setup that passes *)
(* the checks and takes the page down has a side that names an augment     *)
(* nobody knows, or one that policy-smoke-v1 decides for in a match that   *)
(* is not one against one.                                                 *)
THEOREM OnlyMisfitsCrash == Spec => OnlyMisfitsThrow
<1> DEFINE buildA == Resolved(source["A"])
           buildB == Resolved(source["B"])
           Crash == mode = "offline" /\ mode' = "blank"
           Misfits == \E s \in Sides : Misfit(Resolved(source[s]))
<1>1. ASSUME PageInv, [Next]_vars, Crash PROVE Misfits
  <2>1. RunThrows
    BY <1>1, SetupStep DEF Next, vars, Effects, Frame, Play, Pause, Control, Seek, Run,
       GoOffline, GoOnline
  <2>2. Resolves(source["A"]) /\ Resolves(source["B"]) /\ EngineThrows(buildA, buildB)
    BY <2>1 DEF RunThrows, resolveSetup
  <2>3. /\ buildA \in Parsed /\ buildA.ids = "known"
        /\ buildB \in Parsed /\ buildB.ids = "known"
    BY <1>1, <2>2, ResolvedIsKnown DEF Sides
  <2>4. Misfit(buildA) \/ Misfit(buildB)
    BY <2>2, <2>3 DEF EngineThrows, EnginePlays, Loads, Parses, Misfit
  <2> QED BY <2>4 DEF Sides
<1>2. PageInv /\ [Next]_vars => [Crash => Misfits]_vars
  BY <1>1
<1> QED BY <1>2, PageStarts, PageStep, PTL DEF Spec, OnlyMisfitsThrow

-----------------------------------------------------------------------------
(* Why playback ends: the safety half of PlaybackEnds.                     *)

(* A frame of a player that plays brings it on, or to its end.             *)
LEMMA AdvanceGoesOn ==
  ASSUME NEW p, Fits(p), NEW deltaMs \in Nat \ {0}, p.status = "playing"
  PROVE  \/ advance(p, deltaMs).accumulator > p.accumulator
         \/ /\ advance(p, deltaMs).accumulator >= p.accumulator
            /\ advance(p, deltaMs).status = "paused"
<1> DEFINE sum == p.accumulator + deltaMs * p.speed
           end == p.lastTick * TickUnits
           a == clamp(sum, 0, end)
           t == clamp(a \div TickUnits, 0, p.lastTick)
           q == advance(p, deltaMs)
<1>1. /\ p \in PlaybackState /\ p.lastTick \in Nat /\ p.speed \in Nat \ {0}
      /\ p.accumulator <= end
  BY TimeUnits DEF Fits, PlaybackState, MIN_SPEED, MAX_SPEED
<1>2. end \in Nat /\ p.accumulator \in Nat
  <2>1. MaxLastTick * TickUnits \in Nat /\ end \in Nat
    BY <1>1, TimeUnits
  <2> QED BY <2>1, <1>1 DEF PlaybackState
<1>3. sum \in Nat /\ sum > p.accumulator
  <2>1. deltaMs * p.speed \in Nat \ {0}
    BY <1>1
  <2> QED BY <2>1, <1>2
<1>4. /\ q.accumulator = a
      /\ q.status = IF AtEnd(t, p.lastTick) THEN "paused" ELSE p.status
  BY <1>1 DEF advance, PlaybackState
<1>5. CASE sum < end
  <2>1. a = sum
    BY <1>2, <1>3, <1>5 DEF clamp
  <2> QED BY <2>1, <1>3, <1>4
<1>6. CASE sum >= end
  <2>1. a = end
    BY <1>2, <1>3, <1>6 DEF clamp
  <2>2. a \div TickUnits = p.lastTick
    BY <2>1, <1>1, TimeUnits, TicksOfTime
  <2>3. AtEnd(t, p.lastTick)
    BY <2>2, <1>1 DEF clamp, AtEnd
  <2> QED BY <2>1, <2>3, <1>1, <1>4
<1> QED BY <1>2, <1>3, <1>5, <1>6

(* Step never goes back, also from between two ticks or from the last one. *)
LEMMA StepGoesOn ==
  ASSUME NEW p, Fits(p)
  PROVE  step(p).accumulator >= p.accumulator
<1> DEFINE t == clamp(p.tick + 1, 0, p.lastTick)
           k == TickUnits
<1>1. /\ p \in PlaybackState /\ p.lastTick \in Nat /\ p.tick \in Nat
      /\ p.accumulator <= p.lastTick * TickUnits
      /\ p.tick = p.accumulator \div TickUnits
  BY TimeUnits DEF Fits, PlaybackState
<1>2. p.accumulator \in Nat
  <2>1. MaxLastTick * TickUnits \in Nat
    BY TimeUnits
  <2> QED BY <2>1, <1>1 DEF PlaybackState
<1>3. step(p).accumulator = t * TickUnits
  BY <1>1 DEF step, withTick, PlaybackState
<1>4. CASE p.tick + 1 > p.lastTick
  <2>1. t = p.lastTick
    BY <1>1, <1>4 DEF clamp
  <2> QED BY <2>1, <1>1, <1>2, <1>3, TimeUnits
<1>5. CASE p.tick + 1 <= p.lastTick
  <2>1. t = p.tick + 1
    BY <1>1, <1>5 DEF clamp
  <2>2. p.accumulator <= (p.tick + 1) * TickUnits
    BY <1>1, <1>2, TimeUnits, TimeOfTick
  <2> QED BY <2>1, <2>2, <1>3
<1> QED BY <1>1, <1>4, <1>5

FramePlays ==
  /\ loop = "timed" /\ player.status = "playing"
  /\ \E deltaMs \in Deltas : Frame(deltaMs)

(* Every frame that plays brings playback on or to its end, and nothing but*)
(* a seek or another match takes it back: playback that goes on for ever   *)
(* is sought for ever, as PlaybackEnds says of frames that keep coming.    *)
PlaybackGoesOn ==
  [][/\ FramePlays =>
          player'.status = "paused" \/ player'.accumulator > player.accumulator
     /\ player'.accumulator < player.accumulator =>
          Seek \/ player' = createInitialPlaybackState(match'.lastTick)]_vars

(* Whatever the speeds and the frames, and whatever else the page does.    *)
THEOREM PlaybackOnlyGoesOn == Spec => PlaybackGoesOn
<1> DEFINE Back == player'.accumulator < player.accumulator
           Anew == player' = createInitialPlaybackState(match'.lastTick)
<1>1. ASSUME PageInv, NEW deltaMs \in Deltas, Frame(deltaMs)
      PROVE  /\ ~Back
             /\ loop = "timed" /\ player.status = "playing" =>
                  player'.status = "paused" \/ player'.accumulator > player.accumulator
  <2>1. Fits(player) /\ deltaMs \in Nat \ {0} /\ player.accumulator \in Int
    <3>1. MaxLastTick * TickUnits \in Nat
      BY TimeUnits
    <3> QED BY <1>1, <3>1, LocalPlayAssumption
            DEF PageInv, PlayerFits, Fits, PlaybackState, LocalPlayAssumption
  <2>2. player' = player \/ player' = advance(player, deltaMs)
    BY <1>1 DEF Frame
  <2>3. player.status # "playing" => advance(player, deltaMs) = player
    BY DEF advance
  <2>4. advance(player, deltaMs).accumulator \in Int
    <3>1. MaxLastTick * TickUnits \in Nat
      BY TimeUnits
    <3> QED BY <2>1, <3>1, AdvanceFits DEF Fits, PlaybackState
  <2>5. loop = "timed" => player' = advance(player, deltaMs)
    BY <1>1 DEF Frame
  <2>6. player.status = "playing" =>
          \/ advance(player, deltaMs).accumulator > player.accumulator
          \/ /\ advance(player, deltaMs).accumulator >= player.accumulator
             /\ advance(player, deltaMs).status = "paused"
    BY <2>1, AdvanceGoesOn
  <2> HIDE DEF Back
  <2>7. ~Back
    BY <2>1, <2>2, <2>3, <2>4, <2>6 DEF Back
  <2> QED BY <2>5, <2>6, <2>7
<1>2. ASSUME PageInv, Play \/ Pause \/ Control PROVE ~Back
  <2>1. Fits(player) /\ player.accumulator \in Int
    <3>1. MaxLastTick * TickUnits \in Nat
      BY TimeUnits
    <3> QED BY <1>2, <3>1 DEF PageInv, PlayerFits, Fits, PlaybackState
  <2>2. CASE Play
    BY <2>1, <2>2 DEF Play, play, Fits, PlaybackState
  <2>3. CASE Pause
    BY <2>1, <2>3 DEF Pause, pause, Fits, PlaybackState
  <2>4. CASE Control
    <3>1. CASE player' = step(player)
      <4>1. step(player).accumulator >= player.accumulator
        BY <2>1, StepGoesOn
      <4>2. step(player).accumulator \in Int
        <5>1. MaxLastTick * TickUnits \in Nat
          BY TimeUnits
        <5> QED BY <2>1, <5>1, ControlsFit DEF Fits, PlaybackState
      <4> QED BY <2>1, <3>1, <4>1, <4>2
    <3>2. ASSUME NEW s \in SpeedOptions, player' = setSpeed(player, s) PROVE ~Back
      BY <2>1, <3>2 DEF setSpeed, Fits, PlaybackState
    <3> QED BY <2>4, <3>1, <3>2 DEF Control
  <2> QED BY <1>2, <2>2, <2>3, <2>4
<1>3. ASSUME PageInv, [Next]_vars,
             ~(Play \/ Pause \/ Control \/ Seek \/ \E deltaMs \in Deltas : Frame(deltaMs))
      PROVE  player' = player \/ Anew
  BY <1>3 DEF Next, vars, setup, playing, Effects, Edit, HandleSave, PickFile, Imported, Uploaded,
     handleSourceChange, RunThrows, Run, GoOffline, GoOnline, EditedOutside, Mounted, Unmounted,
     Remount
<1>4. PageInv => player.accumulator \in Int
  <2>1. MaxLastTick * TickUnits \in Nat
    BY TimeUnits
  <2> QED BY <2>1 DEF PageInv, PlayerFits, Fits, PlaybackState
<1>5. ASSUME PageInv, [Next]_vars
      PROVE  /\ FramePlays =>
                  player'.status = "paused" \/ player'.accumulator > player.accumulator
             /\ Back => Seek \/ Anew
  <2>1. player' = player => ~Back
    BY <1>4, <1>5
  <2> HIDE DEF Back, Anew
  <2>2. FramePlays => player'.status = "paused" \/ player'.accumulator > player.accumulator
    BY <1>1, <1>5 DEF FramePlays
  <2>3. Back => Seek \/ Anew
    BY <1>1, <1>2, <1>3, <1>5, <2>1
  <2> QED BY <2>2, <2>3
<1> QED BY <1>5, PageStarts, PageStep, PTL DEF Spec, PlaybackGoesOn
=============================================================================
