------------------------------ MODULE LocalPlay -------------------------------
(***************************************************************************)
(* The offline half of packages/web: the warband builder and its draft in  *)
(* localStorage, the match setup with its two sides, uploads that are read *)
(* while the user goes on, Run, and the playback of the match that is shown*)
(* with its requestAnimationFrame loop.  The draft can be edited from      *)
(* outside (another tab, the developer tools); leaving the Offline tab     *)
(* throws everything away but the draft; a match the engine refuses takes  *)
(* the page down, which has no error boundary.  The lines that show errors *)
(* are left out.                                                           *)
(*                                                                         *)
(* A click and the effects it causes are one step: React runs the effects  *)
(* of a click before it handles the next.  After a frame the effects come  *)
(* later, as a step of their own (Effects).                                *)
(***************************************************************************)
EXTENDS Playback, FiniteSets

CONSTANTS
  Files,       (* what files on the player's disk and edits from outside can hold *)
  Sample,      (* the bundled warbands, which are valid                    *)
  Squads,      (* bound: what an edit makes of the squad, unless it keeps it*)
  Deltas,      (* bound: milliseconds between two frames                   *)
  MaxReads,    (* bound: files being read at once                          *)
  Corrupt,     (* text that is not JSON, or not of a warband               *)
  None         (* null                                                     *)

(* How many units there are, and whether policy-smoke-v1 decides for one.  *)
Squad == [units : {"one", "several"}, behaviors : {"rules", "policy"}]

(* A warband by what is checked of it: the shape parseWarband asks for, the*)
(* role, skill and behavior ids, and the augment ids; and by its squad,    *)
(* which is what the exported policy asks for.                             *)
Warband == [shape : {"ok", "bad"}, ids : {"known", "unknown"},
            augments : {"none", "known", "unknown"}, squad : Squad]

Sides == {"A", "B"}

Readers == Sides \cup {"builder"}

Parsed == {w \in Warband : w.shape = "ok"}

(* createDefaultWarband: one unit with the first of the behaviors          *)
DefaultWarband == [shape |-> "ok", ids |-> "known", augments |-> "none",
                   squad |-> [units |-> "one", behaviors |-> "rules"]]

ASSUME LocalPlayAssumption ==
  /\ Squads \subseteq Squad
  /\ Files \subseteq Warband \cup {Corrupt}
  /\ Sample \in Parsed /\ Sample.ids = "known" /\ Sample.augments # "unknown"
  /\ Sample.squad.behaviors = "rules"
  /\ Deltas \subseteq Nat \ {0} /\ MaxReads \in Nat
  /\ None \notin Warband \cup Files /\ Corrupt \notin Warband

Source == [kind : {"sample", "draft"}] \cup [kind : {"upload"}, warband : Parsed]

VARIABLES
  mode,       (* App: "offline", "online", or "blank" after a crash        *)
  draft,      (* the localStorage entry                                    *)
  builder,    (* WarbandBuilder: the warband being edited                  *)
  reading,    (* files being read, each with whom it is read for           *)
  source,     (* MatchViewer: sourceA and sourceB                          *)
  uploaded,   (* MatchViewer: uploadedA and uploadedB                      *)
  match,      (* the match that is shown, by its last tick                 *)
  player,     (* MatchPlayback: the state of the reducer                   *)
  loop,       (* the rAF loop: off, armed (lastTimestamp is null), timed   *)
  seen        (* history: has a frame come since playing began             *)

setup == <<source, uploaded>>
playing == <<player, loop, seen>>
vars == <<mode, draft, builder, reading, setup, match, playing>>

TypeOK ==
  /\ mode \in {"offline", "online", "blank"}
  /\ draft \in Warband \cup {Corrupt, None}
  /\ builder \in Warband
  /\ reading \in SUBSET [for : Readers, file : Files]
  /\ source \in [Sides -> Source]
  /\ uploaded \in [Sides -> Parsed \cup {None}]
  /\ match \in [lastTick : 0..MaxLastTick]
  /\ player \in PlaybackState
  /\ loop \in {"off", "armed", "timed"}
  /\ seen \in BOOLEAN

-----------------------------------------------------------------------------
(* warband-io.ts and persistence.ts                                        *)

(* serializeWarband writes name, roles, skills, behaviors and positions.   *)
Serialize(w) == [w EXCEPT !.augments = "none"]

(* parseWarband(JSON.parse(text)): throws for what is not in Parsed.       *)
Parses(text) == text \in Parsed

tryParseWarband(w) == Parses(w)

(* The mutant leaves the ids to the engine.                                *)
AnyContent(w) == TRUE

HasKnownContent(w) == w.ids = "known"

(* readWarbandFile: resolves, or throws                                    *)
ReadsAsWarband(file) == Parses(file) /\ HasKnownContent(file)

-----------------------------------------------------------------------------
(* match-setup.ts and match-runner.ts                                      *)

Resolves(s) ==
  CASE s.kind = "sample" -> TRUE
    [] s.kind = "upload" -> TRUE
    [] s.kind = "draft" -> Parses(draft) /\ HasKnownContent(draft)

Resolved(s) ==
  CASE s.kind = "sample" -> Sample
    [] s.kind = "upload" -> s.warband
    [] s.kind = "draft" -> draft

(* With a seed that parses.                                                *)
resolveSetup == Resolves(source["A"]) /\ Resolves(source["B"])

(* init throws for every id the registry does not have.                    *)
Loads(w) == Parses(w) /\ w.ids = "known" /\ w.augments # "unknown"

OneOnOne(buildA, buildB) ==
  buildA.squad.units = "one" /\ buildB.squad.units = "one"

(* policy-smoke-v1's decide throws for an observation of another length    *)
(* than it was trained on, that of a match of one against one.             *)
PolicyRefuses(w, buildA, buildB) ==
  w.squad.behaviors = "policy" /\ ~OneOnOne(buildA, buildB)

(* runMatch can return: a unit of side A decides in the first tick whatever*)
(* happens, one of side B only if it lives to its first turn.              *)
EnginePlays(buildA, buildB) ==
  Loads(buildA) /\ Loads(buildB) /\ ~PolicyRefuses(buildA, buildA, buildB)

(* runMatch can throw.                                                     *)
EngineThrows(buildA, buildB) ==
  ~EnginePlays(buildA, buildB) \/ PolicyRefuses(buildB, buildA, buildB)

-----------------------------------------------------------------------------
(* MatchPlayback                                                           *)

(* The loop starts without a timestamp of its own; the mutant starts it    *)
(* with the one the last loop left.                                        *)
StartWithTimestamp == "timed"

Start == "armed"

(* A fresh instance: the key of a new match is new.                        *)
Remount(lastTick) ==
  /\ player' = createInitialPlaybackState(lastTick)
  /\ loop' = "off" /\ seen' = FALSE

(* What MatchViewer and WarbandBuilder hold when they are mounted.         *)
loadInitialWarband == IF Parses(draft) THEN draft ELSE DefaultWarband

Mounted(lastTick) ==
  /\ builder' = loadInitialWarband
  /\ reading' = {}
  /\ source' = [s \in Sides |-> [kind |-> "sample"]]
  /\ uploaded' = [s \in Sides |-> None]
  /\ match' = [lastTick |-> lastTick]
  /\ player' = createInitialPlaybackState(lastTick)
  /\ loop' = "off" /\ seen' = FALSE
  /\ UNCHANGED draft

(* Both are gone: what they held is dropped (here it is reset at once), and*)
(* a read that ends later finds nobody.                                    *)
Unmounted == Mounted(0)

Init ==
  /\ mode = "offline"
  /\ draft \in (Files \cap Parsed) \cup {None}
  /\ builder = IF draft = None THEN DefaultWarband ELSE draft
  /\ reading = {}
  /\ source = [s \in Sides |-> [kind |-> "sample"]]
  /\ uploaded = [s \in Sides |-> None]
  /\ \E lastTick \in 0..MaxLastTick :
       /\ match = [lastTick |-> lastTick]
       /\ player = createInitialPlaybackState(lastTick)
  /\ loop = "off" /\ seen = FALSE

(* The loop runs exactly while the reducer is playing, once the effects of *)
(* the last step have run.                                                 *)
Settled == loop # "off" <=> player.status = "playing"

Offline == mode = "offline" /\ Settled

Effects ==
  /\ mode = "offline" /\ ~Settled
  /\ loop' = "off"
  /\ UNCHANGED <<mode, draft, builder, reading, setup, match, player, seen>>

(* A frame: a loop that was stopped by this very frame's predecessor may   *)
(* still get one, and advance ignores it.                                  *)
Frame(deltaMs) ==
  /\ mode = "offline" /\ loop # "off"
  /\ player' = IF loop = "timed" THEN advance(player, deltaMs) ELSE player
  /\ loop' = "timed"
  /\ seen' = TRUE
  /\ UNCHANGED <<mode, draft, builder, reading, setup, match>>

Play ==
  /\ Offline /\ player.status # "playing"
  /\ player' = play(player)
  /\ loop' = Start
  /\ seen' = FALSE
  /\ UNCHANGED <<mode, draft, builder, reading, setup, match>>

Pause ==
  /\ Offline /\ player.status # "paused"
  /\ player' = pause(player)
  /\ loop' = "off"
  /\ UNCHANGED <<mode, draft, builder, reading, setup, match, seen>>

(* The remaining controls leave the status, and with it the loop, alone.   *)
Control ==
  /\ Offline
  /\ player' \in {step(player)} \cup {setSpeed(player, s) : s \in SpeedOptions}
  /\ UNCHANGED <<mode, draft, builder, reading, setup, match, loop, seen>>

Seek ==
  /\ Offline
  /\ player' \in {seek(player, t) : t \in 0..player.lastTick}
  /\ UNCHANGED <<mode, draft, builder, reading, setup, match, loop, seen>>

-----------------------------------------------------------------------------
(* WarbandBuilder                                                          *)

(* What the form can make of a warband: its lists offer registered ids only*)
(* and no augments, its fields take any text and any number; units can be  *)
(* added and removed, and policy-smoke-v1 is one of the behaviors offered. *)
Edited(w) == [shape : {"ok", "bad"}, ids : {"known", w.ids},
              augments : {"none", w.augments}, squad : Squads \cup {w.squad}]

(* A unit that is removed takes its ids and its augments with it.          *)
Edit ==
  /\ Offline
  /\ builder' \in Edited(builder)
  /\ UNCHANGED <<mode, draft, reading, setup, match, playing>>

HandleSave ==
  /\ Offline /\ tryParseWarband(builder)
  /\ draft' = Serialize(builder)
  /\ UNCHANGED <<mode, builder, reading, setup, match, playing>>

-----------------------------------------------------------------------------
(* Files: the builder's import and the uploads of the two sides.           *)

PickFile(reader, file) ==
  /\ Offline
  /\ Cardinality(reading) < MaxReads
  /\ reading' = reading \cup {[for |-> reader, file |-> file]}
  /\ UNCHANGED <<mode, draft, builder, setup, match, playing>>

(* handleImport goes on: the import's own error line is left out.          *)
Imported(r) ==
  /\ Offline /\ r.for = "builder"
  /\ reading' = reading \ {r}
  /\ builder' = IF ReadsAsWarband(r.file) THEN r.file ELSE builder
  /\ UNCHANGED <<mode, draft, setup, match, playing>>

handleUploadSuccess(side, warband) ==
  /\ uploaded' = [uploaded EXCEPT ![side] = warband]
  /\ source' = [source EXCEPT ![side] = [kind |-> "upload", warband |-> warband]]

Uploaded(r) ==
  /\ Offline /\ r.for \in Sides
  /\ reading' = reading \ {r}
  /\ IF ReadsAsWarband(r.file) THEN handleUploadSuccess(r.for, r.file)
     ELSE UNCHANGED setup
  /\ UNCHANGED <<mode, draft, builder, match, playing>>

-----------------------------------------------------------------------------
(* MatchSetup and MatchViewer                                              *)

(* The sources a side's list offers: an upload once there has been one.    *)
Offered(side) ==
  [kind : {"sample", "draft"}]
    \cup [kind : {"upload"}, warband : {uploaded[side]} \ {None}]

handleSourceChange(side) ==
  /\ Offline
  /\ \E s \in Offered(side) : source' = [source EXCEPT ![side] = s]
  /\ UNCHANGED <<mode, draft, builder, reading, uploaded, match, playing>>

(* handleRun: a seed that does not parse or a side that does not resolve   *)
(* leaves everything but the error line as it is.                          *)
Run(lastTick) ==
  /\ Offline /\ resolveSetup
  /\ EnginePlays(Resolved(source["A"]), Resolved(source["B"]))
  /\ match' = [lastTick |-> lastTick]
  /\ Remount(lastTick)
  /\ UNCHANGED <<mode, draft, builder, reading, setup>>

(* The engine throws inside the state update: the whole page goes.         *)
RunThrows ==
  /\ Offline /\ resolveSetup
  /\ EngineThrows(Resolved(source["A"]), Resolved(source["B"]))
  /\ mode' = "blank"
  /\ Unmounted

-----------------------------------------------------------------------------
(* App, the page and the world outside.                                    *)

GoOnline ==
  /\ Offline
  /\ mode' = "online"
  /\ Unmounted

(* Mounted again, by the tab or by a reload of the page.                   *)
GoOffline(lastTick) ==
  /\ mode # "offline"
  /\ mode' = "offline"
  /\ Mounted(lastTick)

EditedOutside ==
  /\ draft' \in Files \cup {None}
  /\ UNCHANGED <<mode, builder, reading, setup, match, playing>>

Next ==
  \/ Effects
  \/ \E deltaMs \in Deltas : Frame(deltaMs)
  \/ Play \/ Pause \/ Control \/ Seek
  \/ Edit \/ HandleSave
  \/ \E reader \in Readers, file \in Files : PickFile(reader, file)
  \/ \E r \in reading : Imported(r) \/ Uploaded(r)
  \/ \E side \in Sides : handleSourceChange(side)
  \/ RunThrows
  \/ \E lastTick \in 0..MaxLastTick : Run(lastTick) \/ GoOffline(lastTick)
  \/ GoOnline \/ EditedOutside

(* Frames come as long as one is requested, and effects are run.           *)
Spec ==
  /\ Init /\ [][Next]_vars
  /\ WF_vars(Effects)
  /\ WF_vars(\E deltaMs \in Deltas : Frame(deltaMs))

-----------------------------------------------------------------------------
(* Properties.                                                             *)

(* What the controls act on is always the match on the screen: its length  *)
(* bounds the slider, and the tick shown is the one the accumulated time   *)
(* stands for, so that Play goes on from there after any Run, seek or step.*)
PlaybackFitsMatch ==
  mode = "offline" =>
    /\ player.lastTick = match.lastTick
    /\ player.accumulator <= match.lastTick * TickUnits
    /\ player.tick = player.accumulator \div TickUnits

(* The time a match stood paused, or that passed before it was shown, is   *)
(* never played: a frame moves the match only by the time since another    *)
(* frame of the same stretch of playing.                                   *)
PausedTimeIsNotPlayed ==
  [][(\E deltaMs \in Deltas : Frame(deltaMs)) /\ player' # player => seen]_vars

(* The two faults no check looks for: an augment nobody knows, and a unit  *)
(* that policy-smoke-v1 decides for in a match that is not one against one.*)
Misfit(build) ==
  \/ build.augments = "unknown"
  \/ PolicyRefuses(build, Resolved(source["A"]), Resolved(source["B"]))

(* A setup that passes every check and still takes the page down has one of*)
(* these faults, wherever its warbands came from.                          *)
OnlyMisfitsThrow ==
  [][mode = "offline" /\ mode' = "blank" =>
       \E s \in Sides : Misfit(Resolved(source[s]))]_vars

(* Playing comes to an end, whatever the speed and the length, unless the  *)
(* player keeps seeking.                                                   *)
PlaybackEnds ==
  []<>(player.status = "paused") \/ []<><<Seek>>_vars

(* What the tests of persistence.ts and warband-io.ts say of a draft: the  *)
(* warband that is saved is the one that is loaded.                        *)
DraftRoundTrips ==
  [][HandleSave => Parses(draft') /\ draft' = builder]_vars
=============================================================================
