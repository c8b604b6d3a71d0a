---------------------------- MODULE PresenceMonitor ----------------------------
(***************************************************************************)
(* The workstation presence monitor of one page: createPresenceMonitor of  *)
(* presence-controller.mjs, the wiring of presence-detection.js (toggle,   *)
(* retry button, shield, visibility and pagehide listeners) and the camera *)
(* and detector factories of presence-runtime.mjs.                         *)
(*                                                                         *)
(* JavaScript runs each callback to its end, so an action is the code      *)
(* between two awaits that wait for the browser: createDetector, the two   *)
(* steps of createCamera (getUserMedia, then video.play) and the fetch that*)
(* saves the preference.  The close() of the vendored detector returns     *)
(* nothing, so awaiting it lets no event in between.                       *)
(*                                                                         *)
(* Abstractions.  Time is counted in units of the check interval and only  *)
(* in the two clocks that matter, so frames that come too early and frames *)
(* without a new picture are left out.  generation is compared only with   *)
(* the one a start took, so it is the flag stale of that start.  The calls *)
(* that wait for startPromise do the same when it settles: waiting says    *)
(* that there is one.  Messages, labels and the motion advisory are left   *)
(* out.                                                                    *)
(***************************************************************************)
EXTENDS Integers, FiniteSets

CONSTANTS Handles,    \* identities of detectors and of camera streams
          Absence,    \* absenceMs
          Grace,      \* resumeGraceMs
          MaxErrors   \* MAX_CONSECUTIVE_DETECTION_ERRORS

ASSUME PresenceAssumption ==
    /\ Absence \in Nat \ {0} /\ Grace \in Nat /\ MaxErrors \in Nat \ {0}
    /\ Handles # {} /\ "none" \notin Handles

VARIABLES shown,     \* state
          enabled,   \* preferenceEnabled
          disposed,
          shield,    \* what holds the session shield up, or "open"
          hidden,    \* document.hidden
          detector,  \* detector, or "none"
          open,      \* detectors created and not closed
          camera,    \* the stream of camera, or "none"
          live,      \* camera streams acquired and not stopped
          start,     \* the call whose promise is startPromise
          waiting,   \* a call of start awaits startPromise
          toggle,    \* the click handler of the toggle, or the bootstrap
          frame,     \* a frame callback is scheduled
          absent,    \* units since missingSince, -1 for null
          grace,     \* units until graceUntil
          issued,    \* lockIssued
          errors,    \* consecutiveErrors
          calm       \* history: units watched without grace and without a face

presenceVars == <<shown, enabled, disposed, shield, hidden, detector, open, camera, live,
                  start, waiting, toggle, frame, absent, grace, issued, errors, calm>>
resources == <<detector, open, camera, live, frame>>
timing == <<absent, grace, issued, errors, calm>>
page == <<disposed, shield, hidden>>

-----------------------------------------------------------------------------
MonitorStates == {"off", "starting", "monitoring", "paused", "shielded", "unavailable"}

Locked == shield # "open"

NoStart == [phase |-> "none", stale |-> FALSE, created |-> FALSE, det |-> "none", cam |-> "none"]

Outdated(s) == IF s = NoStart THEN s ELSE [s EXCEPT !.stale = TRUE]

Fresh(used) == CHOOSE h \in Handles : h \notin used

PresenceInit ==
    /\ shown = "off" /\ enabled = FALSE /\ disposed = FALSE
    /\ shield = "open" /\ hidden \in BOOLEAN
    /\ detector = "none" /\ open = {} /\ camera = "none" /\ live = {}
    /\ start = NoStart /\ waiting = FALSE
    /\ toggle \in {"boot", "idle"}
    /\ frame = FALSE
    /\ absent = -1 /\ grace = 0 /\ issued = FALSE /\ errors = 0 /\ calm = 0

-----------------------------------------------------------------------------
(* stopCamera and stopRuntime({ closeModel: true }); the generation they   *)
(* raise with them is Outdated(start) in the actions.                      *)
StopCamera ==
    /\ camera' = "none" /\ live' = live \ {camera} /\ frame' = FALSE

(* The model is closed but still referenced.                               *)
CloseAndKeep == open' = open \ {detector} /\ UNCHANGED detector

CloseDetector == detector' = "none" /\ open' = open \ {detector}

StopRuntime ==
    /\ StopCamera /\ CloseDetector
    /\ absent' = -1 /\ issued' = FALSE /\ errors' = 0
    /\ UNCHANGED <<grace, calm>>

(* start() up to its first await, with the pending start, the detector and *)
(* the camera the caller left.                                             *)
CallStart(pending, det, cam) ==
    IF shield' # "open" \/ hidden'
    THEN shown' = "paused" /\ start' = pending /\ UNCHANGED waiting
    ELSE IF shown = "monitoring" /\ cam # "none"
    THEN start' = pending /\ UNCHANGED <<shown, waiting>>
    ELSE IF pending # NoStart
    THEN waiting' = TRUE /\ start' = pending /\ UNCHANGED shown
    ELSE /\ shown' = "starting"
         /\ start' = [phase |-> IF det = "none" THEN "detector" ELSE "camera",
                      stale |-> FALSE, created |-> det = "none", det |-> det, cam |-> "none"]
         /\ UNCHANGED waiting

(* pause(reason), called by the shield and visibility listeners.           *)
Pause(reason) ==
    IF enabled /\ ~disposed
    THEN StopCamera /\ start' = Outdated(start) /\ shown' = reason
    ELSE UNCHANGED <<camera, live, frame, start, shown>>

(* resume(), called by the same listeners.                                 *)
Resume ==
    /\ UNCHANGED <<resources, errors, calm>>
    /\ IF enabled /\ ~disposed
       THEN /\ grace' = Grace /\ absent' = -1 /\ issued' = FALSE
            /\ CallStart(start, detector, camera)
       ELSE UNCHANGED <<grace, absent, issued, shown, start, waiting>>

(* enable() and disable().                                                 *)
Enable ==
    /\ enabled' = TRUE /\ grace' = Grace
    /\ UNCHANGED <<page, resources, absent, issued, errors, calm>>
    /\ IF disposed THEN UNCHANGED <<shown, start, waiting>>
                   ELSE CallStart(start, detector, camera)

Disable ==
    /\ enabled' = FALSE /\ shown' = "off" /\ start' = Outdated(start)
    /\ StopRuntime
    /\ UNCHANGED <<page, waiting>>

(* fail(error) outside of a start.                                         *)
Fail ==
    /\ StopRuntime /\ shown' = "unavailable" /\ start' = Outdated(start)
    /\ UNCHANGED <<enabled, page, waiting, toggle>>

-----------------------------------------------------------------------------
(* The page.  The toggle is disabled while its handler saves and waits; the*)
(* bootstrap enables a saved preference and does not disable the toggle.   *)
Bootstrap == toggle = "boot" /\ toggle' = "idle" /\ Enable

ToggleClick ==
    /\ toggle = "idle" /\ ~disposed
    /\ toggle' = IF enabled THEN "saveOff" ELSE "saveOn"
    /\ UNCHANGED <<shown, enabled, page, resources, start, waiting, timing>>

PreferenceSaved ==
    \/ toggle = "saveOn" /\ toggle' = "await" /\ Enable
    \/ toggle = "saveOff" /\ toggle' = "idle" /\ Disable

PreferenceNotSaved ==
    /\ toggle \in {"saveOn", "saveOff"} /\ toggle' = "idle"
    /\ UNCHANGED <<shown, enabled, page, resources, start, waiting, timing>>

ToggleReleased ==
    /\ toggle = "await" /\ start = NoStart /\ ~waiting
    /\ toggle' = "idle"
    /\ UNCHANGED <<shown, enabled, page, resources, start, waiting, timing>>

(* The retry button is shown while the state is unavailable.               *)
Retry ==
    /\ shown = "unavailable" /\ enabled /\ ~disposed
    /\ StopCamera /\ CloseDetector
    /\ absent' = -1 /\ issued' = FALSE /\ errors' = 0 /\ grace' = Grace
    /\ UNCHANGED <<enabled, page, toggle, calm>>
    /\ CallStart(Outdated(start), "none", "none")

(* The idle timer of app.js obscures the page, its button reveals it, and  *)
(* the officer hides and shows the page; showShield tells the listeners    *)
(* only when it was not up.                                                *)
IdleShield ==
    /\ shield = "open" /\ shield' = "idle"
    /\ Pause("shielded")
    /\ UNCHANGED <<enabled, disposed, hidden, detector, open, waiting, toggle, timing>>

Reveal ==
    /\ shield # "open" /\ shield' = "open"
    /\ UNCHANGED <<enabled, disposed, hidden, toggle>>
    /\ Resume

Hide ==
    /\ ~hidden /\ hidden' = TRUE
    /\ Pause("paused")
    /\ UNCHANGED <<enabled, disposed, shield, detector, open, waiting, toggle, timing>>

Show ==
    /\ hidden /\ hidden' = FALSE
    /\ UNCHANGED <<enabled, disposed, shield, toggle>>
    /\ Resume

(* pagehide: dispose() shows no state any more.                            *)
Dispose ==
    /\ ~disposed /\ disposed' = TRUE /\ enabled' = FALSE
    /\ StopRuntime /\ start' = Outdated(start)
    /\ UNCHANGED <<shown, shield, hidden, waiting, toggle>>

-----------------------------------------------------------------------------
(* The pending start, an await at a time.  A start that lost its           *)
(* generation releases what it created and nothing else.                   *)
(* A start that checks the preference but not its generation.              *)
LostPreference == disposed \/ ~enabled

Lost == disposed \/ ~enabled \/ start.stale

StartEnds == start' = NoStart

(* The model a lost start created is not closed.                           *)
DetectorLeaked ==
    /\ start.phase = "detector"
    /\ LET d == Fresh(open) IN
       /\ open' = open \cup {d}
       /\ IF Lost THEN StartEnds /\ UNCHANGED detector
          ELSE detector' = d /\ start' = [start EXCEPT !.phase = "camera", !.det = d]
    /\ UNCHANGED <<shown, enabled, page, camera, live, frame, waiting, toggle, timing>>

DetectorCreated ==
    /\ start.phase = "detector"
    /\ IF Lost
       THEN StartEnds /\ UNCHANGED <<detector, open>>
       ELSE LET d == Fresh(open) IN
            /\ detector' = d /\ open' = open \cup {d}
            /\ start' = [start EXCEPT !.phase = "camera", !.det = d]
    /\ UNCHANGED <<shown, enabled, page, camera, live, frame, waiting, toggle, timing>>

(* getUserMedia resolves: the camera is on, the start does not know yet.   *)
CameraAcquired ==
    /\ start.phase = "camera"
    /\ LET c == Fresh(live) IN
       /\ live' = live \cup {c}
       /\ start' = [start EXCEPT !.phase = "play", !.cam = c]
    /\ UNCHANGED <<shown, enabled, page, detector, open, camera, frame, waiting, toggle, timing>>

(* video.play resolves and createCamera returns.                           *)
CameraPlays ==
    /\ start.phase = "play"
    /\ StartEnds
    /\ IF Lost
       THEN /\ live' = live \ {start.cam}
            /\ IF start.created /\ detector = start.det
               THEN CloseDetector ELSE UNCHANGED <<detector, open>>
            /\ UNCHANGED <<shown, camera, frame, timing>>
       ELSE /\ camera' = start.cam /\ shown' = "monitoring" /\ frame' = TRUE
            /\ absent' = -1 /\ issued' = FALSE /\ errors' = 0 /\ calm' = 0
            /\ UNCHANGED <<live, detector, open, grace>>
    /\ UNCHANGED <<enabled, page, waiting, toggle>>

(* A creation throws; createLocalCamera stops the stream it had acquired.  *)
CreationFails ==
    /\ start # NoStart
    /\ StartEnds
    /\ IF start.stale \/ disposed
       THEN /\ live' = live \ {start.cam}
            /\ UNCHANGED <<shown, detector, open, camera, frame, timing>>
       ELSE /\ shown' = "unavailable"
            /\ live' = live \ {start.cam, camera} /\ camera' = "none" /\ frame' = FALSE
            /\ CloseDetector
            /\ absent' = -1 /\ issued' = FALSE /\ errors' = 0
            /\ UNCHANGED <<grace, calm>>
    /\ UNCHANGED <<enabled, page, waiting, toggle>>

(* startPromise has settled: a call that waited for it starts again if the *)
(* monitor is still wanted and not running.                                *)
(* A waiting call returns without starting again.                          *)
WaiterGivesUp ==
    /\ waiting /\ start = NoStart /\ waiting' = FALSE
    /\ UNCHANGED <<shown, enabled, page, resources, start, toggle, timing>>

WaiterContinues ==
    /\ waiting /\ start = NoStart
    /\ IF ~disposed /\ enabled /\ shown # "monitoring" /\ ~Locked /\ ~hidden
       THEN /\ shown' = "starting" /\ waiting' = FALSE
            /\ start' = [NoStart EXCEPT !.phase = IF detector = "none" THEN "detector" ELSE "camera",
                                        !.created = detector = "none", !.det = detector]
       ELSE waiting' = FALSE /\ UNCHANGED <<shown, start>>
    /\ UNCHANGED <<enabled, page, resources, toggle, timing>>

-----------------------------------------------------------------------------
(* processFrame, with a face, without one, and when detection throws.      *)
Processed == frame /\ shown = "monitoring" /\ camera # "none" /\ detector # "none" /\ ~Locked

(* A face does not reset missingSince.                                     *)
FrameFaceUnnoticed ==
    /\ Processed
    /\ issued' = FALSE /\ errors' = 0 /\ calm' = 0
    /\ UNCHANGED <<shown, enabled, page, resources, start, waiting, toggle, absent, grace>>

FrameFace ==
    /\ Processed
    /\ absent' = -1 /\ issued' = FALSE /\ errors' = 0 /\ calm' = 0
    /\ UNCHANGED <<shown, enabled, page, resources, start, waiting, toggle, grace>>

FrameNoFace ==
    /\ Processed
    /\ ~(grace = 0 /\ ~issued /\ absent >= Absence)
    /\ errors' = 0
    /\ absent' = IF grace > 0 THEN -1 ELSE IF absent = -1 THEN 0 ELSE absent
    /\ UNCHANGED <<shown, enabled, page, resources, start, waiting, toggle, grace, issued, calm>>

(* shield.obscure: its listener pauses, and processFrame pauses again.     *)
FrameObscures ==
    /\ Processed
    /\ grace = 0 /\ ~issued /\ absent >= Absence
    /\ shield' = "presence" /\ issued' = TRUE /\ errors' = 0
    /\ Pause("shielded")
    /\ UNCHANGED <<enabled, disposed, hidden, detector, open, waiting, toggle, absent, grace, calm>>

FrameError ==
    /\ Processed
    /\ IF errors + 1 >= MaxErrors
       THEN Fail
       ELSE /\ errors' = errors + 1
            /\ UNCHANGED <<shown, enabled, page, resources, start, waiting, toggle,
                           absent, grace, issued, calm>>

(* The device ends the track of the active camera.                         *)
TrackEnded == camera # "none" /\ shown = "monitoring" /\ Fail

TimePassesOnPage ==
    /\ grace' = IF grace > 0 THEN grace - 1 ELSE 0
    /\ absent' = IF absent \in 0..(Absence - 1) THEN absent + 1 ELSE absent
    /\ calm' = IF grace > 0 \/ camera = "none" THEN 0
               ELSE IF calm < Absence THEN calm + 1 ELSE calm
    /\ UNCHANGED <<shown, enabled, page, resources, start, waiting, toggle, issued, errors>>

-----------------------------------------------------------------------------
StartSettles == DetectorCreated \/ CameraAcquired \/ CameraPlays \/ CreationFails \/ WaiterContinues

FrameProcessed == FrameFace \/ FrameNoFace \/ FrameObscures \/ FrameError

PresenceNext ==
    \/ Bootstrap \/ ToggleClick \/ PreferenceSaved \/ PreferenceNotSaved \/ ToggleReleased
    \/ Retry \/ IdleShield \/ Reveal \/ Hide \/ Show \/ Dispose
    \/ StartSettles \/ FrameProcessed \/ TrackEnded \/ TimePassesOnPage

(* The browser settles its promises, delivers frames, and time passes.     *)
PresenceFairness ==
    /\ WF_presenceVars(StartSettles)
    /\ WF_presenceVars(FrameProcessed)
    /\ WF_presenceVars(TimePassesOnPage)

-----------------------------------------------------------------------------
PresenceTypeOK ==
    /\ shown \in MonitorStates /\ enabled \in BOOLEAN /\ disposed \in BOOLEAN
    /\ shield \in {"open", "idle", "presence"} /\ hidden \in BOOLEAN
    /\ detector \in open \cup {"none"} /\ open \subseteq Handles
    /\ camera \in live \cup {"none"} /\ live \subseteq Handles
    /\ start \in [phase: {"none", "detector", "camera", "play"}, stale: BOOLEAN,
                  created: BOOLEAN, det: Handles \cup {"none"}, cam: live \cup {"none"}]
    /\ toggle \in {"boot", "idle", "saveOn", "saveOff", "await"}
    /\ absent \in -1..Absence /\ grace \in 0..Grace /\ calm \in 0..Absence
    /\ waiting \in BOOLEAN /\ frame \in BOOLEAN /\ issued \in BOOLEAN
    /\ errors \in 0..(MaxErrors - 1)

(* A camera stream is on only while the page shows Monitoring, wanted,     *)
(* visible and unobscured, or while a start is between getUserMedia and    *)
(* play: no order of toggling, hiding, shielding, failing and leaving the  *)
(* page forgets one, and there are never two.                              *)
CameraOnlyWhileMonitoring ==
    /\ live \subseteq {camera, start.cam}
    /\ camera # "none" =>
         /\ shown = "monitoring" /\ enabled /\ ~disposed /\ ~Locked /\ ~hidden
         /\ start = NoStart

(* Monitoring is shown only while the monitor works: camera on, model      *)
(* loaded, next frame scheduled.  Nothing is left open once disabled.      *)
MonitoringIsAlive ==
    /\ open \subseteq {detector}
    /\ shown = "monitoring" /\ ~disposed => camera \in live /\ detector \in open /\ frame
    /\ ~enabled => open = {}

(* The monitor obscures the session only after a whole absence interval in *)
(* which it watched, no grace ran and no frame had a face.                 *)
ObscuresOnlyAfterAbsence ==
    [][shield = "open" /\ shield' = "presence" => calm >= Absence]_presenceVars

(* The inductive invariant of the three.  A pending start holds a stream   *)
(* between getUserMedia and play only; one that kept its generation is     *)
(* still wanted, as whoever changes its mind outdates it; the preference   *)
(* is switched on only from off; and an absence that is counted while the  *)
(* camera is on began after the grace.                                     *)
StartIsConsistent ==
    /\ start.phase = "none" => start = NoStart
    /\ start.cam # "none" <=> start.phase = "play"
    /\ start.phase = "detector" => detector = "none"

FreshStartIsWanted ==
    start # NoStart /\ ~start.stale =>
       /\ enabled /\ ~disposed /\ ~Locked /\ ~hidden /\ shown = "starting"
       /\ start.phase # "detector" => detector # "none"

EnabledOnce == toggle \in {"boot", "saveOn"} => ~enabled

WatchedIsCalm == camera # "none" => (grace > 0 => absent = -1) /\ absent <= calm

PresenceInv ==
    /\ PresenceTypeOK /\ CameraOnlyWhileMonitoring /\ MonitoringIsAlive
    /\ StartIsConsistent /\ FreshStartIsWanted /\ EnabledOnce /\ WatchedIsCalm

(* A start that loses its generation to a pause or a failed start is not   *)
(* lost: while monitoring is wanted, it runs or says that it cannot.       *)
Wanted == enabled /\ ~disposed /\ ~Locked /\ ~hidden
EventuallyMonitored ==
    Wanted ~> (shown \in {"monitoring", "unavailable"} \/ ~Wanted)

PresenceSpec == PresenceInit /\ [][PresenceNext]_presenceVars /\ PresenceFairness
=============================================================================
