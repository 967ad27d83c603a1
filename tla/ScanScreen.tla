----------------------------- MODULE ScanScreen -----------------------------
(***************************************************************************)
(* The screen that scans a code (mobile/src/ScanQrScreen.tsx) and the part *)
(* of the application that opens it and authenticates what it hands up     *)
(* (openScan, closeScan, retryScan and runScan of mobile/AppV2.tsx).       *)
(*                                                                         *)
(* A run of runScan goes on when the screen is closed, and two runs share  *)
(* one stage and one result.  A step is what runs between two awaits: what *)
(* the user and the camera do comes in between.  A handler that the screen *)
(* calls reads what was last rendered, which is not what was last set: two *)
(* events may come before the next rendering.  How an authentication       *)
(* goes is PeerAuthentication's; here it ends one way or the other, or its *)
(* connect() never settles: the native bridge (ZaycommBleModule.kt)        *)
(* settles that promise only once services are discovered.                 *)
(***************************************************************************)
EXTENDS Integers, FiniteSets

CONSTANTS
  Runs,         \* bound: the codes handed up, each to a run of its own
  MaxOpenings,  \* bound on the times the screen is opened
  None          \* no result

ASSUME ScanConstants == MaxOpenings \in Nat /\ None \notin Runs

VARIABLES
  identity,    \* is there an identity (and its static keys)
  resetting,   \* configureAgain awaits stop() and removeItem()
  openings,    \* times the screen was opened
  open,        \* scanOpen
  shown,       \* what the last rendering read of the state
  permission,  \* hasPermission and blocked of the screen: "none", "granted" or "blocked"
  asking,      \* the screen awaits the permission dialog
  captured,    \* captured of the screen
  stage,       \* scanStage
  result,      \* scanResult: the run it is of
  runs         \* run -> [phase, opening, by]

screen == <<openings, open, shown, permission, asking, captured>>
screenVars == <<identity, resetting, screen, stage, result, runs>>

RunPhases == {"unused", "permission", "connecting", "exchanging", "disconnecting", "hung", "over"}

\* What a rendering reads.
Current ==
  [identity |-> identity, open |-> open, captured |-> captured, stage |-> stage,
   permission |-> permission]

ScreenInit ==
  /\ identity = TRUE /\ resetting = FALSE
  /\ openings = 0 /\ open = FALSE
  /\ permission = "none" /\ asking = FALSE /\ captured = FALSE
  /\ stage = "idle" /\ result = None
  /\ runs = [r \in Runs |-> [phase |-> "unused", opening |-> 0, by |-> "camera", fresh |-> FALSE]]
  /\ shown = Current

----------------------------------------------------------------------------
(* The application: AppV2. *)

\* openScan.
OpenScan ==
  /\ shown.identity /\ ~shown.open /\ openings < MaxOpenings
  /\ open' = TRUE
  /\ stage' = "idle" /\ result' = None
  /\ UNCHANGED <<identity, resetting, openings, shown, permission, asking, captured, runs>>

\* closeScan.
CloseScan ==
  /\ shown.open
  /\ open' = FALSE
  /\ stage' = "idle"
  /\ UNCHANGED <<identity, resetting, openings, shown, permission, asking, captured, result, runs>>

\* retryScan, from SCAN AGAIN.
RetryScan ==
  /\ shown.open /\ shown.stage = "failed"
  /\ stage' = "idle" /\ result' = None
  /\ UNCHANGED <<identity, resetting, screen, runs>>

\* configureAgain, confirmed on another page.
Regenerate ==
  /\ shown.identity /\ ~shown.open /\ ~resetting
  /\ resetting' = TRUE
  /\ UNCHANGED <<identity, screen, stage, result, runs>>

\* It goes on once the transport is stopped and the key is removed.
RemoveIdentity ==
  /\ resetting
  /\ resetting' = FALSE /\ identity' = FALSE
  /\ UNCHANGED <<screen, stage, result, runs>>

\* configure.
Configure ==
  /\ ~shown.identity /\ ~shown.open
  /\ identity' = TRUE
  /\ UNCHANGED <<resetting, screen, stage, result, runs>>

----------------------------------------------------------------------------
(* The screen. *)

\* React renders what was set.  A screen that comes is mounted with the state it
\* begins with, and asks for the permission; one that goes takes its state with
\* it, and what it still awaits changes nothing.
Render ==
  LET mounts == open /\ ~shown.open
  IN  /\ shown # Current
      /\ openings' = openings + IF mounts THEN 1 ELSE 0
      /\ captured' = (captured /\ ~mounts)
      /\ permission' = IF mounts THEN "none" ELSE permission
      /\ asking' = (open /\ (asking \/ mounts))
      /\ shown' = [Current EXCEPT !.captured = captured', !.permission = permission']
      /\ runs' = [r \in Runs |-> [runs[r] EXCEPT !.fresh = FALSE]]
      /\ UNCHANGED <<identity, resetting, open, stage, result>>

\* A screen that forgets that it has handed up a code.
ScanningByStage == shown.stage \in {"idle", "scanning"}

Scanning == ~shown.captured /\ shown.stage \in {"idle", "scanning"}

Viewfinder == shown.open /\ Scanning /\ shown.permission = "granted"

Busy == shown.stage \in {"captured", "validating", "authenticating"}

\* requestPermission, from ALLOW CAMERA.  A blocked one opens the settings.
AskPermission ==
  /\ shown.open /\ Scanning /\ shown.permission = "none"
  /\ asking' = TRUE
  /\ UNCHANGED <<identity, resetting, openings, open, shown, permission, captured, stage, result, runs>>

\* PermissionsAndroid.request settles.
PermissionAnswered ==
  /\ asking
  /\ asking' = FALSE
  /\ permission' \in {"none", "granted", "blocked"}
  /\ UNCHANGED <<identity, resetting, openings, open, shown, captured, stage, result, runs>>

\* The code goes up to runScan, which runs as far as its first await.
HandUp(r, by) ==
  /\ runs[r].phase = "unused"
  /\ captured' = TRUE
  /\ runs' = [runs EXCEPT ![r] =
       [phase |-> IF shown.identity THEN "permission" ELSE "over", opening |-> openings,
        by |-> by, fresh |-> TRUE]]
  /\ UNCHANGED <<identity, resetting, openings, open, shown, permission, asking>>

\* bleTransport() has no bridge: runScan ends at once.
HandUpWithoutBridge(r, by) ==
  /\ shown.identity
  /\ runs[r].phase = "unused"
  /\ captured' = TRUE
  /\ runs' = [runs EXCEPT ![r] =
       [phase |-> "over", opening |-> openings, by |-> by, fresh |-> TRUE]]
  /\ stage' = "failed" /\ result' = r
  /\ UNCHANGED <<identity, resetting, openings, open, shown, permission, asking>>

HandsUp(r, by) ==
  \/ HandUp(r, by) /\ UNCHANGED <<stage, result>>
  \/ HandUpWithoutBridge(r, by)

\* onCodeScanned, which returns when `captured` was set at the last rendering.
ScanCode(r) == Viewfinder /\ HandsUp(r, "camera")

\* AUTHENTICATE FROM CODE, offered whether or not a code was captured.
EnterCode(r) ==
  /\ shown.open /\ shown.stage \in {"idle", "scanning"}
  /\ HandsUp(r, "hand")

----------------------------------------------------------------------------
(* runScan and authenticateScannedPayload, from one await to the next. *)

MovesTo(r, phase) == runs' = [runs EXCEPT ![r].phase = phase]

\* A return that does not tell the screen.
EndsUntold(r) ==
  /\ MovesTo(r, "over")
  /\ result' = r
  /\ stage' = stage

\* The call fails before or in connect(): onStage, the return and setScanResult
\* follow without an await.
FailsAtOnce(r) ==
  /\ MovesTo(r, "over")
  /\ stage' = "failed" /\ result' = r

\* cameraPermission() settles: it is denied, the code is malformed, this
\* phone's own or of no node in reach; or the connection begins.
GoOn(r) ==
  /\ runs[r].phase = "permission"
  /\ \/ FailsAtOnce(r)
     \/ MovesTo(r, "connecting") /\ stage' = "authenticating" /\ result' = result
  /\ UNCHANGED <<identity, resetting, screen>>

\* connect() settles.
Connected(r) ==
  /\ runs[r].phase = "connecting"
  /\ \/ FailsAtOnce(r)
     \/ MovesTo(r, "exchanging") /\ UNCHANGED <<stage, result>>
  /\ UNCHANGED <<identity, resetting, screen>>

\* connect() never does.
Hangs(r) ==
  /\ runs[r].phase = "connecting"
  /\ MovesTo(r, "hung")
  /\ UNCHANGED <<identity, resetting, screen, stage, result>>

\* The exchange ends, or its time is up; disconnect() is awaited.
Exchanged(r) ==
  /\ runs[r].phase = "exchanging"
  /\ MovesTo(r, "disconnecting")
  /\ stage' \in {"verified", "failed"}
  /\ UNCHANGED <<identity, resetting, screen, result>>

Disconnected(r) ==
  /\ runs[r].phase = "disconnecting"
  /\ MovesTo(r, "over")
  /\ result' = r
  /\ UNCHANGED <<identity, resetting, screen, stage>>

User ==
  \/ OpenScan \/ CloseScan \/ RetryScan \/ Regenerate \/ Configure \/ AskPermission
  \/ \E r \in Runs : ScanCode(r) \/ EnterCode(r)
Run(r) == GoOn(r) \/ Connected(r) \/ Hangs(r) \/ Exchanged(r) \/ Disconnected(r)

ScreenNext ==
  \/ User
  \/ Render
  \/ PermissionAnswered
  \/ RemoveIdentity
  \/ \E r \in Runs : Run(r)

\* cameraPermission(), an exchange (withTimeout) and disconnect() settle, connect()
\* settles or hangs, and React renders what was set.  Nothing is assumed of the
\* user or the dialog.
ScreenFairness == WF_screenVars(Render) /\ \A r \in Runs : WF_screenVars(Run(r))

ScreenSpec == ScreenInit /\ [][ScreenNext]_screenVars /\ ScreenFairness

----------------------------------------------------------------------------
(* Properties *)

\* In a step in which the camera hands up a code, each other one handed up in this
\* opening of the screen was handed up since the last rendering.
FramesBeforeRender ==
  \A r \in Runs :
    runs[r].phase = "unused" /\ runs'[r].phase # "unused" /\ runs'[r].by = "camera" =>
      \A q \in Runs :
        runs[q].phase # "unused" /\ runs[q].opening = openings => runs[q].fresh

\* From the rendering that follows a hand-up on, the camera hands up nothing more
\* while the screen stays open: neither while the stage says idle because the
\* permission is asked for, nor after SCAN AGAIN, nor when an older run sets the
\* stage back.  "So no further frames are accepted" (ScanQrScreen.tsx:123) holds
\* from then on only: of several events before that rendering, each is handed up.
CameraStops == [][FramesBeforeRender]_screenVars

\* A screen that shows an activity does not show it for ever: however runs
\* overlap, and whatever is closed and opened meanwhile, an outcome comes to be
\* shown or the user leaves, unless a connect() never settles.
BusyEnds == Busy ~> ~Busy \/ \E r \in Runs : runs[r].phase = "hung"
=============================================================================
