-------------------------- MODULE AlarmStateProofs --------------------------
(***************************************************************************)
(* Proofs about AlarmState, for every setting of the counts, every         *)
(* recording and close mode and, but for the assumptions a theorem makes,  *)
(* every environment.                                                      *)
(***************************************************************************)
EXTENDS AlarmState, TLAPS

\* The capture thread and the clients, without Connect and Reload, and the event
\* threads leave the alarm state alone
AlarmStateKept == UNCHANGED <<state, pre_alarm_count, alert_to_alarm_frame_count,
                              alarm_actions_fired>>

\* The other steps of Analyse do, too
LEMMA StepsKeepAlarmState ==
  ASSUME Retry \/ PublishScore \/ CloseDueEvent \/ KeepEvent \/ OpenEvent
           \/ NothingToOpen \/ Commit
  PROVE  AlarmStateKept
  BY DEF Retry, PublishScore, CloseDueEvent, KeepEvent, OpenEvent, NothingToOpen, Commit,
         AlarmStateKept, stateVars

\* The event threads, the clients and the capture loop do not touch the alarm state.
LEMMA OthersKeepAlarmState ==
  ASSUME \/ EventThreads \/ Clients
         \/ FirstPacket \/ CaptureFails \/ CloseMonitor \/ CheckState \/ CheckWake
         \/ PauseClosesEvent \/ Paused \/ Play \/ WakeExpires
         \/ \E s \in BOOLEAN : DecodeSignal(s)
  PROVE  AlarmStateKept
  BY DEF EventThreads, WriteFrame, WriteLastFrames, EventClosed, Clients, Trigger, Suspend,
         Resume, AutoResume, CheckAction, FirstPacket, CaptureFails, CloseMonitor,
         CheckState, CheckWake, PauseClosesEvent, Paused, Play, WakeExpires, DecodeSignal,
         CaptureStep, AlarmStateKept, stateVars

-----------------------------------------------------------------------------
(* The counters *)

\* What the counters need to stay in range: both properties are inductive
\* together with the types.
CountersInv ==
  /\ state \in {"IDLE", "PREALARM", "ALARM", "ALERT"}
  /\ pre_alarm_count \in Nat
  /\ alert_to_alarm_frame_count \in Int
  /\ AlertCountdown
  /\ PreAlarmCounts

\* A frame with a score keeps the countdown and the pre-alarm count in range.
LEMMA ScoredKeepsCounters ==
  ASSUME CountersInv, ScoredFrame
  PROVE  CountersInv'
  <1>1. CASE state \in {"IDLE", "PREALARM"}
    BY <1>1, CountsAssumption
    DEF ScoredFrame, CountersInv, AlertCountdown, PreAlarmCounts
  <1>2. CASE state = "ALERT"
    BY <1>2, CountsAssumption
    DEF ScoredFrame, CountersInv, AlertCountdown, PreAlarmCounts
  <1>3. CASE state = "ALARM"
    BY <1>3, CountsAssumption
    DEF ScoredFrame, CountersInv, AlertCountdown, PreAlarmCounts
  <1> QED BY <1>1, <1>2, <1>3 DEF CountersInv

\* So does a frame without one.
LEMMA QuietKeepsCounters ==
  ASSUME CountersInv, QuietFrame
  PROVE  CountersInv'
  BY CountsAssumption DEF QuietFrame, CountersInv, AlertCountdown, PreAlarmCounts

\* And every step that leaves the alarm state alone.
LEMMA KeptKeepsCounters ==
  ASSUME CountersInv, AlarmStateKept
  PROVE  CountersInv'
  BY DEF AlarmStateKept, CountersInv, AlertCountdown, PreAlarmCounts

\* The counters of Monitor::Analyse stay in range: pre_alarm_count below
\* alarm_frame_count, the countdown of an alert in 1 .. alarm_frame_count.
THEOREM CountersInvariant == Spec => []CountersInv
  <1>1. Init => CountersInv
    BY CountsAssumption DEF Init, CountersInv, AlertCountdown, PreAlarmCounts
  <1>2. CountersInv /\ [Next]_vars => CountersInv'
    <2> SUFFICES ASSUME CountersInv, [Next]_vars PROVE CountersInv'
      OBVIOUS
    <2>1. CASE \E p \in Packets : Sample(p)
      <3>1. /\ state' = state \/ state' = "IDLE"
            /\ UNCHANGED <<pre_alarm_count, alert_to_alarm_frame_count>>
        BY <2>1 DEF Sample
      <3> QED BY <3>1 DEF CountersInv, AlertCountdown, PreAlarmCounts
    <2>2. CASE UpdateState
      <3>1. CASE ScoredFrame
        BY <3>1, ScoredKeepsCounters
      <3>2. CASE QuietFrame
        BY <3>2, QuietKeepsCounters
      <3>3. CASE AlarmStateKept
        BY <3>3, KeptKeepsCounters
      <3> QED BY <2>2, <3>1, <3>2, <3>3 DEF UpdateState, AlarmStateKept
    <2>3. CASE Connect \/ \E mode \in CloseModes : Reload(mode)
      BY <2>3 DEF Connect, Reload, CountersInv, AlertCountdown, PreAlarmCounts
    <2>4. CASE Retry \/ PublishScore \/ CloseDueEvent \/ KeepEvent \/ OpenEvent
                 \/ NothingToOpen \/ Commit
      BY <2>4, StepsKeepAlarmState, KeptKeepsCounters
    <2>5. CASE \/ EventThreads \/ Clients
               \/ FirstPacket \/ CaptureFails \/ CloseMonitor \/ CheckState \/ CheckWake
               \/ PauseClosesEvent \/ Paused \/ Play \/ WakeExpires
               \/ \E s \in BOOLEAN : DecodeSignal(s)
      BY <2>5, OthersKeepAlarmState, KeptKeepsCounters
    <2>6. CASE UNCHANGED vars
      BY <2>6, KeptKeepsCounters DEF vars, stateVars, AlarmStateKept
    <2> QED BY <2>1, <2>2, <2>3, <2>4, <2>5, <2>6 DEF Next, Analyse, Capture
  <1> QED BY <1>1, <1>2, PTL DEF Spec

\* The countdown from alert back to alarm is never 0 or less in an alert: the
\* test for 0 in Analyse is always met by the last of the frames it waits for.
THEOREM AlertCountdownAlways == Spec => []AlertCountdown
  <1>1. CountersInv => AlertCountdown
    BY DEF CountersInv
  <1> QED BY <1>1, CountersInvariant, PTL

\* The pre-alarm count stays below alarm_frame_count, whichever of the resets
\* that ways to IDLE leave out come together.
THEOREM PreAlarmCountsAlways == Spec => []PreAlarmCounts
  <1>1. CountersInv => PreAlarmCounts
    BY DEF CountersInv
  <1> QED BY <1>1, CountersInvariant, PTL

-----------------------------------------------------------------------------
(* The actions of an alarm *)

\* Without failures and reloads the capture thread connects once, when there
\* has been no alarm, so the way to IDLE in connect does no harm.
ActionsInv ==
  /\ alarm_actions_fired \in BOOLEAN
  /\ state \in {"IDLE", "PREALARM", "ALARM", "ALERT"}
  /\ ActionsMatchAlarm
  /\ capture \notin {"failed", "closing"}
  /\ capture = "down" => state = "IDLE"

InAlarm == state \in {"ALARM", "ALERT"}

\* The ways the two variables may change together
ActionsStep ==
  \/ InAlarm' /\ alarm_actions_fired' = TRUE
  \/ ~InAlarm' /\ alarm_actions_fired' = FALSE
  \/ (InAlarm' <=> InAlarm) /\ alarm_actions_fired' = alarm_actions_fired

\* Firing on entry and clearing on exit keeps the flag equal to being in alarm.
LEMMA ActionsStepKeeps ==
  ASSUME ActionsMatchAlarm, alarm_actions_fired \in BOOLEAN, ActionsStep
  PROVE  ActionsMatchAlarm' /\ alarm_actions_fired' \in BOOLEAN
  <1>1. CASE InAlarm' /\ alarm_actions_fired' = TRUE
    BY <1>1, Zenon DEF ActionsMatchAlarm, InAlarm
  <1>2. CASE ~InAlarm' /\ alarm_actions_fired' = FALSE
    BY <1>2, Zenon DEF ActionsMatchAlarm, InAlarm
  <1>3. CASE (InAlarm' <=> InAlarm) /\ alarm_actions_fired' = alarm_actions_fired
    BY <1>3, Zenon DEF ActionsMatchAlarm, InAlarm
  <1> QED BY <1>1, <1>2, <1>3 DEF ActionsStep

\* A frame with a score fires the alarm actions where it enters ALARM.
LEMMA ScoredKeepsActions ==
  ASSUME ActionsInv, ScoredFrame
  PROVE  /\ alarm_actions_fired' \in BOOLEAN
         /\ state' \in {"IDLE", "PREALARM", "ALARM", "ALERT"}
         /\ ActionsMatchAlarm'
  <1>1. ActionsStep /\ state' \in {"IDLE", "PREALARM", "ALARM", "ALERT"}
    BY DEF ScoredFrame, ActionsStep, InAlarm
  <1> QED BY <1>1, ActionsStepKeeps DEF ActionsInv

\* A frame without one only ends an alarm it clears the flag for.
LEMMA QuietKeepsActions ==
  ASSUME ActionsInv, QuietFrame
  PROVE  /\ alarm_actions_fired' \in BOOLEAN
         /\ state' \in {"IDLE", "PREALARM", "ALARM", "ALERT"}
         /\ ActionsMatchAlarm'
  <1>1. ActionsStep /\ state' \in {"IDLE", "PREALARM", "ALARM", "ALERT"}
    BY DEF QuietFrame, EndAlarmActions, ActionsStep, InAlarm
  <1> QED BY <1>1, ActionsStepKeeps DEF ActionsInv

\* A packet in work needs a connected monitor
LEMMA KeptKeepsActions ==
  ASSUME ActionsInv, AlarmStateKept, capture' = capture
  PROVE  ActionsInv'
  BY DEF AlarmStateKept, ActionsInv, ActionsMatchAlarm

\* As long as the capture daemon neither fails nor reloads, the actions of an
\* alarm are on exactly during ALARM and ALERT: every way Analyse leaves the
\* alarm calls EndAlarmActions.
THEOREM ActionsMatchAlarmAlways ==
  ASSUME "fail" \notin Environment, "reload" \notin Environment
  PROVE  Spec => []ActionsMatchAlarm
  <1> DEFINE Inv == ActionsInv /\ (step # "idle" => capture # "down")
  <1>1. Init => Inv
    BY DEF Init, ActionsInv, ActionsMatchAlarm
  <1>2. Inv /\ [Next]_vars => Inv'
    <2> SUFFICES ASSUME Inv, [Next]_vars PROVE Inv'
      OBVIOUS
    <2>1. CASE \E p \in Packets : Sample(p)
      <3>1. /\ \/ state' = "IDLE" /\ alarm_actions_fired' = FALSE
               \/ UNCHANGED <<state, alarm_actions_fired>>
            /\ capture' = capture /\ capture # "down"
        BY <2>1 DEF Sample, EndAlarmActions, Capturing
      <3>2. ActionsStep
        BY <3>1 DEF ActionsStep, InAlarm
      <3>3. ActionsMatchAlarm' /\ alarm_actions_fired' \in BOOLEAN
        BY <3>2, ActionsStepKeeps DEF ActionsInv
      <3>4. state' \in {"IDLE", "PREALARM", "ALARM", "ALERT"}
        BY <3>1 DEF ActionsInv
      <3> QED BY <3>1, <3>3, <3>4 DEF ActionsInv
    <2>2. CASE UpdateState
      <3>1. capture' = capture /\ capture # "down"
        BY <2>2 DEF UpdateState
      <3>2. CASE ScoredFrame
        BY <3>1, <3>2, ScoredKeepsActions DEF ActionsInv
      <3>3. CASE QuietFrame
        BY <3>1, <3>3, QuietKeepsActions DEF ActionsInv
      <3>4. CASE AlarmStateKept
        BY <3>1, <3>4, KeptKeepsActions
      <3> QED BY <2>2, <3>2, <3>3, <3>4 DEF UpdateState, AlarmStateKept
    <2>3. CASE Connect
      BY <2>3 DEF Connect, ActionsInv, ActionsMatchAlarm
    <2>4. CASE \E mode \in CloseModes : Reload(mode)
      BY <2>4 DEF Reload
    <2>5. CASE Retry \/ PublishScore \/ CloseDueEvent \/ KeepEvent \/ OpenEvent
                 \/ NothingToOpen \/ Commit
      <3>1. capture' = capture /\ (step # "idle")
        BY <2>5 DEF Retry, PublishScore, CloseDueEvent, KeepEvent, OpenEvent, NothingToOpen,
                    Commit
      <3> QED BY <2>5, <3>1, StepsKeepAlarmState, KeptKeepsActions
    <2>6. CASE EventThreads \/ Clients \/ PauseClosesEvent \/ WakeExpires
                 \/ \E s \in BOOLEAN : DecodeSignal(s)
      <3>1. capture' = capture /\ step' = step
        BY <2>6 DEF EventThreads, WriteFrame, WriteLastFrames, EventClosed, Clients, Trigger,
                    Suspend, Resume, AutoResume, CheckAction, PauseClosesEvent, WakeExpires,
                    DecodeSignal
      <3>2. AlarmStateKept
        BY <2>6, OthersKeepAlarmState
      <3> QED BY <3>1, <3>2, KeptKeepsActions
    <2>7. CASE FirstPacket \/ CaptureFails \/ CloseMonitor \/ CheckState \/ CheckWake
                 \/ Paused \/ Play
      <3>1. /\ capture' \notin {"failed", "closing", "down"}
            /\ step' = step
        BY <2>7 DEF FirstPacket, CaptureFails, CloseMonitor, CheckState, CheckWake, Paused,
                    Play, CaptureStep, ActionsInv
      <3>2. AlarmStateKept
        BY <2>7, OthersKeepAlarmState
      <3> QED BY <3>1, <3>2 DEF AlarmStateKept, ActionsInv, ActionsMatchAlarm
    <2>8. CASE UNCHANGED vars
      BY <2>8 DEF vars, stateVars, ActionsInv, ActionsMatchAlarm
    <2> QED BY <2>1, <2>2, <2>3, <2>4, <2>5, <2>6, <2>7, <2>8 DEF Next, Analyse, Capture
  <1>3. Inv => ActionsMatchAlarm
    BY DEF ActionsInv
  <1> QED BY <1>1, <1>2, <1>3, PTL DEF Spec

-----------------------------------------------------------------------------
(* Types *)

OpenEvents == [open: {TRUE}, unwritten: Seq(BOOLEAN), written: 0 .. Longest,
               alarm_frames: 0 .. alarm_frame_count + 1, for_alarm: BOOLEAN,
               alarms: 0 .. 2]

\* A saturating counter stays below its limit.
LEMMA UpToType ==
  ASSUME NEW limit \in Nat, NEW n \in Nat
  PROVE  UpTo(limit, n) \in 0 .. limit
  BY DEF UpTo

\* The bounds of the saturating counters are numbers.
LEMMA BoundsType == Back \in Nat /\ Back > 0 /\ Longest \in Nat /\ Enough \in Nat
  <1> DEFINE S == {pre_event_count, alarm_frame_count}
  <1>1. \E x \in S : \A y \in S : x >= y
    BY CountsAssumption
  <1>2. Max(S) \in S /\ \A y \in S : Max(S) >= y
    BY <1>1 DEF Max
  <1>3. Back \in Nat /\ Back > 0
    BY <1>2, CountsAssumption DEF Back
  <1> QED BY <1>3, CountsAssumption, SectionAssumption DEF Longest, Enough

\* A new event is an open event.
LEMMA OpenedType ==
  ASSUME NEW scores \in Seq(BOOLEAN)
  PROVE  Opened(scores) \in OpenEvents
  BY BoundsType, CountsAssumption DEF Opened, OpenEvents

\* An event record is closed or one of the open events.
LEMMA EventIsOpen ==
  ASSUME NEW e \in Event
  PROVE  /\ e.open \in BOOLEAN
         /\ e.open => e \in OpenEvents
         /\ ~e.open => e = None
  <1>1. CASE e = None
    <2>1. e.open = FALSE
      BY <1>1 DEF None
    <2> QED BY <1>1, <2>1
  <1>2. CASE e \in OpenEvents
    <2>1. e.open = TRUE
      BY <1>2 DEF OpenEvents
    <2> QED BY <1>2, <2>1
  <1> QED BY <1>1, <1>2 DEF Event, OpenEvents

\* The event's thread leaves an open event when it writes a packet.
LEMMA WrittenType ==
  ASSUME NEW e \in OpenEvents, e.unwritten # <<>>
  PROVE  Written(e) \in OpenEvents
  <1>1. Tail(e.unwritten) \in Seq(BOOLEAN)
    BY DEF OpenEvents
  <1>2. UpTo(Longest, e.written + 1) \in 0 .. Longest
    <2>1. e.written + 1 \in Nat
      BY BoundsType DEF OpenEvents
    <2> QED BY <2>1, BoundsType, UpToType
  <1>3. UpTo(alarm_frame_count + 1, e.alarm_frames + 1) \in 0 .. alarm_frame_count + 1
    <2>1. e.alarm_frames + 1 \in Nat /\ alarm_frame_count + 1 \in Nat
      BY CountsAssumption DEF OpenEvents
    <2> QED BY <2>1, UpToType
  <1> QED BY <1>1, <1>2, <1>3 DEF Written, OpenEvents

\* The open event and what goes into it
EventInv ==
  /\ event \in Event
  /\ window \in Seq(BOOLEAN)
  /\ frame.scored \in BOOLEAN

\* No event at all is an event record too.
LEMMA NoneIsEvent == None \in Event /\ OpenEvents \subseteq Event
  BY DEF Event, OpenEvents

\* The empty queue of an event's thread.
LEMMA EmptyIsSeq == <<>> \in Seq(BOOLEAN)
  OBVIOUS

\* Counting an alarm leaves the event open or closed as it was.
LEMMA CountAlarmEvent ==
  ASSUME EventInv, CountAlarm
  PROVE  /\ event' \in Event
         /\ event'.open <=> event.open
  <1>1. CASE event' = event
    BY <1>1 DEF EventInv
  <1>2. CASE event.open /\ event' = [event EXCEPT !.alarms = UpTo(2, @ + 1)]
    <2>1. event \in OpenEvents
      BY <1>2, EventIsOpen DEF EventInv
    <2>2. UpTo(2, event.alarms + 1) \in 0 .. 2
      <3>1. event.alarms + 1 \in Nat
        BY <2>1 DEF OpenEvents
      <3> QED BY <3>1, UpToType
    <2>3. event' \in OpenEvents /\ event'.open = event.open
      BY <1>2, <2>1, <2>2 DEF OpenEvents
    <2> QED BY <2>3, NoneIsEvent
  <1> QED BY <1>1, <1>2 DEF CountAlarm

\* So does handing a packet to the event's thread.
LEMMA CommitEvent ==
  ASSUME EventInv, Commit
  PROVE  /\ EventInv'
         /\ event'.open <=> event.open
  <1>1. frame'.scored = FALSE
    BY DEF Commit, NoFrame
  <1>2. window' \in Seq(BOOLEAN)
    <2>1. Append(window, frame.scored) \in Seq(BOOLEAN) /\ Append(window, frame.scored) # <<>>
      BY DEF EventInv
    <2>2. Tail(Append(window, frame.scored)) \in Seq(BOOLEAN)
      BY <2>1
    <2> QED BY <2>1, <2>2 DEF Commit, EventInv
  <1>3. event' \in Event /\ (event'.open <=> event.open)
    <2>1. CASE event' = event
      BY <2>1 DEF EventInv
    <2>2. CASE event.open /\ event' = [event EXCEPT !.unwritten = Append(@, frame.scored)]
      <3>1. event \in OpenEvents
        BY <2>2, EventIsOpen DEF EventInv
      <3>2. Append(event.unwritten, frame.scored) \in Seq(BOOLEAN)
        BY <3>1 DEF OpenEvents, EventInv
      <3>3. event' \in OpenEvents /\ event'.open = event.open
        BY <2>2, <3>1, <3>2 DEF OpenEvents
      <3> QED BY <3>3, NoneIsEvent
    <2> QED BY <2>1, <2>2 DEF Commit, WithPacket
  <1> QED BY <1>1, <1>2, <1>3 DEF EventInv

\* So does its thread when it writes one.
LEMMA WriteFrameEvent ==
  ASSUME EventInv, WriteFrame
  PROVE  /\ EventInv'
         /\ event'.open <=> event.open
  <1>1. event \in OpenEvents /\ event.unwritten # <<>> /\ event' = Written(event)
    BY EventIsOpen DEF WriteFrame, EventInv
  <1>2. event' \in OpenEvents
    BY <1>1, WrittenType
  <1>3. event'.open = TRUE /\ event.open = TRUE
    BY <1>1, <1>2 DEF OpenEvents
  <1> QED BY <1>2, <1>3, NoneIsEvent DEF EventInv, WriteFrame

\* openEvent leaves an open event, unless the monitor is being stopped.
LEMMA OpenEventEvent ==
  ASSUME EventInv, OpenEvent
  PROVE  /\ EventInv'
         /\ ~Stopping => event'.open
  <1>1. CASE UNCHANGED event /\ Stopping
    BY <1>1 DEF EventInv, OpenEvent
  <1>2. CASE \E scores \in {window, <<>>} : event' = Opened(scores)
    <2>1. PICK scores \in {window, <<>>} : event' = Opened(scores)
      BY <1>2
    <2>2. scores \in Seq(BOOLEAN)
      BY <2>1, EmptyIsSeq, Zenon DEF EventInv
    <2>3. event' \in OpenEvents
      BY <2>1, <2>2, OpenedType
    <2>4. event'.open = TRUE
      BY <2>3 DEF OpenEvents
    <2> QED BY <2>3, <2>4, NoneIsEvent DEF EventInv, OpenEvent
  <1> QED BY <1>1, <1>2 DEF OpenEvent

-----------------------------------------------------------------------------
(* An alarm is recorded *)

Resting == step \notin {"events", "open"}
Attached == Capturing \/ capture = "primed"

\* Outside the steps that close and open events an alarm has an event.  Without
\* capture on demand the monitor gets out of Close only through connect, which
\* makes it IDLE, and Analyse works on nothing meanwhile.
RecordedInv ==
  /\ state = "ALARM" /\ Recording # "none" /\ Attached /\ Resting => event.open
  /\ capture \notin {"checking", "pausing", "paused"}
  /\ capture \in {"down", "primed"} => step = "idle"

\* As long as the monitor does not capture on demand, an alarm of a monitor
\* that records always has an event, whatever closes events, fails or reloads.
THEOREM AlarmIsRecordedAlways ==
  ASSUME "ondemand" \notin Environment
  PROVE  Spec => []AlarmIsRecorded
  <1> DEFINE Inv == EventInv /\ RecordedInv
  <1>1. Init => Inv
    BY NoneIsEvent DEF Init, NoFrame, EventInv, RecordedInv
  <1>2. Inv /\ [Next]_vars => Inv'
    <2> SUFFICES ASSUME Inv, [Next]_vars PROVE Inv'
      OBVIOUS
    <2>1. CASE \E p \in Packets : Sample(p)
      <3>1. PICK p \in Packets : Sample(p)
        BY <2>1
      <3>2. \/ event' = event /\ state' = state
            \/ event' \in {event, None} /\ state' = "IDLE"
        BY <3>1 DEF Sample, Close
      <3>3. frame'.scored \in BOOLEAN
        BY <3>1 DEF Sample
      <3>4. window' = window /\ capture' = capture /\ step = "idle" /\ Capturing
        BY <3>1 DEF Sample
      <3>5. EventInv'
        BY <3>2, <3>3, <3>4, NoneIsEvent DEF EventInv
      <3> QED BY <3>2, <3>4, <3>5 DEF RecordedInv, Resting, Attached, Capturing
    <2>2. CASE UpdateState
      <3>1. EventInv'
        BY <2>2, CountAlarmEvent DEF UpdateState, EventInv
      <3> QED BY <2>2, <3>1 DEF UpdateState, RecordedInv, Resting
    <2>3. CASE CloseDueEvent \/ KeepEvent
      <3>1. EventInv'
        BY <2>3, NoneIsEvent DEF CloseDueEvent, KeepEvent, Close, EventInv, eventVars
      <3> QED BY <2>3, <3>1 DEF CloseDueEvent, KeepEvent, RecordedInv, Resting
    <2>4. CASE OpenEvent
      <3>1. EventInv' /\ (~Stopping => event'.open)
        BY <2>4, OpenEventEvent
      <3> QED BY <2>4, <3>1 DEF OpenEvent, RecordedInv, Attached, Capturing, Stopping
    <2>5. CASE NothingToOpen
      <3>1. event.open \/ state # "ALARM" \/ Recording = "none"
        BY <2>5, ModesAssumption DEF NothingToOpen, EventWanted
      <3> QED BY <2>5, <3>1
              DEF NothingToOpen, EventInv, RecordedInv, Attached, Capturing, stateVars, eventVars
    <2>6. CASE Commit
      <3>1. EventInv' /\ (event'.open <=> event.open)
        BY <2>6, CommitEvent
      <3> QED BY <2>6, <3>1 DEF Commit, RecordedInv, Resting, Attached, Capturing
    <2>7. CASE Retry \/ PublishScore
      <3>1. frame' = frame \/ frame'.scored = FALSE
        BY <2>7 DEF Retry, PublishScore, NoFrame
      <3>2. UNCHANGED <<event, window, state, capture>> /\ Resting /\ Resting'
              /\ capture \notin {"down", "primed"}
        BY <2>7 DEF Retry, PublishScore, RecordedInv, Resting, stateVars, eventVars
      <3>3. EventInv'
        BY <3>1, <3>2 DEF EventInv
      <3> QED BY <3>2, <3>3 DEF RecordedInv, Attached, Capturing
    <2>8. CASE WriteFrame
      <3>1. EventInv' /\ (event'.open <=> event.open)
        BY <2>8, WriteFrameEvent
      <3> QED BY <2>8, <3>1 DEF WriteFrame, RecordedInv, Resting, Attached, Capturing, stateVars
    <2>9. CASE \/ WriteLastFrames \/ EventClosed \/ Clients \/ WakeExpires
               \/ \E s \in BOOLEAN : DecodeSignal(s)
      <3>1. UNCHANGED <<event, window, frame, state, capture, step>>
        BY <2>9 DEF WriteLastFrames, EventClosed, Clients, Trigger, Suspend, Resume,
                    AutoResume, CheckAction, WakeExpires, DecodeSignal, stateVars, eventVars
      <3> QED BY <3>1 DEF EventInv, RecordedInv, Resting, Attached, Capturing
    <2>10. CASE Connect \/ \E mode \in CloseModes : Reload(mode)
      BY <2>10 DEF Connect, Reload, EventInv, RecordedInv, Resting, Attached, Capturing,
                   eventVars
    <2>11. CASE PauseClosesEvent
      BY <2>11, NoneIsEvent DEF PauseClosesEvent, Close, EventInv, RecordedInv, Attached,
                                Capturing, Stopping, stateVars
    <2>12. CASE FirstPacket \/ CaptureFails \/ CloseMonitor \/ Paused
      <3>1. /\ (Attached /\ Attached') \/ ~Attached'
            /\ capture' \notin {"checking", "pausing", "paused"}
            /\ capture' \in {"down", "primed"} => step = "idle"
            /\ window' \in {window, <<>>}
            /\ UNCHANGED <<event, frame, state, step>>
        BY <2>12 DEF FirstPacket, CaptureFails, CloseMonitor, Paused, CaptureStep, Attached,
                     Capturing, RecordedInv, stateVars, eventVars
      <3>2. window' \in Seq(BOOLEAN)
        BY <3>1, EmptyIsSeq, Zenon DEF EventInv
      <3> QED BY <3>1, <3>2 DEF EventInv, RecordedInv, Resting
    <2>13. CASE CheckState \/ CheckWake \/ Play
      BY <2>13 DEF CheckState, CheckWake, Play, CaptureStep, RecordedInv
    <2>14. CASE UNCHANGED vars
      BY <2>14 DEF vars, stateVars, eventVars, EventInv, RecordedInv, Resting, Attached,
                   Capturing
    <2> QED BY <2>1, <2>2, <2>3, <2>4, <2>5, <2>6, <2>7, <2>8, <2>9, <2>10, <2>11, <2>12,
               <2>13, <2>14
            DEF Next, Analyse, EventThreads, Capture
  <1>3. Inv => AlarmIsRecorded
    BY DEF RecordedInv, AlarmIsRecorded, Resting, Attached
  <1> QED BY <1>1, <1>2, <1>3, PTL DEF Spec

-----------------------------------------------------------------------------
(* Every variable keeps its type *)

Frames == [video: BOOLEAN, measured: BOOLEAN, boundary: BOOLEAN, scored: BOOLEAN,
           wake: BOOLEAN, cause: BOOLEAN]

\* The parts of the type invariant that the threads change apart from each other
StateTypes ==
  /\ state \in {"IDLE", "PREALARM", "ALARM", "ALERT"}
  /\ pre_alarm_count \in Nat /\ alert_to_alarm_frame_count \in Int
  /\ alarm_actions_fired \in BOOLEAN
SharedTypes ==
  /\ signal \in BOOLEAN /\ last_signal \in BOOLEAN
  /\ trigger \in {"CANCEL", "ON", "OFF"}
  /\ analysing \in BOOLEAN /\ auto_resume \in BOOLEAN /\ linked_wake \in BOOLEAN
CountTypes == since_alarm \in 0 .. Enough /\ analysed \in 0 .. Enough
WindowTypes == window \in Seq(BOOLEAN) /\ Len(window) <= Back
EventTypes == event \in Event /\ closing \in Event
SettingTypes == event_close_mode \in CloseModes /\ min_section_length \in Nat
PlaceTypes ==
  /\ frame \in Frames
  /\ step \in {"idle", "score", "state", "events", "open", "commit"}
  /\ capture \in {"down", "primed", "running", "checking", "failed", "pausing",
                  "closing", "paused"}

\* They are the type invariant
LEMMA TypeParts ==
  TypeOK <=> /\ StateTypes /\ SharedTypes /\ CountTypes /\ WindowTypes /\ EventTypes
             /\ SettingTypes /\ PlaceTypes
  BY Zenon DEF TypeOK, StateTypes, SharedTypes, CountTypes, WindowTypes, EventTypes,
         SettingTypes, PlaceTypes, Frames

\* The parts make up the type invariant of the next state too.
LEMMA TypePartsNext ==
  TypeOK' <=> /\ StateTypes' /\ SharedTypes' /\ CountTypes' /\ WindowTypes' /\ EventTypes'
              /\ SettingTypes' /\ PlaceTypes'
  BY Zenon DEF TypeOK, StateTypes, SharedTypes, CountTypes, WindowTypes, EventTypes,
         SettingTypes, PlaceTypes, Frames

\* A packet that is analysed leaves an event an event: it is one more that the
\* event's thread has to write
LEMMA WithPacketType ==
  ASSUME NEW e \in Event, NEW score \in BOOLEAN
  PROVE  WithPacket(e, score) \in Event
  <1>1. CASE ~e.open
    BY <1>1 DEF WithPacket
  <1>2. CASE e.open
    <2>1. e \in OpenEvents
      BY <1>2, EventIsOpen
    <2>2. Append(e.unwritten, score) \in Seq(BOOLEAN)
      BY <2>1 DEF OpenEvents
    <2>3. [e EXCEPT !.unwritten = Append(@, score)] \in OpenEvents
      BY <2>1, <2>2 DEF OpenEvents
    <2> QED BY <1>2, <2>3, NoneIsEvent DEF WithPacket
  <1> QED BY <1>1, <1>2

\* Writing a frame leaves an event an event
LEMMA WrittenIsEvent ==
  ASSUME NEW e \in Event, e.open, e.unwritten # <<>>
  PROVE  Written(e) \in Event
  BY EventIsOpen, WrittenType, NoneIsEvent

\* closeEvent hands the event over whole
LEMMA CloseTypes ==
  ASSUME EventTypes, Close
  PROVE  EventTypes'
  BY NoneIsEvent DEF EventTypes, Close

\* The frames openEvent starts from: the window, or none
LEMMA MinSectionType ==
  ASSUME NEW scores \in Seq(BOOLEAN), min_section_length \in Nat
  PROVE  MinSectionFor(scores) \in Nat
  BY DEF MinSectionFor

\* The window of pre-event frames is as long as openEvent can ask for
LEMMA WindowSlides ==
  ASSUME NEW w \in Seq(BOOLEAN), Len(w) <= Back, NEW score \in BOOLEAN,
         NEW x, x = IF Len(Append(w, score)) > Back
                      THEN Tail(Append(w, score)) ELSE Append(w, score)
  PROVE  x \in Seq(BOOLEAN) /\ Len(x) <= Back
  <1>1. Append(w, score) \in Seq(BOOLEAN) /\ Len(Append(w, score)) = Len(w) + 1
    OBVIOUS
  <1>2. Append(w, score) # <<>>
    BY <1>1
  <1>3. Tail(Append(w, score)) \in Seq(BOOLEAN) /\ Len(Tail(Append(w, score))) = Len(w)
    BY <1>1, <1>2
  <1>4. Len(w) \in Nat /\ Back \in Nat
    BY BoundsType
  <1> HIDE DEF Back
  <1>5. CASE Len(Append(w, score)) > Back
    BY <1>3, <1>5
  <1>6. CASE ~(Len(Append(w, score)) > Back)
    BY <1>1, <1>4, <1>6
  <1> QED BY <1>5, <1>6

\* A frame with a score keeps the types of the alarm state.
LEMMA ScoredTypes ==
  ASSUME StateTypes, ScoredFrame
  PROVE  StateTypes'
  <1>1. alarm_actions_fired' = TRUE \/ alarm_actions_fired' = alarm_actions_fired
    BY DEF ScoredFrame
  <1>2. alarm_actions_fired' \in BOOLEAN
    BY <1>1, Zenon DEF StateTypes
  <1>3. state' \in {"IDLE", "PREALARM", "ALARM", "ALERT"}
    BY DEF ScoredFrame, StateTypes
  <1>4. pre_alarm_count' \in Nat /\ alert_to_alarm_frame_count' \in Int
    BY DEF ScoredFrame, StateTypes
  <1> QED BY <1>2, <1>3, <1>4 DEF StateTypes

\* So does a frame without one.
LEMMA QuietTypes ==
  ASSUME StateTypes, QuietFrame
  PROVE  StateTypes'
  <1>1. alarm_actions_fired' = FALSE \/ alarm_actions_fired' = alarm_actions_fired
    BY DEF QuietFrame, EndAlarmActions
  <1>2. alarm_actions_fired' \in BOOLEAN
    BY <1>1, Zenon DEF StateTypes
  <1>3. state' \in {"IDLE", "PREALARM", "ALARM", "ALERT"}
    BY DEF QuietFrame, StateTypes
  <1>4. pre_alarm_count' \in Nat /\ alert_to_alarm_frame_count' \in Int
    BY CountsAssumption DEF QuietFrame
  <1> QED BY <1>2, <1>3, <1>4 DEF StateTypes

\* Every variable keeps its type, whatever the settings of the monitor and
\* whatever happens around it: the saturating counts stay within their bounds,
\* the window within what openEvent asks for, and the events handed over to
\* close_event_thread stay events.
THEOREM AlarmTypes == Spec => []TypeOK
  <1>1. Init => TypeOK
    <2> SUFFICES ASSUME Init PROVE TypeOK
      OBVIOUS
    <2>1. StateTypes
      <3>1. /\ state = "IDLE" /\ pre_alarm_count = 0 /\ alert_to_alarm_frame_count = 0
            /\ alarm_actions_fired = FALSE
        BY Zenon DEF Init
      <3>2. alarm_actions_fired \in BOOLEAN
        BY <3>1, Zenon
      <3> QED BY <3>1, <3>2 DEF StateTypes
    <2>6. SharedTypes
      BY EnvironmentAssumption, Zenon DEF Init, SharedTypes
    <2>2. CountTypes /\ SettingTypes
      BY BoundsType, SectionAssumption DEF Init, CountTypes, SettingTypes
    <2>3. WindowTypes
      BY BoundsType, EmptyIsSeq DEF Init, WindowTypes
    <2>4. EventTypes
      BY NoneIsEvent DEF Init, EventTypes
    <2>5. PlaceTypes
      BY DEF Init, PlaceTypes, NoFrame, Frames
    <2> QED BY <2>1, <2>2, <2>3, <2>4, <2>5, <2>6, TypeParts
  <1>2. TypeOK /\ [Next]_vars => TypeOK'
    <2> SUFFICES ASSUME TypeOK, [Next]_vars PROVE TypeOK'
      OBVIOUS
    <2> /\ StateTypes /\ SharedTypes /\ CountTypes /\ WindowTypes /\ EventTypes
        /\ SettingTypes /\ PlaceTypes
      BY TypeParts
    <2>1. CASE \E p \in Packets : Sample(p)
      <3>1. PICK p \in Packets : Sample(p)
        BY <2>1
      <3>2. /\ \/ UNCHANGED <<state, alarm_actions_fired>>
               \/ state' = "IDLE" /\ alarm_actions_fired' = FALSE
            /\ UNCHANGED <<pre_alarm_count, alert_to_alarm_frame_count, since_alarm, signal,
                           trigger, analysing, min_section_length, analysed, auto_resume,
                           linked_wake, event_close_mode, window, capture>>
            /\ last_signal' = signal
            /\ Close \/ UNCHANGED <<event, closing>>
        BY <3>1 DEF Sample, EndAlarmActions, sharedVars
      <3>3. EventTypes'
        BY <3>2, CloseTypes DEF EventTypes
      <3>4. StateTypes' /\ SharedTypes' /\ CountTypes' /\ WindowTypes' /\ SettingTypes'
        BY <3>2 DEF StateTypes, SharedTypes, CountTypes, WindowTypes, SettingTypes
      <3>5. p.video \in BOOLEAN /\ p.measured \in BOOLEAN /\ p.boundary \in BOOLEAN
        BY DEF Packets
      <3>6. frame' \in Frames /\ step' \in {"commit", "score"}
        BY <3>1, <3>5 DEF Sample, Frames
      <3>7. PlaceTypes'
        BY <3>2, <3>6 DEF PlaceTypes
      <3> QED BY <3>3, <3>4, <3>7, TypePartsNext
    <2>2. CASE Retry \/ PublishScore \/ KeepEvent \/ NothingToOpen
      <3>1. frame' \in {frame, NoFrame} /\ step' \in {"idle", "state", "open", "commit"}
        BY <2>2 DEF Retry, PublishScore, KeepEvent, NothingToOpen
      <3>2. linked_wake' \in BOOLEAN
        BY <2>2 DEF Retry, PublishScore, KeepEvent, NothingToOpen, SharedTypes
      <3>3. UNCHANGED <<stateVars, sharedVars, eventVars, analysed, last_signal, auto_resume,
                        event_close_mode, window, capture>>
        BY <2>2 DEF Retry, PublishScore, KeepEvent, NothingToOpen
      <3>6. NoFrame \in Frames
        BY DEF NoFrame, Frames
      <3>7. frame' \in Frames
        BY <3>1, <3>6, Zenon DEF PlaceTypes
      <3>4. PlaceTypes'
        BY <3>1, <3>3, <3>7 DEF PlaceTypes
      <3>5. StateTypes' /\ SharedTypes' /\ CountTypes' /\ WindowTypes' /\ EventTypes'
              /\ SettingTypes'
        BY <3>2, <3>3 DEF StateTypes, SharedTypes, CountTypes, WindowTypes, EventTypes,
                          SettingTypes, stateVars, sharedVars, eventVars
      <3> QED BY <3>4, <3>5, TypePartsNext
    <2>3. CASE UpdateState
      <3>1. StateTypes'
        BY <2>3, ScoredTypes, QuietTypes DEF UpdateState, StateTypes
      <3>2. CountTypes'
        BY <2>3, BoundsType DEF UpdateState, SinceAlarm, CountTypes
      <3>3. EventInv
        BY DEF EventInv, EventTypes, WindowTypes, PlaceTypes, Frames
      <3>4. EventTypes'
        BY <2>3, <3>3, CountAlarmEvent DEF UpdateState, EventTypes
      <3>5. SharedTypes' /\ WindowTypes' /\ SettingTypes' /\ PlaceTypes'
        BY <2>3 DEF UpdateState, SharedTypes, WindowTypes, SettingTypes, PlaceTypes, sharedVars
      <3> QED BY <3>1, <3>2, <3>4, <3>5, TypePartsNext
    <2>4. CASE CloseDueEvent \/ PauseClosesEvent
      <3>1. EventTypes'
        BY <2>4, CloseTypes DEF CloseDueEvent, PauseClosesEvent
      <3>2. StateTypes' /\ SharedTypes' /\ CountTypes' /\ WindowTypes' /\ SettingTypes'
              /\ PlaceTypes'
        BY <2>4 DEF CloseDueEvent, PauseClosesEvent, StateTypes, SharedTypes, CountTypes,
                    WindowTypes, SettingTypes, PlaceTypes, stateVars, sharedVars
      <3> QED BY <3>1, <3>2, TypePartsNext
    <2>5. CASE OpenEvent
      <3>1. EventInv
        BY DEF EventInv, EventTypes, WindowTypes, PlaceTypes, Frames
      <3>2. EventTypes'
        BY <2>5, <3>1, OpenEventEvent DEF OpenEvent, EventTypes, EventInv
      <3>3. \/ min_section_length' = min_section_length
            \/ \E scores \in {window, <<>>} : min_section_length' = MinSectionFor(scores)
        BY <2>5 DEF OpenEvent
      <3>4. \A scores \in {window, <<>>} : scores \in Seq(BOOLEAN)
        BY EmptyIsSeq, Zenon DEF WindowTypes
      <3>5. SettingTypes'
        BY <2>5, <3>3, <3>4, MinSectionType DEF OpenEvent, SettingTypes
      <3>6. StateTypes' /\ SharedTypes' /\ CountTypes' /\ WindowTypes' /\ PlaceTypes'
        BY <2>5 DEF OpenEvent, StateTypes, SharedTypes, CountTypes, WindowTypes, PlaceTypes,
                    stateVars, sharedVars
      <3> QED BY <3>2, <3>5, <3>6, TypePartsNext
    <2>6. CASE Commit
      <3>1. frame.scored \in BOOLEAN
        BY DEF PlaceTypes, Frames
      <3>2. EventTypes'
        BY <2>6, <3>1, WithPacketType DEF Commit, EventTypes
      <3>3. WindowTypes'
        BY <2>6, <3>1, WindowSlides DEF Commit, WindowTypes
      <3>4. CountTypes'
        <4>1. since_alarm + 1 \in Nat /\ analysed + 1 \in Nat
          BY BoundsType DEF CountTypes
        <4>2. UpTo(Enough, since_alarm + 1) \in 0 .. Enough
                /\ UpTo(Enough, analysed + 1) \in 0 .. Enough
          BY <4>1, BoundsType, UpToType
        <4> QED BY <2>6, <4>2 DEF Commit, CountTypes
      <3>5. PlaceTypes'
        BY <2>6 DEF Commit, PlaceTypes, NoFrame, Frames
      <3>6. StateTypes' /\ SharedTypes' /\ SettingTypes'
        BY <2>6 DEF Commit, StateTypes, SharedTypes, SettingTypes, sharedVars
      <3> QED BY <3>2, <3>3, <3>4, <3>5, <3>6, TypePartsNext
    <2>7. CASE EventThreads
      <3>1. EventTypes'
        <4>1. CASE WriteFrame
          BY <4>1, WrittenIsEvent DEF WriteFrame, EventTypes
        <4>2. CASE WriteLastFrames
          BY <4>2, WrittenIsEvent DEF WriteLastFrames, EventTypes
        <4>3. CASE EventClosed
          BY <4>3, NoneIsEvent DEF EventClosed, EventTypes
        <4> QED BY <2>7, <4>1, <4>2, <4>3 DEF EventThreads
      <3>2. StateTypes' /\ SharedTypes' /\ CountTypes' /\ WindowTypes' /\ SettingTypes'
              /\ PlaceTypes'
        BY <2>7 DEF EventThreads, WriteFrame, WriteLastFrames, EventClosed, StateTypes,
                    SharedTypes, CountTypes, WindowTypes, SettingTypes, PlaceTypes, stateVars,
                    sharedVars
      <3> QED BY <3>1, <3>2, TypePartsNext
    <2>8. CASE Connect \/ \E mode \in CloseModes : Reload(mode)
      <3>1. StateTypes' /\ SharedTypes'
        BY <2>8, EnvironmentAssumption DEF Connect, Reload, StateTypes, SharedTypes, sharedVars
      <3>2. CountTypes' /\ SettingTypes'
        BY <2>8, SectionAssumption DEF Connect, Reload, CountTypes, SettingTypes, eventVars
      <3>3. WindowTypes' /\ EventTypes' /\ PlaceTypes'
        BY <2>8 DEF Connect, Reload, WindowTypes, EventTypes, PlaceTypes, eventVars
      <3> QED BY <3>1, <3>2, <3>3, TypePartsNext
    <2>9. CASE FirstPacket \/ CaptureFails \/ CloseMonitor \/ CheckState \/ CheckWake
                 \/ Paused \/ Play
      <3>1. /\ UNCHANGED <<stateVars, trigger, analysing, eventVars, analysed, last_signal,
                           auto_resume, event_close_mode, frame, step>>
            /\ capture' \in {"running", "checking", "failed", "pausing", "closing", "paused",
                             "down"}
        BY <2>9 DEF FirstPacket, CaptureFails, CloseMonitor, CheckState, CheckWake, Paused,
                    Play, CaptureStep
      <3>2. signal' \in BOOLEAN /\ linked_wake' \in BOOLEAN /\ window' \in {window, <<>>}
        BY <2>9 DEF FirstPacket, CaptureFails, CloseMonitor, CheckState, CheckWake, Paused,
                    Play, SharedTypes
      <3>3. WindowTypes'
        <4>1. CASE window' = window
          BY <4>1 DEF WindowTypes
        <4>2. CASE window' = <<>>
          BY <4>2, BoundsType, EmptyIsSeq DEF WindowTypes
        <4> QED BY <3>2, <4>1, <4>2
      <3>4. StateTypes' /\ SharedTypes' /\ CountTypes' /\ EventTypes' /\ SettingTypes'
              /\ PlaceTypes'
        BY <3>1, <3>2 DEF StateTypes, SharedTypes, CountTypes, EventTypes, SettingTypes,
                          PlaceTypes, stateVars, eventVars
      <3> QED BY <3>3, <3>4, TypePartsNext
    <2>10. CASE Clients \/ WakeExpires \/ \E s \in BOOLEAN : DecodeSignal(s)
      <3>1. SharedTypes'
        <4>1. CASE Clients
          BY <4>1, EnvironmentAssumption DEF Clients, Trigger, Suspend, Resume, AutoResume,
             CheckAction, SharedTypes
        <4>2. CASE WakeExpires \/ \E s \in BOOLEAN : DecodeSignal(s)
          BY <4>2 DEF WakeExpires, DecodeSignal, SharedTypes, sharedVars
        <4> QED BY <2>10, <4>1, <4>2
      <3>2. UNCHANGED <<stateVars, eventVars, analysed, event_close_mode, window, frame, step,
                        capture>>
        BY <2>10 DEF Clients, Trigger, Suspend, Resume, AutoResume, CheckAction, WakeExpires,
                     DecodeSignal
      <3>3. StateTypes' /\ CountTypes' /\ WindowTypes' /\ EventTypes' /\ SettingTypes'
              /\ PlaceTypes'
        BY <3>2 DEF StateTypes, CountTypes, WindowTypes, EventTypes, SettingTypes, PlaceTypes,
                    stateVars, eventVars
      <3> QED BY <3>1, <3>3, TypePartsNext
    <2>11. CASE UNCHANGED vars
      <3>1. StateTypes' /\ SharedTypes' /\ CountTypes' /\ WindowTypes' /\ EventTypes'
              /\ SettingTypes' /\ PlaceTypes'
        BY <2>11 DEF vars, stateVars, sharedVars, eventVars, StateTypes, SharedTypes,
                     CountTypes, WindowTypes, EventTypes, SettingTypes, PlaceTypes
      <3> QED BY <3>1, TypePartsNext
    <2> QED BY <2>1, <2>2, <2>3, <2>4, <2>5, <2>6, <2>7, <2>8, <2>9, <2>10, <2>11
            DEF Next, Analyse, Capture
  <1> QED BY <1>1, <1>2, PTL DEF Spec
=============================================================================
