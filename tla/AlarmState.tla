----------------------------- MODULE AlarmState -----------------------------
(***************************************************************************)
(* The alarm state of a monitor and the events it opens and closes:        *)
(* Monitor::Analyse (src/src/zm_monitor.cpp), with the capture thread that *)
(* reconnects, pauses and reloads the monitor around it, the threads of    *)
(* the open event and of the one being closed, and the clients that force  *)
(* alarms and suspend analysis through shared memory.                      *)
(*                                                                         *)
(* Analyse is cut where another thread can see or change what it works     *)
(* with.  Detection is a choice: a packet scores or it does not, and       *)
(* motion was measured on it or not.  Time is counted in video packets:    *)
(* an event's Duration() is the number of packets its thread has written   *)
(* after the first.                                                        *)
(***************************************************************************)
EXTENDS Integers, Sequences, FiniteSetsExt, SequencesExt

CONSTANTS
  pre_event_count,
  alarm_frame_count,
  post_event_count,
  MinSection,        \* min_section_length as loaded
  section_length,
  Recording,         \* "none", "onmotion" or "always"
  CloseModes,        \* event close modes a monitor may be loaded with
  Analysing,         \* the monitor is set up for motion detection
  Environment,       \* what happens around the monitor, see below
  MaxLag             \* bound: analysed packets an event has not written yet

\* What may happen: audio packets; packets without motion detection (skipped,
\* no image, not Ready()); a decoder that measures the signal; camera failures;
\* reloads; forced alarms; suspend and resume; alarms of linked monitors; and
\* capture on demand
Happenings == {"audio", "skip", "signal", "fail", "reload", "trigger", "suspend",
               "link", "ondemand"}

ASSUME CountsAssumption ==
  /\ pre_event_count \in Nat
  /\ alarm_frame_count \in Nat \ {0}
  /\ post_event_count \in Nat
ASSUME SectionAssumption ==
  /\ MinSection \in Nat /\ section_length \in Nat /\ MinSection <= section_length
ASSUME ModesAssumption ==
  /\ Recording \in {"none", "onmotion", "always"}
  /\ CloseModes \subseteq {"alarm", "time", "idle", "duration"} /\ CloseModes # {}
ASSUME EnvironmentAssumption ==
  Analysing \in BOOLEAN /\ Environment \subseteq Happenings /\ MaxLag \in Nat

VARIABLES
  state,               \* "IDLE", "PREALARM", "ALARM" or "ALERT"
  pre_alarm_count,     \* Event::pre_alarm_count
  alert_to_alarm_frame_count,
  alarm_actions_fired,
  since_alarm,         \* analysis_image_count - last_alarm_count, up to post_event_count + 1
  analysed,            \* analysis_image_count, likewise
  signal,              \* shared_data->signal
  last_signal,
  trigger,             \* trigger_data->trigger_state
  analysing,           \* shared_data->analysing is not ANALYSING_NONE
  auto_resume,         \* auto_resume_time is set
  linked_wake,         \* LinkedWakePending()
  event_close_mode,
  min_section_length,
  window,              \* scores of the latest analysed packets, for pre-event frames
  event,               \* Monitor::event
  closing,             \* the event close_event_thread is deleting
  frame,               \* the packet Analyse works on
  step,                \* where Analyse is
  capture              \* where the capture thread is

stateVars == <<state, pre_alarm_count, alert_to_alarm_frame_count,
               alarm_actions_fired, since_alarm>>
sharedVars == <<signal, trigger, analysing>>
eventVars == <<event, closing, min_section_length>>
vars == <<stateVars, sharedVars, eventVars, analysed, last_signal, auto_resume,
          linked_wake, event_close_mode, window, frame, step, capture>>

None == [open |-> FALSE]
NoFrame == [video |-> FALSE, measured |-> FALSE, boundary |-> FALSE, scored |-> FALSE,
            wake |-> FALSE, cause |-> FALSE]

\* openEvent asks for this many video packets before the current one
Back == Max({pre_event_count, alarm_frame_count})
Longest == section_length + Back + 3      \* where an event's length saturates
Enough == post_event_count + 1            \* where the packet counts saturate

UpTo(limit, n) == IF n < limit THEN n ELSE limit

-----------------------------------------------------------------------------
(* Events *)

Opened(scores) == [open |-> TRUE, unwritten |-> scores, written |-> 0,
                   alarm_frames |-> 0, for_alarm |-> state = "ALARM",
                   alarms |-> IF state = "ALARM" THEN 1 ELSE 0]

\* Event::Duration
Duration(e) == IF e.written = 0 THEN 0 ELSE e.written - 1

\* AddPacket_ and AddFrame on the next packet the event has
Written(e) == [e EXCEPT !.unwritten = Tail(@),
                        !.written = UpTo(Longest, @ + 1),
                        !.alarm_frames = IF Head(e.unwritten)
                                           THEN UpTo(alarm_frame_count + 1, @ + 1) ELSE @]

\* An event that is not stopped goes on to the next packet analysed
WithPacket(e, score) ==
  IF e.open THEN [e EXCEPT !.unwritten = Append(@, score)] ELSE e

\* closeEvent joins the thread closing the event before
Close ==
  /\ closing = None
  /\ closing' = event
  /\ event' = None

\* Whether an event long enough is due to be closed, by its close mode
AlarmModeDue(e) ==
  \/ state = "ALARM" /\ (e.alarm_frames < alarm_frame_count \/ Duration(e) > section_length)
  \/ state = "IDLE" /\ e.alarm_frames > alarm_frame_count /\ since_alarm > post_event_count
  \/ state = "IDLE" /\ Duration(e) > section_length

ContinuousDue(e) ==
  CASE event_close_mode = "alarm"    -> AlarmModeDue(e)
    [] event_close_mode = "time"     -> frame.boundary
    [] event_close_mode = "idle"     -> state = "IDLE" /\ Duration(e) >= section_length
    [] event_close_mode = "duration" -> Duration(e) >= section_length

MotionDue(e) ==
  \/ Duration(e) > section_length
  \/ state = "IDLE" /\ since_alarm > post_event_count

Due(e) ==
  /\ Duration(e) >= min_section_length
  /\ IF Recording = "always" THEN ContinuousDue(e) ELSE MotionDue(e)

-----------------------------------------------------------------------------
(* The alarm state *)

\* Mutant of EndAlarmActions: returns without ending them
Mutant_ActionsGoOn == UNCHANGED alarm_actions_fired

EndAlarmActions == alarm_actions_fired' = FALSE

\* Mutant of ScoredFrame: one pre-alarm frame too many
Mutant_LateAlarm ==
  /\ state \in {"IDLE", "PREALARM"}
  /\ IF pre_event_count = 0 \/ pre_alarm_count >= alarm_frame_count
       THEN state' = "ALARM" /\ alarm_actions_fired' = TRUE /\ UNCHANGED pre_alarm_count
       ELSE /\ state' = "PREALARM" /\ pre_alarm_count' = pre_alarm_count + 1
            /\ UNCHANGED alarm_actions_fired
  /\ UNCHANGED alert_to_alarm_frame_count

\* The packet scored
ScoredFrame ==
  \/ /\ state \in {"IDLE", "PREALARM"}
     /\ IF pre_event_count = 0 \/ pre_alarm_count >= alarm_frame_count - 1
          THEN /\ state' = "ALARM"
               /\ alarm_actions_fired' = TRUE
               /\ UNCHANGED pre_alarm_count
          ELSE /\ state' = "PREALARM"
               /\ pre_alarm_count' = pre_alarm_count + 1
               /\ UNCHANGED alarm_actions_fired
     /\ UNCHANGED alert_to_alarm_frame_count
  \/ /\ state = "ALERT"
     /\ alert_to_alarm_frame_count' = alert_to_alarm_frame_count - 1
     /\ state' = IF alert_to_alarm_frame_count' = 0 THEN "ALARM" ELSE "ALERT"
     /\ UNCHANGED <<pre_alarm_count, alarm_actions_fired>>
  \/ /\ state = "ALARM"
     /\ UNCHANGED <<state, pre_alarm_count, alert_to_alarm_frame_count,
                    alarm_actions_fired>>

\* Mutants of QuietFrame: the countdown is not loaded when the alert begins;
\* a quiet frame takes one pre-alarm frame back
Mutant_NoCountdown ==
  /\ pre_alarm_count' = 0
  /\ state' = IF state = "ALARM" THEN "ALERT" ELSE state
  /\ UNCHANGED <<alert_to_alarm_frame_count, alarm_actions_fired>>
Mutant_TakesOneBack ==
  /\ pre_alarm_count' = pre_alarm_count - 1
  /\ state' = IF state = "PREALARM" THEN "IDLE" ELSE state
  /\ alert_to_alarm_frame_count' = alarm_frame_count
  /\ UNCHANGED alarm_actions_fired

\* It did not, and that counts: motion was measured, or analysis is off
QuietFrame ==
  /\ alert_to_alarm_frame_count' = alarm_frame_count
  /\ pre_alarm_count' = 0
  /\ \/ state = "ALARM" /\ state' = "ALERT" /\ UNCHANGED alarm_actions_fired
     \/ /\ state = "ALERT" /\ since_alarm > post_event_count
        /\ state' = "IDLE" /\ EndAlarmActions
     \/ /\ state = "ALERT" /\ since_alarm <= post_event_count
        /\ UNCHANGED <<state, alarm_actions_fired>>
     \/ /\ state \in {"IDLE", "PREALARM"}
        /\ state' = "IDLE" /\ UNCHANGED alarm_actions_fired

-----------------------------------------------------------------------------
(* The analysis thread: Monitor::Analyse *)

Init ==
  /\ state = "IDLE" /\ pre_alarm_count = 0 /\ alert_to_alarm_frame_count = 0
  /\ alarm_actions_fired = FALSE /\ since_alarm = 0 /\ analysed = 0
  /\ signal = FALSE /\ last_signal = TRUE
  /\ trigger = "CANCEL" /\ analysing = Analysing /\ auto_resume = FALSE
  /\ linked_wake = FALSE
  /\ event_close_mode \in CloseModes /\ min_section_length = MinSection
  /\ window = <<>> /\ event = None /\ closing = None
  /\ frame = NoFrame
  /\ step = "idle" /\ capture = "down"

\* What a packet may be.  hit: motion, ONVIF, Amcrest, audio level or a linked
\* monitor.  boundary: the clock is at a multiple of section_length.
Packets ==
  {p \in [video: BOOLEAN, measured: BOOLEAN, boundary: BOOLEAN, hit: BOOLEAN] :
     /\ p.video \/ "audio" \in Environment
     /\ p.measured => p.video /\ analysing
     /\ p.video /\ analysing /\ ~p.measured => "skip" \in Environment
     /\ p.boundary => "time" \in CloseModes}

Capturing == capture \in {"running", "checking", "failed"}
Stopping == capture \in {"pausing", "closing"}

\* Get a packet, look at signal and trigger.  Signal loss and a trigger that
\* is off close the event; they and a signal that is back end the alarm.
Sample(p) ==
  /\ step = "idle" /\ Capturing
  /\ \A e \in {event, closing} : e.open => Len(e.unwritten) < MaxLag
  /\ last_signal' = signal
  /\ LET change == signal # last_signal
         off    == trigger = "OFF"
         wake   == signal /\ linked_wake /\ ~off
         scored == ~off /\ (p.hit \/ trigger = "ON" \/ wake)
     IN /\ frame' = [video |-> p.video, measured |-> p.measured, boundary |-> p.boundary,
                     scored |-> scored, wake |-> wake,
                     cause |-> scored \/ (change /\ signal /\ Recording = "always"
                                            /\ ~event.open)]
        /\ IF event.open /\ (off \/ (change /\ ~signal))
             THEN Close ELSE UNCHANGED <<event, closing>>
        /\ IF off \/ change THEN state' = "IDLE" /\ EndAlarmActions
                            ELSE UNCHANGED <<state, alarm_actions_fired>>
        /\ step' = IF off \/ ~signal THEN "commit" ELSE "score"
  /\ UNCHANGED <<pre_alarm_count, alert_to_alarm_frame_count, since_alarm, sharedVars,
                 min_section_length, analysed, auto_resume, linked_wake,
                 event_close_mode, window, capture>>

\* The decode gate: the packet is not decoded yet, come again
Retry ==
  /\ step = "score" /\ frame.video
  /\ step' = "idle" /\ frame' = NoFrame
  /\ UNCHANGED <<stateVars, sharedVars, eventVars, analysed, last_signal, auto_resume,
                 linked_wake, event_close_mode, window, capture>>

\* The score is published, the wake that was counted in is used up
PublishScore ==
  /\ step = "score"
  /\ linked_wake' = (linked_wake /\ ~frame.wake)
  /\ step' = "state"
  /\ UNCHANGED <<stateVars, sharedVars, eventVars, analysed, last_signal, auto_resume,
                 event_close_mode, window, frame, capture>>

\* The event sees how many alarms begin in it, once it is long enough to close
CountAlarm ==
  IF event.open /\ state \in {"IDLE", "PREALARM"} /\ state' = "ALARM"
                /\ Duration(event) >= min_section_length
    THEN event' = [event EXCEPT !.alarms = UpTo(2, @ + 1)]
    ELSE UNCHANGED event

\* Mutant of SinceAlarm: frames of an alert are counted as alarm frames
Mutant_AlertIsAlarm(scored) ==
  IF state' \in {"ALARM", "ALERT"} THEN 0 ELSE since_alarm

\* last_alarm_count is set by frames that score in ALARM only
SinceAlarm(scored) == IF scored /\ state' = "ALARM" THEN 0 ELSE since_alarm

UpdateState ==
  /\ step = "state"
  /\ step' = "events"
  /\ IF frame.scored THEN ScoredFrame
     ELSE IF frame.measured \/ ~analysing THEN QuietFrame
     ELSE UNCHANGED <<state, pre_alarm_count, alert_to_alarm_frame_count,
                      alarm_actions_fired>>
  /\ since_alarm' = SinceAlarm(frame.scored)
  /\ CountAlarm
  /\ UNCHANGED <<sharedVars, closing, min_section_length, analysed, last_signal,
                 auto_resume, linked_wake, event_close_mode, window, frame, capture>>

\* Mutant of CloseDueEvent: the next event is left to the next packet
Mutant_ClosesOnly ==
  /\ step = "events" /\ event.open /\ Due(event)
  /\ Close
  /\ step' = "commit"
  /\ UNCHANGED <<stateVars, sharedVars, min_section_length, analysed, last_signal,
                 auto_resume, linked_wake, event_close_mode, window, frame, capture>>

CloseDueEvent ==
  /\ step = "events" /\ event.open /\ Due(event)
  /\ Close
  /\ step' = "open"
  /\ UNCHANGED <<stateVars, sharedVars, min_section_length, analysed, last_signal,
                 auto_resume, linked_wake, event_close_mode, window, frame, capture>>

KeepEvent ==
  /\ step = "events" /\ ~(event.open /\ Due(event))
  /\ step' = "open"
  /\ UNCHANGED <<stateVars, sharedVars, eventVars, analysed, last_signal, auto_resume,
                 linked_wake, event_close_mode, window, frame, capture>>

\* Mutant of MinSectionFor: the section may end within the pre-event frames
Mutant_SameMinSection(scores) == min_section_length

\* openEvent lengthens min_section_length beyond the frames the event starts with
MinSectionFor(scores) ==
  IF scores # <<>> /\ Len(scores) >= min_section_length
    THEN Len(scores) + 1 ELSE min_section_length

\* Mutant of EventWanted: whatever the state
Mutant_AlwaysWanted == Recording # "none"

EventWanted == Recording = "always" \/ (Recording = "onmotion" /\ state = "ALARM")

\* An event starts with the pre-event frames if it has a cause.  A stopped
\* queue does not give it its first packet.
OpenEvent ==
  /\ step = "open" /\ ~event.open
  /\ EventWanted
  /\ LET scores == IF frame.cause THEN window ELSE <<>> IN
     \/ /\ Stopping => scores = <<>>
        /\ event' = Opened(scores)
        /\ min_section_length' = MinSectionFor(scores)
     \/ /\ Stopping /\ scores # <<>>
        /\ UNCHANGED <<event, min_section_length>>
  /\ step' = "commit"
  /\ UNCHANGED <<stateVars, sharedVars, closing, analysed, last_signal, auto_resume,
                 linked_wake, event_close_mode, window, frame, capture>>

NothingToOpen ==
  /\ step = "open"
  /\ event.open \/ ~EventWanted
  /\ step' = "commit"
  /\ UNCHANGED <<stateVars, sharedVars, eventVars, analysed, last_signal, auto_resume,
                 linked_wake, event_close_mode, window, frame, capture>>

\* packet->score and analyzed are set: the event's thread may write the packet,
\* and so may that of an event being closed, until it is stopped
Commit ==
  /\ step = "commit"
  /\ step' = "idle" /\ frame' = NoFrame
  /\ IF frame.video
       THEN /\ analysed' = UpTo(Enough, analysed + 1)
            /\ since_alarm' = UpTo(Enough, since_alarm + 1)
            /\ window' = LET w == Append(window, frame.scored) IN
                         IF Len(w) > Back THEN Tail(w) ELSE w
            /\ event' = WithPacket(event, frame.scored)
            /\ closing' = WithPacket(closing, frame.scored)
       ELSE UNCHANGED <<analysed, since_alarm, window, event, closing>>
  /\ UNCHANGED <<state, pre_alarm_count, alert_to_alarm_frame_count, alarm_actions_fired,
                 sharedVars, min_section_length, last_signal, auto_resume, linked_wake,
                 event_close_mode, capture>>

-----------------------------------------------------------------------------
(* Event::Run, and close_event_thread, which stops it *)

WriteFrame ==
  /\ event.open /\ event.unwritten # <<>>
  /\ event' = Written(event)
  /\ UNCHANGED <<stateVars, sharedVars, closing, min_section_length, analysed, last_signal,
                 auto_resume, linked_wake, event_close_mode, window, frame, step, capture>>

WriteLastFrames ==
  /\ closing.open /\ closing.unwritten # <<>>
  /\ closing' = Written(closing)
  /\ UNCHANGED <<stateVars, sharedVars, event, min_section_length, analysed, last_signal,
                 auto_resume, linked_wake, event_close_mode, window, frame, step, capture>>

\* ~Event: Stop, then join
EventClosed ==
  /\ closing.open
  /\ closing' = None
  /\ UNCHANGED <<stateVars, sharedVars, event, min_section_length, analysed, last_signal,
                 auto_resume, linked_wake, event_close_mode, window, frame, step, capture>>

-----------------------------------------------------------------------------
(* The capture thread: zmc's main loop *)

\* connect sets up shared memory, PrimeCapture starts the threads
Connect ==
  /\ capture = "down"
  /\ capture' = "primed"
  /\ state' = "IDLE" /\ signal' = FALSE /\ trigger' = "CANCEL" /\ analysing' = Analysing
  /\ UNCHANGED <<pre_alarm_count, alert_to_alarm_frame_count, alarm_actions_fired,
                 since_alarm, eventVars, analysed, last_signal, auto_resume, linked_wake,
                 event_close_mode, window, frame, step>>

\* Reload, between disconnect and connect
Reload(mode) ==
  /\ "reload" \in Environment /\ capture = "down"
  /\ state' = "IDLE" /\ last_signal' = TRUE /\ since_alarm' = analysed
  /\ event_close_mode' = mode /\ min_section_length' = MinSection
  /\ UNCHANGED <<pre_alarm_count, alert_to_alarm_frame_count, alarm_actions_fired,
                 sharedVars, event, closing, analysed, auto_resume, linked_wake, window,
                 frame, step, capture>>

\* Only what the capture thread writes
CaptureStep(from, to) ==
  /\ capture = from
  /\ capture' = to
  /\ UNCHANGED <<stateVars, trigger, analysing, eventVars, analysed, last_signal,
                 auto_resume, event_close_mode, frame, step>>

\* Capture assumes a signal on the first packet of a session
FirstPacket ==
  /\ CaptureStep("primed", "running")
  /\ signal' = TRUE
  /\ UNCHANGED <<linked_wake, window>>

\* The decoder writes the signal it measures, or it and Capture write TRUE
DecodeSignal(s) ==
  /\ Capturing \/ Stopping
  /\ s = FALSE => "signal" \in Environment
  /\ signal' = s
  /\ UNCHANGED <<stateVars, trigger, analysing, eventVars, analysed, last_signal,
                 auto_resume, linked_wake, event_close_mode, window, frame, step, capture>>

CaptureFails ==
  /\ "fail" \in Environment
  /\ CaptureStep("running", "failed")
  /\ signal' = FALSE
  /\ UNCHANGED <<linked_wake, window>>

\* Close: after a failure (of Play, PreCapture or PostCapture, too, or of another
\* monitor of this zmc) and for a reload
CloseMonitor ==
  /\ \/ CaptureStep("failed", "closing")
     \/ /\ {"fail", "reload"} \cap Environment # {}
        /\ CaptureStep("running", "closing") \/ CaptureStep("paused", "closing")
  /\ UNCHANGED <<signal, linked_wake, window>>

\* CheckOndemand: nobody watches and the monitor is not in an alarm ...
CheckState ==
  /\ "ondemand" \in Environment /\ state = "IDLE"
  /\ CaptureStep("running", "checking")
  /\ UNCHANGED <<signal, linked_wake, window>>

\* ... nor was it just woken: pause
CheckWake ==
  /\ \/ linked_wake /\ CaptureStep("checking", "running")
     \/ ~linked_wake /\ CaptureStep("checking", "pausing")
  /\ UNCHANGED <<signal, linked_wake, window>>

\* Pause waits for Analyse to return and closes the event ...
PauseClosesEvent ==
  /\ Stopping /\ step = "idle" /\ event.open
  /\ Close
  /\ UNCHANGED <<stateVars, sharedVars, min_section_length, analysed, last_signal,
                 auto_resume, linked_wake, event_close_mode, window, frame, step, capture>>

\* ... and clears the queue
Paused ==
  /\ step = "idle" /\ ~event.open /\ ~closing.open
  /\ CaptureStep("pausing", "paused") \/ CaptureStep("closing", "down")
  /\ window' = <<>>
  /\ UNCHANGED <<signal, linked_wake>>

\* Play, for a viewer or for the alarm of a linked monitor
Play ==
  /\ CaptureStep("paused", "running")
  /\ linked_wake' \in IF "link" \in Environment THEN BOOLEAN ELSE {FALSE}
  /\ linked_wake => linked_wake'
  /\ UNCHANGED <<signal, window>>

WakeExpires ==
  /\ linked_wake
  /\ linked_wake' = FALSE
  /\ UNCHANGED <<stateVars, sharedVars, eventVars, analysed, last_signal, auto_resume,
                 event_close_mode, window, frame, step, capture>>

-----------------------------------------------------------------------------
(* Clients: ForceAlarmOn, ForceAlarmOff, CancelForced; SUSPEND and RESUME, *)
(* which CheckAction takes up                                              *)

Trigger(t) ==
  /\ "trigger" \in Environment /\ capture # "down"
  /\ trigger' = t
  /\ UNCHANGED <<stateVars, signal, analysing, eventVars, analysed, last_signal,
                 auto_resume, linked_wake, event_close_mode, window, frame, step, capture>>

CheckAction(on, resume_later) ==
  /\ "suspend" \in Environment /\ capture \in {"running", "paused"}
  /\ analysing' = on
  /\ auto_resume' = resume_later
  /\ UNCHANGED <<stateVars, signal, trigger, eventVars, analysed, last_signal, linked_wake,
                 event_close_mode, window, frame, step, capture>>

Suspend == \E resume_later \in {TRUE, auto_resume} : CheckAction(FALSE, resume_later)
Resume == ~analysing /\ CheckAction(Analysing, auto_resume)
AutoResume == auto_resume /\ CheckAction(Analysing, FALSE)

-----------------------------------------------------------------------------
Analyse ==
  \/ \E p \in Packets : Sample(p)
  \/ Retry \/ PublishScore \/ UpdateState \/ CloseDueEvent \/ KeepEvent
  \/ OpenEvent \/ NothingToOpen \/ Commit
EventThreads == WriteFrame \/ WriteLastFrames \/ EventClosed
Capture ==
  \/ Connect \/ FirstPacket \/ CaptureFails \/ CloseMonitor
  \/ \E mode \in CloseModes : Reload(mode)
  \/ \E s \in BOOLEAN : DecodeSignal(s)
  \/ CheckState \/ CheckWake \/ PauseClosesEvent \/ Paused \/ Play \/ WakeExpires
Clients ==
  \/ \E t \in {"CANCEL", "ON", "OFF"} : Trigger(t)
  \/ Suspend \/ Resume \/ AutoResume

Next == Analyse \/ EventThreads \/ Capture \/ Clients
Spec == Init /\ [][Next]_vars

\* Every thread goes on while it has something to do: packets keep coming from
\* a camera that is connected, a failed one is closed and connected again, and
\* a packet is decoded in the end (Retry is not taken for ever).
Fairness ==
  /\ WF_vars(\E p \in Packets : Sample(p))
  /\ SF_vars(PublishScore)
  /\ WF_vars(UpdateState) /\ WF_vars(CloseDueEvent \/ KeepEvent)
  /\ WF_vars(OpenEvent \/ NothingToOpen) /\ WF_vars(Commit)
  /\ WF_vars(WriteFrame) /\ WF_vars(EventClosed)
  /\ WF_vars(Connect) /\ WF_vars(FirstPacket)
  /\ WF_vars(capture = "failed" /\ CloseMonitor)
  /\ WF_vars(CheckWake) /\ WF_vars(PauseClosesEvent) /\ WF_vars(Paused)
FairSpec == Spec /\ Fairness

-----------------------------------------------------------------------------
(* Properties *)

Event == {None} \cup [open: {TRUE}, unwritten: Seq(BOOLEAN), written: 0 .. Longest,
                      alarm_frames: 0 .. alarm_frame_count + 1, for_alarm: BOOLEAN,
                      alarms: 0 .. 2]

\* Every variable keeps its type.
TypeOK ==
  /\ state \in {"IDLE", "PREALARM", "ALARM", "ALERT"}
  /\ pre_alarm_count \in Nat /\ alert_to_alarm_frame_count \in Int
  /\ alarm_actions_fired \in BOOLEAN
  /\ since_alarm \in 0 .. Enough /\ analysed \in 0 .. Enough
  /\ signal \in BOOLEAN /\ last_signal \in BOOLEAN
  /\ trigger \in {"CANCEL", "ON", "OFF"}
  /\ analysing \in BOOLEAN /\ auto_resume \in BOOLEAN /\ linked_wake \in BOOLEAN
  /\ event_close_mode \in CloseModes /\ min_section_length \in Nat
  /\ window \in Seq(BOOLEAN) /\ Len(window) <= Back
  /\ event \in Event /\ closing \in Event
  /\ frame \in [video: BOOLEAN, measured: BOOLEAN, boundary: BOOLEAN, scored: BOOLEAN,
                wake: BOOLEAN, cause: BOOLEAN]
  /\ step \in {"idle", "score", "state", "events", "open", "commit"}
  /\ capture \in {"down", "primed", "running", "checking", "failed", "pausing",
                  "closing", "paused"}

\* The countdown back from alert to alarm is tested for 0 only: it must not
\* start at 0 or pass it, or the monitor could never return to alarm.
AlertCountdown ==
  state = "ALERT" => alert_to_alarm_frame_count \in 1 .. alarm_frame_count

\* The pre-alarm count, which several ways to IDLE do not reset, never goes
\* beyond what an alarm needs, and an alert starts over with none.
PreAlarmCounts ==
  /\ pre_alarm_count < alarm_frame_count
  /\ state = "PREALARM" => pre_alarm_count > 0
  /\ state = "ALERT" => pre_alarm_count = 0

\* The actions of an alarm (a light, a speaker) are on exactly during an alarm
\* and its alert, whichever way it ends.
ActionsMatchAlarm == alarm_actions_fired <=> state \in {"ALARM", "ALERT"}

\* A monitor that records has an event open whenever it is in alarm, between
\* one packet and the next: closing a section never leaves an alarm unrecorded.
AlarmIsRecorded ==
  state = "ALARM" /\ step = "idle" /\ Recording # "none" /\ Capturing => event.open

\* Close mode alarm: the event opened for an alarm is not taken for the
\* continuous event before it.  While the alarm lasts only its length ends it.
AlarmEventNotSplit ==
  [][CloseDueEvent /\ state = "ALARM" /\ event.for_alarm /\ event_close_mode = "alarm"
       /\ Recording = "always"
       => Duration(event) > section_length]_vars

\* When nothing scores any more and video keeps being analysed, the alarm ends ...
Quiet == <>[](~frame.scored)
VideoAnalysed == []<><<UpdateState /\ frame.video /\ (frame.measured \/ ~analysing)>>_vars
AlarmEnds == Quiet /\ VideoAnalysed => <>[](state = "IDLE")

\* ... and the event it was recorded in is closed, after its post-event frames
\* and its minimum length.
EventEnds == Quiet /\ VideoAnalysed /\ Recording = "onmotion" => <>[](~event.open)

-----------------------------------------------------------------------------
(* What comments and documentation say and the code does not do *)

\* EndAlarmActions: "Every path out of the alarm condition calls this,
\* including the abnormal ones. A light switched on by an alarm must not stay
\* on because the camera lost signal".  ActionsMatchAlarm, with camera failures.

\* DecideOndemand: "Finish an alarm and its post-event frames first".
PausedIsIdle == capture = "paused" => state = "IDLE"

\* Close mode alarm: "limiting the number of alarms to one per event".
OneAlarmPerEvent ==
  event_close_mode = "alarm" /\ step = "idle" /\ event.open => event.alarms <= 1

=============================================================================
