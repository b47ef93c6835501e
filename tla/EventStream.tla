---------------------------- MODULE EventStream ----------------------------
(***************************************************************************)
(* Playing a recorded event in the montage review page: the EventStream    *)
(* object of one monitor (src/web/js/EventStream.js), the page that drives *)
(* it (montagereview.js), the queue of AJAX requests all streams of a page *)
(* share (ajaxQueue.js), the php that relays a command to a zms and its    *)
(* answer back (ajax/stream.php), and the zms processes, one for each      *)
(* connkey (zm_stream.cpp, zm_eventstream.cpp).                            *)
(*                                                                         *)
(* A page handler is one action: nothing interrupts JavaScript.  Between   *)
(* handlers anything may happen: a reply that answers for a stream replaced*)
(* since, a zms that dies or is slow to start, a lost request.  How long a *)
(* timer waits is left open.  Connkeys are drawn at random; here a key no  *)
(* process, request or stream uses any more may be drawn again.            *)
(***************************************************************************)
EXTENDS CommandSocket

CONSTANTS
  Events,               \* events of the monitor
  maxRecoveryAttempts

ASSUME EventsAssumption == Events \subseteq Nat \ {0} /\ Events # {}
ASSUME AttemptsAssumption == maxRecoveryAttempts \in Nat

VARIABLES
  es,       \* the EventStream object
  page      \* the montage review page

vars == <<es, page, socketVars>>

NoEvent == 0
NoTimer == [event |-> NoEvent, rate |-> 0]
Slider == Events \cup {NoEvent}

\* out: the requests of the handler that is running.  heard: the zms behind
\* connKey has answered.  abandoned: connkeys dropped without a QUIT.
NewEventStream ==
  [started |-> FALSE, connKey |-> NoKey, img |-> NoKey, pollers |-> 0,
   streamCmdTimer |-> FALSE, drawLoops |-> 0, rafId |-> FALSE,
   paused |-> FALSE, currentEventId |-> NoEvent, rate |-> 1,
   consecutiveErrors |-> 0, recoveryTimer |-> NoTimer, heard |-> FALSE,
   out |-> <<>>, abandoned |-> {}]

NewPage == [active |-> TRUE, speed |-> 1, scrubbing |-> FALSE, event |-> NoEvent]

Init == es = NewEventStream /\ page = NewPage /\ SocketInit

-----------------------------------------------------------------------------
(* The methods of EventStream, as functions from the object to the object. *)

streamCommand(c, cmd, rate) ==
  IF c.started
  THEN [c EXCEPT !.out = Append(@, [key |-> c.connKey, cmd |-> cmd, rate |-> rate])]
  ELSE c

\* Mutants: the status timer is left running; the connkey is dropped before
\* the QUIT that needs it
Mutant_PollerKept(c, quit) ==
  LET q == IF quit THEN streamCommand(c, "QUIT", 0) ELSE c
  IN [q EXCEPT !.streamCmdTimer = FALSE, !.drawLoops = IF c.rafId THEN @ - 1 ELSE @,
               !.rafId = FALSE, !.img = NoKey, !.started = FALSE, !.connKey = NoKey]
Mutant_NoQuit(c, quit) ==
  [c EXCEPT !.pollers = IF c.streamCmdTimer THEN @ - 1 ELSE @, !.streamCmdTimer = FALSE,
            !.drawLoops = IF c.rafId THEN @ - 1 ELSE @, !.rafId = FALSE,
            !.img = NoKey, !.started = FALSE, !.connKey = NoKey]

teardown(c, quit) ==
  LET q == IF quit THEN streamCommand(c, "QUIT", 0) ELSE c
  IN [q EXCEPT !.pollers = IF c.streamCmdTimer THEN @ - 1 ELSE @,
               !.streamCmdTimer = FALSE,
               !.drawLoops = IF c.rafId THEN @ - 1 ELSE @,
               !.rafId = FALSE,
               !.img = NoKey,
               !.started = FALSE,
               !.connKey = NoKey]

\* Mutant: a live stream is started over without being torn down
Mutant_StartOverLive(c, event, rate, key) ==
  [c EXCEPT !.recoveryTimer = NoTimer, !.currentEventId = event, !.rate = rate,
            !.paused = FALSE, !.connKey = key, !.img = key, !.drawLoops = @ + 1,
            !.rafId = TRUE, !.started = TRUE, !.pollers = @ + 1,
            !.streamCmdTimer = TRUE, !.heard = FALSE]

start(c, event, rate, key) ==
  LET t == IF c.started \/ c.img # NoKey THEN teardown(c, c.started) ELSE c
  IN [t EXCEPT !.recoveryTimer = NoTimer,
               !.currentEventId = event,
               !.rate = rate,
               !.paused = FALSE,
               !.connKey = key,
               !.img = key,
               !.drawLoops = @ + 1,
               !.rafId = TRUE,
               !.started = TRUE,
               !.pollers = @ + 1,
               !.streamCmdTimer = TRUE,
               !.heard = FALSE]

stop(c) ==
  LET s == [c EXCEPT !.recoveryTimer = NoTimer]
  IN IF c.started
     THEN [teardown(s, TRUE) EXCEPT !.paused = FALSE, !.consecutiveErrors = 0]
     ELSE s

\* Mutant: giving up keeps the dead stream, for the page to see as started
Mutant_GiveUpStarted(c) ==
  LET n == IF c.consecutiveErrors > maxRecoveryAttempts
           THEN c.consecutiveErrors ELSE c.consecutiveErrors + 1
  IN IF c.recoveryTimer # NoTimer THEN c
     ELSE IF n > maxRecoveryAttempts THEN [c EXCEPT !.consecutiveErrors = n]
     ELSE [teardown(c, FALSE) EXCEPT !.consecutiveErrors = n,
             !.recoveryTimer = [event |-> c.currentEventId, rate |-> c.rate]]

\* consecutiveErrors only matters as far as it exceeds maxRecoveryAttempts:
\* it stops counting there
recover(c) ==
  LET n == IF c.consecutiveErrors > maxRecoveryAttempts
           THEN c.consecutiveErrors ELSE c.consecutiveErrors + 1
      t == [teardown(c, FALSE) EXCEPT !.consecutiveErrors = n,
                                      !.abandoned = @ \cup ({c.connKey} \ {NoKey})]
  IN IF c.recoveryTimer # NoTimer THEN c
     ELSE IF n > maxRecoveryAttempts THEN t
     ELSE [t EXCEPT !.recoveryTimer = [event |-> c.currentEventId, rate |-> c.rate]]

setRate(c, rate) == streamCommand([c EXCEPT !.rate = rate], "VARPLAY", rate)

pause(c) == streamCommand([c EXCEPT !.paused = @ \/ c.started], "PAUSE", 0)

play(c) == streamCommand([c EXCEPT !.paused = @ /\ ~c.started], "PLAY", 0)

\* CMD_SEEK and CMD_SCALE change the picture, and nothing that is told apart
\* here: like CMD_QUERY they are a question that is answered
seek(c) == streamCommand(c, "QUERY", 0)

setScale(c) == streamCommand(c, "QUERY", 0)

switchEvent(c, event, rate, key) ==
  start([c EXCEPT !.recoveryTimer = NoTimer, !.consecutiveErrors = 0], event, rate, key)

-----------------------------------------------------------------------------
(* What the page does with the stream when the slider stands on event (or  *)
(* on none): outputUpdate, for this monitor.                               *)

outputUpdate(c, p, event, key) ==
  IF ~p.active \/ p.speed < 1 THEN c
  ELSE IF event = NoEvent THEN IF c.started THEN stop(c) ELSE c
  ELSE IF ~c.started THEN start(c, event, p.speed, key)
  ELSE IF c.currentEventId # event THEN switchEvent(c, event, p.speed, key)
  ELSE IF p.scrubbing THEN seek(c) ELSE c

syncEventStreamsToTime(c, p) == IF p.event # NoEvent THEN seek(c) ELSE c

HasKey == FreshKeys(es.connKey) # {}
NewKey == genConnKey(es.connKey)

\* What a handler leaves: its requests are handed to the queue, and setting
\* img.src to a new connkey has a zms started for it.  A process that has
\* ended is no longer counted as abandoned.
Handled(c) ==
  /\ es' = [c EXCEPT !.out = <<>>, !.abandoned = {k \in @ : zms[k].st # "gone"}]
  /\ IF c.connKey # NoKey /\ c.connKey # es.connKey
     THEN ZmsRequested(c.connKey, c.rate) ELSE UNCHANGED zms
  /\ UNCHANGED faults

Handler(c) == Handled(c) /\ Enqueue(c.out) /\ UNCHANGED flight

\* timerFire, or the mouse moving with its button down: the slider is at a
\* new time
TimerFire ==
  /\ HasKey
  /\ \E event \in Slider :
        /\ Handler(outputUpdate(es, page, event, NewKey))
        /\ page' = [page EXCEPT !.event = event]

SetSpeed(speed) ==
  /\ page.active /\ HasKey
  /\ \E event \in Slider :
        LET p == [page EXCEPT !.speed = speed, !.event = event]
            r == IF ~es.started THEN es
                 ELSE IF speed < 1 THEN stop(es)
                 ELSE LET s == setRate(es, speed)
                      IN IF s.paused THEN play(s) ELSE s
        IN /\ Handler(outputUpdate(r, p, event, NewKey))
           /\ page' = p

\* The re-sync setSpeed asks for half a second later
Resync ==
  /\ page.active /\ page.speed >= 1
  /\ Handler(syncEventStreamsToTime(es, page))
  /\ UNCHANGED page

MDown ==
  /\ page.active /\ ~page.scrubbing /\ HasKey
  /\ \E event \in Slider :
        LET p == [page EXCEPT !.scrubbing = TRUE, !.event = event]
        IN /\ Handler(outputUpdate(pause(es), p, event, NewKey))
           /\ page' = p

\* mup, and mout while scrubbing
MUp ==
  /\ page.scrubbing
  /\ page' = [page EXCEPT !.scrubbing = FALSE]
  /\ Handler(IF page.active /\ page.speed >= 1
             THEN play(syncEventStreamsToTime(es, page)) ELSE es)

UpdateStreamScales ==
  /\ Handler(setScale(es))
  /\ UNCHANGED page

SetLive ==
  /\ page.active
  /\ page' = [page EXCEPT !.active = FALSE]
  /\ Handler(IF es.started THEN stop(es) ELSE es)

\* The form is submitted, or the user goes elsewhere and comes back: the
\* browser drops the page with all it had open
Reload ==
  /\ es' = [NewEventStream EXCEPT !.abandoned = {k \in Keys : zms[k].st # "gone"}]
  /\ page' = NewPage
  /\ queue' = <<>> /\ flight' = Idle
  /\ UNCHANGED <<zms, faults>>

-----------------------------------------------------------------------------
(* The stream's own timers and events.                                     *)

Poll ==
  /\ es.pollers > 0
  /\ Handler(IF es.started THEN streamCommand(es, "QUERY", 0) ELSE es)
  /\ UNCHANGED page

RecoveryTimer ==
  /\ es.recoveryTimer # NoTimer /\ HasKey
  /\ LET c == [es EXCEPT !.recoveryTimer = NoTimer]
     IN Handler(IF es.started THEN c
                ELSE start(c, es.recoveryTimer.event, es.recoveryTimer.rate, NewKey))
  /\ UNCHANGED page

\* The browser may or may not tell the img that its stream has ended
ImgError ==
  /\ es.img # NoKey /\ zms[es.img].st = "gone"
  /\ LET c == [es EXCEPT !.pollers = IF es.streamCmdTimer THEN @ - 1 ELSE @,
                         !.streamCmdTimer = FALSE,
                         !.drawLoops = IF es.rafId THEN @ - 1 ELSE @,
                         !.rafId = FALSE]
     IN Handler(recover(c))
  /\ UNCHANGED page

\* onStatus: a stream that has drifted is moved to where the slider is
onStatus(c, p, drift, key) ==
  IF ~drift \/ p.scrubbing \/ ~p.active \/ p.speed < 1 \/ p.event = NoEvent THEN c
  ELSE IF p.event = c.currentEventId THEN seek(c)
  ELSE switchEvent(c, p.event, p.speed, key)

\* Mutant: every error is taken for the end of the zms
Mutant_AlwaysFatal(result) == result # "ok"

errorIsFatal(result) == result = "no_socket"

\* Mutant: a reply counts for whatever stream is there when it arrives
Mutant_AnyReply(c, key, reply, drift, fresh) ==
  IF reply.result = "ok"
  THEN onStatus([c EXCEPT !.consecutiveErrors = 0, !.paused = (reply.mode = "pause"), !.heard = TRUE],
                page, drift, fresh)
  ELSE IF errorIsFatal(reply.result) THEN recover(c) ELSE c

getStreamCmdResponse(c, key, reply, drift, fresh) ==
  IF key # c.connKey THEN c
  ELSE IF reply.result = "ok"
  THEN onStatus([c EXCEPT !.consecutiveErrors = 0, !.paused = (reply.mode = "pause"), !.heard = TRUE],
                page, drift, fresh)
  ELSE IF errorIsFatal(reply.result) THEN recover(c) ELSE c

\* .fail of the request: the web server itself gave no answer
requestFailed(c, key) == IF key # c.connKey THEN c ELSE recover(c)

\* The exchange ends: its handler runs, then the next request may go out
Response ==
  /\ flight.st = "answered"
  /\ \E drift \in {d \in BOOLEAN : d => HasKey} :
       LET request == Head(queue)
           c == IF flight.result = "failed" THEN requestFailed(es, request.key)
                ELSE getStreamCmdResponse(es, request.key, flight, drift, NewKey)
           q == request.cmd = "QUIT" /\ flight.result # "ok"
       IN /\ Handled([c EXCEPT !.abandoned = IF q THEN @ \cup {request.key} ELSE @])
          /\ Dequeue(c.out)
  /\ UNCHANGED page

-----------------------------------------------------------------------------
Next ==
  \/ TimerFire
  \/ \E speed \in Rates \cup {0} : SetSpeed(speed)
  \/ Resync
  \/ MDown
  \/ MUp
  \/ UpdateStreamScales
  \/ SetLive
  \/ Reload
  \/ Poll
  \/ RecoveryTimer
  \/ ImgError
  \/ Response
  \/ SocketNext(es.img) /\ UNCHANGED <<es, page>>

Spec == Init /\ [][Next]_vars

\* Timers fire, requests are answered or time out, processes start, read
\* their commands and notice a closed connection.  A handler is only ever
\* held back by the bounds, so fairness is strong for those.
Fairness ==
  /\ SF_vars(TimerFire) /\ SF_vars(Poll) /\ SF_vars(RecoveryTimer) /\ SF_vars(Response)
  /\ WF_vars((PhpSend \/ PhpNoSocket \/ PhpTimeout) /\ UNCHANGED <<es, page>>)
  /\ \A k \in Keys :
        /\ WF_vars(ZmsStart(k) /\ UNCHANGED <<es, page>>)
        /\ WF_vars(ZmsCommand(k) /\ UNCHANGED <<es, page>>)
        /\ WF_vars(ZmsBrokenPipe(k, es.img) /\ UNCHANGED <<es, page>>)

FairSpec == Spec /\ Fairness

-----------------------------------------------------------------------------
(* Properties.                                                             *)

EsType ==
  [started : BOOLEAN, connKey : Keys \cup {NoKey}, img : Keys \cup {NoKey},
   pollers : 0..1, streamCmdTimer : BOOLEAN, drawLoops : 0..1, rafId : BOOLEAN,
   paused : BOOLEAN, currentEventId : Slider, rate : Rates,
   consecutiveErrors : 0..maxRecoveryAttempts + 1,
   recoveryTimer : [event : Slider, rate : Rates \cup {0}], heard : BOOLEAN,
   out : {<<>>},
   abandoned : SUBSET Keys]

\* Types: every request in the queue carries the connkey of a stream, and the
\* object has at most one status timer and one draw loop running
TypeOK ==
  /\ es \in EsType
  /\ page \in [active : BOOLEAN, speed : Rates \cup {0}, scrubbing : BOOLEAN, event : Slider]
  /\ SocketTypeOK

\* A stream that is up has one connection, one status timer and one draw loop,
\* all for the connkey its commands carry; one that is down (stopped, waiting
\* to retry, given up) has none left, and only then is a retry pending
OneStream ==
  IF es.started
  THEN /\ es.connKey # NoKey /\ es.img = es.connKey
       /\ es.pollers = 1 /\ es.streamCmdTimer /\ es.drawLoops = 1 /\ es.rafId
       /\ es.recoveryTimer = NoTimer
  ELSE /\ es.connKey = NoKey /\ es.img = NoKey
       /\ es.pollers = 0 /\ es.drawLoops = 0

\* A zms whose stream was stopped, switched or restarted has a QUIT on its
\* way: dropping the connkey first would leave it addressed by nobody.  Left
\* alone are only those given up as dead, those of a page that has gone, and
\* those whose QUIT could not be delivered
QuitOnItsWay ==
  \A k \in Keys :
    zms[k].st = "gone" \/ k = es.connKey \/ k \in es.abandoned \/ QuitPending(k)

\* A stream whose zms has answered is only dropped for a retry when that zms
\* has ended or the web server did not answer: a late reply about an earlier
\* connkey, a timeout or a php problem leaves it alone
HealthyStreamIsKept ==
  [][(es.heard /\ es'.consecutiveErrors > es.consecutiveErrors)
       => (zms[es.connKey].st = "gone" \/ flight.result = "failed")]_vars

\* Every failure that counts towards giving up is that of a stream that was
\* up, and a failure never brings a stopped stream back
FailuresAreOfThisStream ==
  [][(\/ es'.consecutiveErrors > es.consecutiveErrors
      \/ (es'.recoveryTimer # NoTimer /\ es.recoveryTimer = NoTimer)) => es.started]_vars

Playing(event) ==
  /\ es.started /\ es.currentEventId = event
  /\ zms[es.connKey].st = "running"

Wanted(event) == page.active /\ page.speed >= 1 /\ page.event = event

\* Once things stop going wrong, a page that stays on an event at 1x or more
\* ends up playing it, whatever was given up before
PlaybackResumes ==
  \A event \in Events : <>[]Wanted(event) => <>[]Playing(event)

\* No zms outlives its stream for ever
OrphansEnd ==
  \A k \in Keys : (zms[k].st # "gone" /\ k # es.img) ~> (zms[k].st = "gone" \/ k = es.img)

\* montagereview.js, setSpeed: below 1x the streams are stopped, so that
\* their draw loop does not compete with the drawing of single frames
SlowMeansStopped == (page.active /\ page.speed < 1) => ~es.started

\* montagereview.js, setSpeed: at 1x and more the streams are running at the
\* right rate, once the commands sent have been carried out
RunningAtTheRightRate ==
  (/\ es.started /\ page.speed >= 1 /\ zms[es.connKey].st = "running"
   /\ queue = <<>> /\ zms[es.connKey].box = <<>>)
  => zms[es.connKey].rate = page.speed
=============================================================================
