----------------------------- MODULE LiveStream -----------------------------
(***************************************************************************)
(* A live view: the MonitorStream object of one monitor                    *)
(* (src/web/js/MonitorStream.js) with zms as its player and no other       *)
(* player configured, on the montage page (montage.js), which starts and   *)
(* stops it as it scrolls in and out of view, as the tab is hidden and     *)
(* shown, and as the user goes idle.                                       *)
(*                                                                         *)
(* Unlike EventStream, stop() keeps the connkey and the zms, to be resumed *)
(* by the next start(); an img that reports an error is reconnected after  *)
(* a back-off, with a fresh auth hash, by img_onerror; and a status reply  *)
(* that says the zms is gone reloads the img at once.                      *)
(***************************************************************************)
EXTENDS CommandSocket

CONSTANT MAX_AUTH_REFRESH_ATTEMPTS

ASSUME RefreshAssumption == MAX_AUTH_REFRESH_ATTEMPTS \in Nat

VARIABLES
  ms,       \* the MonitorStream object and its img
  page      \* the montage page

vars == <<ms, page, socketVars>>

\* What the img shows when it is not connected to a zms: nothing, or the
\* page's own HTML
Blank == NoKey
PageHtml == -1

\* What a pending reconnection will put back: the url of a zms, or of the page
Broken == {"none", "stream", "page"}

\* out, heard and abandoned are as in EventStream.  errors: the player has
\* failed since its errors were last cleared.
NewMonitorStream(key) ==
  [started |-> FALSE, starting |-> FALSE, connKey |-> key, img |-> Blank,
   handlers |-> FALSE, activePlayer |-> FALSE, stoppedPlayer |-> FALSE,
   errors |-> FALSE, pollers |-> 0, streamCmdTimer |-> FALSE,
   authRefreshTimer |-> "none", authRequest |-> "none",
   authRefreshAttempts |-> 0, heard |-> FALSE, out |-> <<>>, abandoned |-> {}]

NewPage == [initComplete |-> FALSE, inView |-> TRUE, resting |-> FALSE]

\* The page comes with a still picture and a connkey no process has used
Init ==
  /\ SocketInit
  /\ ms = NewMonitorStream(genConnKey(NoKey))
  /\ page = NewPage

-----------------------------------------------------------------------------
(* The methods of MonitorStream.                                           *)

Request(key, cmd) == [key |-> key, cmd |-> cmd, rate |-> 0]

quitConnKey(c, key) ==
  IF key = NoKey THEN c ELSE [c EXCEPT !.out = Append(@, Request(key, "QUIT"))]

streamCommand(c, cmd) ==
  IF c.started THEN [c EXCEPT !.out = Append(@, Request(c.connKey, cmd))] ELSE c

\* Mutant: the handle is cleared and the interval is not
Mutant_HandleOnly(c) == [c EXCEPT !.streamCmdTimer = FALSE]

ClearPoller(c) ==
  [c EXCEPT !.pollers = IF c.streamCmdTimer THEN @ - 1 ELSE @, !.streamCmdTimer = FALSE]

SetPoller(c) == [c EXCEPT !.pollers = @ + 1, !.streamCmdTimer = TRUE]

\* Mutant: the status timer outlives the stream
Mutant_PollerKept(c, skipStreamCommand) ==
  IF ~c.started /\ ~c.starting THEN c
  ELSE LET s == IF c.activePlayer /\ ~skipStreamCommand THEN streamCommand(c, "STOP") ELSE c
       IN [s EXCEPT !.stoppedPlayer = c.activePlayer, !.activePlayer = FALSE,
                    !.started = FALSE, !.starting = FALSE]

stop(c, skipStreamCommand) ==
  IF ~c.started /\ ~c.starting THEN c
  ELSE LET s == IF c.activePlayer /\ ~skipStreamCommand
                THEN streamCommand(ClearPoller(c), "STOP") ELSE ClearPoller(c)
       IN [s EXCEPT !.stoppedPlayer = c.activePlayer,
                    !.activePlayer = FALSE,
                    !.started = FALSE,
                    !.starting = FALSE]

kill(c) ==
  LET quit == (c.started \/ c.starting) /\ c.activePlayer /\ c.connKey # NoKey
      q == [c EXCEPT !.handlers = FALSE]
      s == stop(IF quit THEN streamCommand(q, "QUIT") ELSE q, quit)
  IN IF quit THEN [s EXCEPT !.connKey = NoKey] ELSE s

\* Mutants: PLAY is sent before the stream counts as started, and dropped; the
\* zms that stop() left is replaced without being told to quit
Mutant_PlayTooEarly(c, srcAuthCurrent, key) ==
  LET resumable == c.activePlayer \/ (c.stoppedPlayer /\ c.connKey # NoKey)
      p == [ClearPoller(c) EXCEPT !.handlers = TRUE]
      s == IF srcAuthCurrent /\ resumable THEN SetPoller(streamCommand(p, "PLAY"))
           ELSE [quitConnKey(p, c.connKey) EXCEPT !.connKey = key, !.img = key, !.heard = FALSE]
  IN [s EXCEPT !.started = TRUE, !.activePlayer = TRUE, !.stoppedPlayer = FALSE]
Mutant_ReplaceUnquit(c, srcAuthCurrent, key) ==
  LET p == [ClearPoller(c) EXCEPT !.handlers = TRUE]
  IN [p EXCEPT !.connKey = key, !.img = key, !.heard = FALSE, !.started = TRUE,
               !.activePlayer = TRUE, !.stoppedPlayer = FALSE]

\* The zms that stop() left running is resumed; otherwise, or when the src
\* carries an old auth hash, it is told to quit and replaced
select_zms(c, srcAuthCurrent, key) ==
  LET resumable == c.activePlayer \/ (c.stoppedPlayer /\ c.connKey # NoKey)
      p == [ClearPoller(c) EXCEPT !.handlers = TRUE]
      s == IF srcAuthCurrent /\ resumable
           THEN streamCommand(SetPoller([p EXCEPT !.started = TRUE]), "PLAY")
           ELSE [quitConnKey(p, c.connKey) EXCEPT !.connKey = key, !.img = key, !.heard = FALSE]
  IN [s EXCEPT !.started = TRUE, !.activePlayer = TRUE, !.stoppedPlayer = FALSE]

\* selectPlayer: a player with errors is passed over, and zms is the last one,
\* so that the start ends here ("All players failed")
selectPlayer(c, srcAuthCurrent, key) ==
  IF c.errors THEN c ELSE select_zms(c, srcAuthCurrent, key)

start(c, srcAuthCurrent, key) ==
  IF c.started \/ c.starting THEN c
  ELSE selectPlayer([c EXCEPT !.starting = TRUE], srcAuthCurrent, key)

setPlayer(c) == [c EXCEPT !.errors = FALSE]

-----------------------------------------------------------------------------
HasKey == FreshKeys(ms.connKey) # {}
NewKey == genConnKey(ms.connKey)

\* A blank src never counts as one with a current auth hash; any other may or
\* may not carry the hash that is current by now
SrcAuth == {a \in BOOLEAN : a => ms.img # Blank}

Handled(c) ==
  /\ ms' = [c EXCEPT !.out = <<>>, !.abandoned = {k \in @ : zms[k].st # "gone"}]
  /\ IF c.img \in Keys /\ c.img # ms.img THEN ZmsRequested(c.img, 1) ELSE UNCHANGED zms
  /\ UNCHANGED faults

Handler(c) == Handled(c) /\ Enqueue(c.out) /\ UNCHANGED flight

\* startMonitors once the page is laid out; startVisibleMonitors when the tab
\* is shown or the idle user returns, once the auth hash is known to be fresh
StartMonitors ==
  /\ page' = [page EXCEPT !.initComplete = TRUE, !.resting = FALSE]
  /\ HasKey
  /\ \E auth \in SrcAuth :
       Handler(IF page.inView /\ ~ms.started THEN start(setPlayer(ms), auth, NewKey) ELSE ms)

\* on_scroll
Scroll(inView) ==
  /\ page.initComplete /\ ~page.resting /\ HasKey
  /\ page' = [page EXCEPT !.inView = inView]
  /\ \E auth \in SrcAuth :
       Handler(IF inView /\ ~ms.started THEN start(ms, auth, NewKey)
               ELSE IF ~inView /\ ms.started THEN stop(ms, FALSE)
               ELSE ms)

\* The tab has been hidden for a while, or the user has been idle for long
Rest ==
  /\ ~page.resting
  /\ page' = [page EXCEPT !.resting = TRUE]
  /\ Handler(stop(ms, FALSE))

\* formSubmit, takeSnapshot and the links away from the page; the stream's own
\* beforeunload listener
Kill ==
  /\ Handler(kill(ms))
  /\ UNCHANGED page

\* The browser drops the page and loads it again
Reload ==
  /\ FreshKeys(NoKey) # {}
  /\ ms' = [NewMonitorStream(genConnKey(NoKey)) EXCEPT
              !.abandoned = {k \in Keys : zms[k].st # "gone"}]
  /\ page' = NewPage
  /\ queue' = <<>> /\ flight' = Idle
  /\ UNCHANGED <<zms, faults>>

-----------------------------------------------------------------------------
(* Timers, the events of the img, and replies.                             *)

Poll ==
  /\ ms.pollers > 0
  /\ Handler(streamCommand(ms, "QUERY"))
  /\ UNCHANGED page

\* The stream has ended, or what was loaded is no picture; a src that was
\* blanked counts as an error too
img_onerror(c) ==
  LET e == [ClearPoller(c) EXCEPT !.errors = TRUE, !.img = Blank]
  IN IF c.authRefreshAttempts >= MAX_AUTH_REFRESH_ATTEMPTS THEN e
     ELSE [e EXCEPT !.authRefreshAttempts = @ + 1,
                    !.authRefreshTimer = IF c.img = PageHtml THEN "page" ELSE "stream"]

ImgError ==
  /\ ms.handlers
  /\ ms.img \in Keys => zms[ms.img].st = "gone"
  /\ Handler(img_onerror(ms))
  /\ UNCHANGED page

img_onload(c) ==
  LET r == [c EXCEPT !.errors = @ /\ ~c.activePlayer,
                     !.authRefreshAttempts = 0, !.authRefreshTimer = "none"]
  IN IF c.started /\ ~c.streamCmdTimer THEN SetPoller(streamCommand(r, "QUERY")) ELSE r

ImgLoad ==
  /\ ms.handlers /\ ms.img \in Keys
  /\ zms[ms.img].st = "running"
  /\ Handler(img_onload(ms))
  /\ UNCHANGED page

\* The back-off is over: a fresh auth hash is asked for.  Bound: one such
\* request at a time
AuthRefresh ==
  /\ ms.authRefreshTimer # "none" /\ ms.authRequest = "none"
  /\ Handler([ms EXCEPT !.authRefreshTimer = "none", !.authRequest = ms.authRefreshTimer])
  /\ UNCHANGED page

\* The img is pointed at a zms with a fresh connkey, the old one dropped
reconnect(c, key) ==
  [c EXCEPT !.authRequest = "none", !.connKey = key, !.heard = FALSE,
            !.img = IF c.authRequest = "page" THEN PageHtml ELSE key,
            !.abandoned = @ \cup ({c.connKey} \ {NoKey})]

AuthRefreshed ==
  /\ ms.authRequest # "none" /\ HasKey
  /\ Handler(reconnect(ms, NewKey))
  /\ UNCHANGED page

\* The request fails, and nothing asks again
AuthRefreshFailed ==
  /\ ms.authRequest # "none"
  /\ Handler([ms EXCEPT !.authRequest = "none"])
  /\ UNCHANGED page

\* Mutant: every error is taken for the end of the zms
Mutant_AlwaysFatal(result) == TRUE

streamErrorIsFatal(result) == result = "no_socket"

\* A reload replaces the connkey; a blank src is "refreshed" into the url of
\* the page itself (refreshStreamSrc)
reload(c, key) ==
  [quitConnKey(c, c.connKey) EXCEPT !.connKey = key, !.heard = FALSE,
     !.img = IF c.img \in Keys THEN key ELSE PageHtml]

getStreamCmdResponse(c, key, result, fresh) ==
  IF key # c.connKey THEN c
  ELSE IF result = "ok"
  THEN LET h == [c EXCEPT !.heard = TRUE]
       IN IF c.started /\ ~c.streamCmdTimer THEN SetPoller(h) ELSE h
  ELSE IF c.started /\ streamErrorIsFatal(result) THEN reload(c, fresh) ELSE c

\* A request the web server does not answer is only logged (onFailure)
Response ==
  /\ flight.st = "answered"
  /\ (Head(queue).key = ms.connKey /\ flight.result = "no_socket") => HasKey
  /\ LET request == Head(queue)
         c == IF flight.result = "failed" THEN ms
              ELSE getStreamCmdResponse(ms, request.key, flight.result, NewKey)
         q == request.cmd = "QUIT" /\ flight.result # "ok"
     IN /\ Handled([c EXCEPT !.abandoned = IF q THEN @ \cup {request.key} ELSE @])
        /\ Dequeue(c.out)
  /\ UNCHANGED page

-----------------------------------------------------------------------------
Next ==
  \/ StartMonitors
  \/ \E inView \in BOOLEAN : Scroll(inView)
  \/ Rest
  \/ Kill
  \/ Reload
  \/ Poll
  \/ ImgError
  \/ ImgLoad
  \/ AuthRefresh
  \/ AuthRefreshed
  \/ AuthRefreshFailed
  \/ Response
  \/ SocketNext(ms.img) /\ UNCHANGED <<ms, page>>

Spec == Init /\ [][Next]_vars

-----------------------------------------------------------------------------
(* Properties.                                                             *)

MsType ==
  [started : BOOLEAN, starting : BOOLEAN, connKey : Keys \cup {NoKey},
   img : Keys \cup {Blank, PageHtml}, handlers : BOOLEAN, activePlayer : BOOLEAN,
   stoppedPlayer : BOOLEAN, errors : BOOLEAN, pollers : 0..1, streamCmdTimer : BOOLEAN,
   authRefreshTimer : Broken, authRequest : Broken,
   authRefreshAttempts : 0..MAX_AUTH_REFRESH_ATTEMPTS, heard : BOOLEAN,
   out : {<<>>}, abandoned : SUBSET Keys]

\* Types: requests name connkeys, and at most one status timer runs
TypeOK ==
  /\ ms \in MsType
  /\ page \in [initComplete : BOOLEAN, inView : BOOLEAN, resting : BOOLEAN]
  /\ SocketTypeOK

\* However start, stop, kill, errors and late replies follow each other, only a
\* stream that is started polls its zms, with one timer at most: a timer whose
\* handle is lost would poll for as long as the page is open
PollsOnlyWhileStarted ==
  /\ ms.pollers = IF ms.streamCmdTimer THEN 1 ELSE 0
  /\ ms.streamCmdTimer => ms.started /\ ms.activePlayer /\ ms.connKey # NoKey

\* Of the zms a page has started, all but the one it can still address have a
\* QUIT on their way: the exceptions are those the auth refresh replaces, those
\* of a page that has gone, and those whose QUIT could not be delivered
QuitOnItsWay ==
  \A k \in Keys :
    zms[k].st = "gone" \/ k = ms.connKey \/ k \in ms.abandoned \/ QuitPending(k)

\* A zms that has answered is only replaced by a reply when it has ended
HealthyStreamIsKept ==
  [][(Response /\ ms.heard /\ ms'.connKey # ms.connKey) => zms[ms.connKey].st = "gone"]_vars

\* While no request is lost, a stream that is started is playing once its
\* commands have been carried out: stop and start in quick succession do not
\* leave it frozen
StartedMeansPlaying ==
  (/\ ms.started /\ zms[ms.connKey].st = "running"
   /\ queue = <<>> /\ zms[ms.connKey].box = <<>>)
  => zms[ms.connKey].mode = "play"

\* auth-helpers.js, applyTo: a blank src stays blank, the surrounding HTML is
\* never loaded as an image
PageIsNoImage == ms.img # PageHtml

\* MonitorStream.js, img_onerror: when the refreshed hash arrives the zms of
\* the old connkey has exited
RefreshedKeyIsDead ==
  [][AuthRefreshed => (ms.connKey = NoKey \/ zms[ms.connKey].st = "gone")]_vars
=============================================================================
