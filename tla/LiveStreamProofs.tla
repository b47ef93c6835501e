-------------------------- MODULE LiveStreamProofs --------------------------
(***************************************************************************)
(* Proofs about LiveStream, for any connkeys, bounds and faults.  Each     *)
(* method of MonitorStream takes a coherent object to a coherent one,      *)
(* quits or writes off the connkey it drops, and leaves a started stream   *)
(* with a zms that plays or is told to; the steps of php and zms are those *)
(* of CommandSocketProofs.                                                 *)
(***************************************************************************)
EXTENDS LiveStream, CommandSocketProofs

\* The object between two statements of a handler
Objects ==
  [started : BOOLEAN, starting : BOOLEAN, connKey : Keys \cup {NoKey},
   img : Keys \cup {Blank, PageHtml}, handlers : BOOLEAN, activePlayer : BOOLEAN,
   stoppedPlayer : BOOLEAN, errors : BOOLEAN, pollers : Int, streamCmdTimer : BOOLEAN,
   authRefreshTimer : Broken, authRequest : Broken,
   authRefreshAttempts : 0..MAX_AUTH_REFRESH_ATTEMPTS, heard : BOOLEAN,
   out : Seq(Requests), abandoned : SUBSET Keys]

Pages == [initComplete : BOOLEAN, inView : BOOLEAN, resting : BOOLEAN]

\* A started stream has its player and a connkey; only it polls, with one timer
Coherent(c) ==
  /\ c.pollers = IF c.streamCmdTimer THEN 1 ELSE 0
  /\ c.streamCmdTimer => c.started
  /\ c.started => c.connKey # NoKey
  /\ c.activePlayer = c.started

\* A started stream keeps its zms playing: it has a new one, told nothing that
\* would halt it, or it was started and is told nothing that would, or the last
\* thing that the zms is told resumes it
Resumed(c, d, key) ==
  d.started =>
    \/ d.connKey = key /\ NeverHalts(key, d.out)
    \/ /\ d.connKey = c.connKey
       /\ \/ EndsResumed(c.connKey, d.out)
          \/ c.started /\ NeverHalts(c.connKey, d.out)

\* d came from c, with key as the only connkey that may have been drawn
Step(c, d, key) ==
  /\ d \in Objects /\ Coherent(d)
  /\ c.abandoned \subseteq d.abandoned
  /\ \/ c.connKey \in {d.connKey, NoKey}
     \/ Quits(c.connKey, d.out)
     \/ c.connKey \in d.abandoned
  /\ d.connKey \in {c.connKey, NoKey, key}
  /\ d.img \in Keys => d.img = c.img \/ (d.img = key /\ d.connKey = key)
  /\ d.heard => c.heard /\ d.connKey \in {c.connKey, NoKey}
  /\ Resumed(c, d, key)

-----------------------------------------------------------------------------
(* The inductive invariant.                                                *)

\* What php says of a zms is still true when the page hears it
FlightInv ==
  Answered("no_socket") =>
    (Head(queue).key = ms.connKey /\ ms.heard => zms[ms.connKey].st = "gone")

\* A zms that has answered is past its start
HeardInv == (ms.heard /\ ms.connKey # NoKey) => zms[ms.connKey].st # "starting"

\* No request is lost: neither php nor the web server fails
Lossless == FaultKinds \cap {"transient", "failed"} = {}

\* Then no exchange ends that way, and a started stream will play
PlayInv ==
  Lossless =>
    /\ \A result \in {"", "transient", "failed"} : ~Answered(result)
    /\ ms.started => WillPlay(ms.connKey)

IInv == /\ TypeOK /\ SocketInv /\ Coherent(ms) /\ QuitOnItsWay
        /\ FlightInv /\ HeardInv /\ PlayInv

-----------------------------------------------------------------------------
(* Requests of a handler: none, or one.                                    *)

\* No request says nothing
LEMMA NoRequest ==
  <<>> \in Seq(Requests) /\ \A k : NeverHalts(k, <<>>)
<1>1. Len(<<>>) = 0 /\ <<>> \in Seq(Requests)
  OBVIOUS
<1> QED BY <1>1 DEF NeverHalts

\* One request says what it says
LEMMA OneRequest ==
  ASSUME NEW key \in Keys, NEW cmd \in Commands \ {"VARPLAY"}
  PROVE  LET out == Append(<<>>, Request(key, cmd))
         IN /\ out \in Seq(Requests)
            /\ cmd = "QUIT" => Quits(key, out)
            /\ cmd \in {"QUERY", "PLAY", "QUIT"} => \A k : NeverHalts(k, out)
            /\ cmd = "PLAY" => EndsResumed(key, out)
<1> DEFINE r == Request(key, cmd)
           out == <<r>>
<1>1. r.key = key /\ r.cmd = cmd
  BY DEF Request
<1>2. r \in Requests
  BY SocketConstants DEF Request, Requests
<1> HIDE DEF r
<1>3. out = Append(<<>>, r)
  <2>1. Append(<<>>, r) = <<>> \o <<r>>
    BY <1>2, NoRequest, AppendIsConcat, Zenon
  <2>2. <<r>> \in Seq(Requests)
    BY <1>2
  <2> QED BY <2>1, <2>2, ConcatEmptySeq
<1>4. cmd = "QUIT" => Quits(key, Append(<<>>, r))
  BY <1>1, <1>2, NoRequest, QuitsAppend
<1>5. /\ <<r>> \in Seq(Requests)
      /\ cmd \in {"QUERY", "PLAY", "QUIT"} => \A k : NeverHalts(k, <<r>>)
      /\ cmd = "PLAY" => EndsResumed(key, <<r>>)
  BY <1>1, <1>2, ResumedOne DEF Halts, Resumes
<1> QED BY <1>3, <1>4, <1>5 DEF r

-----------------------------------------------------------------------------
(* The methods.                                                            *)

\* The object as a handler finds it
Entered(c) == c \in Objects /\ Coherent(c) /\ c.out = <<>>

\* Doing nothing is a step
LEMMA StepSelf ==
  ASSUME NEW c, Entered(c), NEW key
  PROVE  Step(c, c, key)
<1>1. NeverHalts(c.connKey, c.out) /\ c \in Objects /\ Coherent(c)
  BY NoRequest DEF Entered
<1> QED BY <1>1 DEF Step, Resumed

\* A change of the fields that say nothing about connections, timers or
\* requests
LEMMA EditStep ==
  ASSUME NEW c, Entered(c), NEW d \in Objects, NEW key,
         d.started = c.started, d.connKey = c.connKey, d.activePlayer = c.activePlayer,
         d.img \in Keys => d.img = c.img, d.out = c.out, d.abandoned = c.abandoned,
         d.heard = c.heard, d.pollers = c.pollers, d.streamCmdTimer = c.streamCmdTimer
  PROVE  Step(c, d, key) /\ Entered(d)
<1>1. NeverHalts(c.connKey, c.out) /\ c \in Objects
  BY NoRequest DEF Entered
<1>2. Coherent(d)
  BY DEF Entered, Coherent
<1> QED BY <1>1, <1>2 DEF Step, Resumed, Entered

\* What stop and kill assign keeps the object's type
LEMMA StoppedObject ==
  ASSUME NEW c \in Objects, NEW no \in BOOLEAN, NEW a \in BOOLEAN, NEW h \in BOOLEAN,
         NEW n \in Int, NEW o \in Seq(Requests), NEW k \in Keys \cup {NoKey}
  PROVE  [c EXCEPT !.handlers = h, !.pollers = n, !.streamCmdTimer = no, !.out = o,
                   !.stoppedPlayer = a, !.activePlayer = no, !.started = no,
                   !.starting = no, !.connKey = k] \in Objects
  BY DEF Objects

\* stop: the timer goes with the stream, and the zms and its connkey are kept
LEMMA StopStep ==
  ASSUME NEW c, Entered(c), NEW key
  PROVE  Step(c, stop(c, FALSE), key)
<1> DEFINE d == stop(c, FALSE)
           no == FALSE
           n == IF c.streamCmdTimer THEN c.pollers - 1 ELSE c.pollers
           o == IF c.activePlayer THEN Append(<<>>, Request(c.connKey, "STOP")) ELSE <<>>
           a == c.activePlayer
<1> USE DEF Entered
<1>1. CASE ~c.started /\ ~c.starting
  <2>1. d = c
    BY <1>1 DEF stop
  <2> QED BY <2>1, StepSelf
<1>2. CASE c.started \/ c.starting
  <2>1. d = [c EXCEPT !.pollers = n, !.streamCmdTimer = no, !.out = o, !.stoppedPlayer = a,
                      !.activePlayer = no, !.started = no, !.starting = no]
    <3>1. CASE c.activePlayer
      <4>1. c.started
        BY <3>1 DEF Coherent
      <4> QED BY <1>2, <3>1, <4>1 DEF stop, ClearPoller, streamCommand, Objects
    <3>2. CASE ~c.activePlayer
      BY <1>2, <3>2 DEF stop, ClearPoller, streamCommand, Objects
    <3> QED BY <3>1, <3>2
  <2>2. no \in BOOLEAN /\ ~no /\ a \in BOOLEAN /\ n = 0
    BY DEF Coherent, Objects
  <2>3. o \in Seq(Requests)
    <3>1. CASE c.activePlayer
      <4>1. c.connKey \in Keys /\ "STOP" \in Commands \ {"VARPLAY"}
        BY <3>1 DEF Coherent, Objects, Commands
      <4> QED BY <3>1, <4>1, OneRequest
    <3>2. CASE ~c.activePlayer
      BY <3>2, NoRequest
    <3> QED BY <3>1, <3>2
  <2> HIDE DEF no, n, o, a, d
  <2>4. d \in Objects
    <3> DEFINE h == c.handlers
               k == c.connKey
    <3>1. h \in BOOLEAN /\ k \in Keys \cup {NoKey} /\ n \in Int
      BY <2>2 DEF Objects
    <3>2. d = [c EXCEPT !.handlers = h, !.pollers = n, !.streamCmdTimer = no, !.out = o,
                        !.stoppedPlayer = a, !.activePlayer = no, !.started = no,
                        !.starting = no, !.connKey = k]
      BY <2>1 DEF Objects
    <3> HIDE DEF h, k
    <3> QED BY <2>2, <2>3, <3>1, <3>2, StoppedObject, ZenonT(60)
  <2>5. /\ ~d.started /\ ~d.activePlayer /\ ~d.streamCmdTimer /\ d.pollers = 0
        /\ d.connKey = c.connKey /\ d.img = c.img /\ d.abandoned = c.abandoned /\ d.heard = c.heard
        /\ d.activePlayer = d.started
    BY <2>1, <2>2 DEF Objects
  <2>6. Coherent(d)
    BY <2>5 DEF Coherent
  <2> QED BY <2>4, <2>5, <2>6 DEF Step, Resumed, d
<1> QED BY <1>1, <1>2

\* kill: the QUIT goes out before the connkey is dropped
LEMMA KillStep ==
  ASSUME NEW c, Entered(c), NEW key
  PROVE  Step(c, kill(c), key)
<1> DEFINE d == kill(c)
           no == FALSE
           n == IF c.streamCmdTimer THEN c.pollers - 1 ELSE c.pollers
           o == Append(<<>>, Request(c.connKey, "QUIT"))
           a == c.activePlayer
           q == [c EXCEPT !.handlers = no]
<1> USE DEF Entered
<1>1. no \in BOOLEAN /\ ~no /\ a \in BOOLEAN /\ n = 0
  BY DEF Coherent, Objects
<1>2. CASE c.started
  <2>1. c.activePlayer /\ c.connKey # NoKey /\ c.connKey \in Keys
    BY <1>2 DEF Coherent, Objects
  <2>2. d = [c EXCEPT !.handlers = no, !.pollers = n, !.streamCmdTimer = no, !.out = o,
                      !.stoppedPlayer = a, !.activePlayer = no, !.started = no,
                      !.starting = no, !.connKey = NoKey]
    <3> DEFINE e == [q EXCEPT !.out = o]
    <3>1. streamCommand(q, "QUIT") = e
      BY <1>2 DEF streamCommand, Objects
    <3>2. stop(e, TRUE) = [e EXCEPT !.pollers = n, !.streamCmdTimer = no, !.stoppedPlayer = a,
                                    !.activePlayer = no, !.started = no, !.starting = no]
      BY <1>2 DEF stop, ClearPoller, Objects
    <3>3. d = [stop(e, TRUE) EXCEPT !.connKey = NoKey]
      BY <1>2, <2>1, <3>1 DEF kill
    <3> QED BY <3>2, <3>3, ZenonT(60) DEF Objects
  <2>3. o \in Seq(Requests) /\ Quits(c.connKey, o)
    <3>1. "QUIT" \in Commands \ {"VARPLAY"}
      BY DEF Commands
    <3> QED BY <2>1, <3>1, OneRequest
  <2> HIDE DEF no, n, o, a, d, q
  <2>4. d \in Objects
    <3>1. NoKey \in Keys \cup {NoKey} /\ n \in Int
      BY <1>1
    <3> QED BY <1>1, <2>2, <2>3, <3>1, StoppedObject
  <2>5. /\ ~d.started /\ ~d.activePlayer /\ ~d.streamCmdTimer /\ d.pollers = 0 /\ d.out = o
        /\ d.connKey = NoKey /\ d.img = c.img /\ d.abandoned = c.abandoned /\ d.heard = c.heard
        /\ d.activePlayer = d.started
    BY <1>1, <2>2 DEF Objects
  <2>6. Coherent(d)
    BY <2>5 DEF Coherent
  <2> QED BY <2>3, <2>4, <2>5, <2>6 DEF Step, Resumed, d
<1>3. CASE ~c.started
  <2>1. ~c.activePlayer
    BY <1>3 DEF Coherent
  <2>2. d = stop(q, FALSE)
    BY <2>1 DEF kill
  <2> HIDE DEF no
  <2>3. q \in Objects
    BY <1>1 DEF Objects
  <2>4. /\ q.started = c.started /\ q.connKey = c.connKey /\ q.activePlayer = c.activePlayer
        /\ q.img = c.img /\ q.out = c.out /\ q.abandoned = c.abandoned
        /\ q.heard = c.heard /\ q.pollers = c.pollers /\ q.streamCmdTimer = c.streamCmdTimer
    BY DEF Objects
  <2> HIDE DEF q, d
  <2>5. Entered(q)
    BY <2>3, <2>4, EditStep
  <2>6. Step(q, d, key)
    BY <2>2, <2>5, StopStep
  <2> QED BY <2>4, <2>6 DEF Step, Resumed, d
<1> QED BY <1>2, <1>3

\* A step after such a change
LEMMA EditThen ==
  ASSUME NEW c, Entered(c), NEW e \in Objects, NEW d, NEW key, Step(e, d, key),
         e.started = c.started, e.connKey = c.connKey, e.img = c.img,
         e.abandoned = c.abandoned, e.heard = c.heard
  PROVE  Step(c, d, key)
  BY DEF Step, Resumed

\* What select_zms assigns keeps the object's type
LEMMA StartedObject ==
  ASSUME NEW c \in Objects, NEW yes \in BOOLEAN, NEW no \in BOOLEAN, NEW t \in BOOLEAN,
         NEW n \in Int, NEW o \in Seq(Requests), NEW k \in Keys \cup {NoKey},
         NEW i \in Keys \cup {Blank, PageHtml}, NEW h \in BOOLEAN
  PROVE  [c EXCEPT !.handlers = yes, !.pollers = n, !.streamCmdTimer = t, !.out = o,
                   !.connKey = k, !.img = i, !.heard = h, !.started = yes,
                   !.activePlayer = yes, !.stoppedPlayer = no] \in Objects
  BY ZenonT(60) DEF Objects

\* So does what it assigns when it resumes
LEMMA ResumedObject ==
  ASSUME NEW c \in Objects, NEW yes \in BOOLEAN, NEW no \in BOOLEAN,
         NEW n \in Int, NEW o \in Seq(Requests)
  PROVE  [c EXCEPT !.handlers = yes, !.pollers = n, !.streamCmdTimer = yes, !.out = o,
                   !.started = yes, !.activePlayer = yes, !.stoppedPlayer = no] \in Objects
  BY DEF Objects

\* select_zms resumes the zms that stop() left
LEMMA ResumeStep ==
  ASSUME NEW c, Entered(c), ~c.started, NEW key, c.stoppedPlayer, c.connKey # NoKey
  PROVE  Step(c, select_zms(c, TRUE, key), key)
<1> USE DEF Entered
<1> DEFINE d == select_zms(c, TRUE, key)
           yes == TRUE
           no == FALSE
           n == 1
           o == Append(<<>>, Request(c.connKey, "PLAY"))
<1>1. /\ c.connKey \in Keys /\ c.activePlayer = FALSE /\ c.streamCmdTimer = FALSE
      /\ c.pollers = 0
  BY DEF Coherent, Objects
<1>2. d = [c EXCEPT !.handlers = yes, !.pollers = n, !.streamCmdTimer = yes, !.out = o,
                    !.started = yes, !.activePlayer = yes, !.stoppedPlayer = no]
  <2> DEFINE p == [ClearPoller(c) EXCEPT !.handlers = TRUE]
             s == SetPoller([p EXCEPT !.started = TRUE])
             e == [c EXCEPT !.handlers = yes, !.pollers = n, !.streamCmdTimer = yes,
                            !.started = yes]
  <2>1. p = [c EXCEPT !.handlers = yes]
    BY <1>1 DEF ClearPoller, Objects
  <2>2. s = e
    <3> DEFINE f == [p EXCEPT !.started = TRUE]
    <3>1. f = [c EXCEPT !.handlers = yes, !.started = yes]
      BY <2>1 DEF Objects
    <3>2. f.pollers = 0 /\ f.pollers + 1 = n
      <4>1. f.pollers = c.pollers
        BY <3>1 DEF Objects
      <4> QED BY <1>1, <4>1
    <3> HIDE DEF f, p, n
    <3>3. s = [f EXCEPT !.pollers = n, !.streamCmdTimer = yes]
      BY <3>2 DEF SetPoller, f
    <3> QED BY <3>1, <3>3 DEF Objects
  <2>3. streamCommand(e, "PLAY") = [e EXCEPT !.out = o]
    BY DEF streamCommand, Objects
  <2>4. d = [streamCommand(s, "PLAY") EXCEPT
               !.started = TRUE, !.activePlayer = TRUE, !.stoppedPlayer = FALSE]
    BY DEF select_zms
  <2> HIDE DEF p, s
  <2> QED BY <2>2, <2>3, <2>4, ZenonT(60) DEF Objects
<1>3. o \in Seq(Requests) /\ EndsResumed(c.connKey, o)
  <2>1. "PLAY" \in Commands \ {"VARPLAY"}
    BY DEF Commands
  <2> QED BY <1>1, <2>1, OneRequest
<1>4. yes \in BOOLEAN /\ no \in BOOLEAN /\ yes = TRUE /\ n = 1 /\ n \in Int
  OBVIOUS
<1> HIDE DEF yes, no, n, o, d
<1>5. d \in Objects
  <2>1. c \in Objects /\ o \in Seq(Requests)
    BY <1>3
  <2> QED BY <1>2, <1>4, <2>1, ResumedObject
<1>6. /\ d.started = TRUE /\ d.activePlayer = TRUE /\ d.streamCmdTimer = TRUE /\ d.pollers = 1
      /\ d.connKey = c.connKey /\ d.img = c.img /\ d.abandoned = c.abandoned
      /\ d.heard = c.heard /\ d.out = o
  BY <1>2, <1>4 DEF Objects
<1>7. Coherent(d)
  BY <1>6 DEF Coherent
<1> QED BY <1>3, <1>5, <1>6, <1>7 DEF Step, Resumed, d

\* quitConnKey has an object without a connkey say nothing
LEMMA QuitOut ==
  ASSUME NEW c, Entered(c)
  PROVE  LET o == IF c.connKey = NoKey THEN <<>> ELSE Append(<<>>, Request(c.connKey, "QUIT"))
         IN /\ o \in Seq(Requests)
            /\ c.connKey = NoKey \/ Quits(c.connKey, o)
            /\ \A k : NeverHalts(k, o)
<1>1. CASE c.connKey = NoKey
  BY <1>1, NoRequest
<1>2. CASE c.connKey # NoKey
  <2>1. c.connKey \in Keys /\ "QUIT" \in Commands \ {"VARPLAY"}
    BY <1>2 DEF Entered, Objects, Commands
  <2> QED BY <1>2, <2>1, OneRequest
<1> QED BY <1>1, <1>2

\* select_zms tells the zms it replaces to quit
LEMMA ReplaceStep ==
  ASSUME NEW c, Entered(c), ~c.started, NEW key \in Keys, NEW auth \in BOOLEAN,
         ~(auth /\ c.stoppedPlayer /\ c.connKey # NoKey)
  PROVE  Step(c, select_zms(c, auth, key), key)
<1> USE DEF Entered
<1> DEFINE d == select_zms(c, auth, key)
           yes == TRUE
           no == FALSE
           n == 0
           o == IF c.connKey = NoKey THEN <<>> ELSE Append(<<>>, Request(c.connKey, "QUIT"))
<1>1. /\ c.activePlayer = FALSE /\ c.streamCmdTimer = FALSE /\ c.pollers = 0
  BY DEF Coherent, Objects
<1>2. d = [c EXCEPT !.handlers = yes, !.pollers = n, !.streamCmdTimer = no, !.out = o,
                    !.connKey = key, !.img = key, !.heard = no, !.started = yes,
                    !.activePlayer = yes, !.stoppedPlayer = no]
  <2> DEFINE p == [ClearPoller(c) EXCEPT !.handlers = TRUE]
             e == [c EXCEPT !.handlers = yes, !.pollers = n, !.streamCmdTimer = no]
             f == [c EXCEPT !.handlers = yes, !.pollers = n, !.streamCmdTimer = no, !.out = o]
  <2>1. p = e
    BY <1>1 DEF ClearPoller, Objects
  <2>2. quitConnKey(e, c.connKey) = f
    BY DEF quitConnKey, Objects
  <2>3. d = [quitConnKey(p, c.connKey) EXCEPT !.connKey = key, !.img = key, !.heard = FALSE,
               !.started = TRUE, !.activePlayer = TRUE, !.stoppedPlayer = FALSE]
    <3> HIDE DEF p
    <3>1. d = [[quitConnKey(p, c.connKey) EXCEPT !.connKey = key, !.img = key, !.heard = FALSE]
               EXCEPT !.started = TRUE, !.activePlayer = TRUE, !.stoppedPlayer = FALSE]
      BY <1>1 DEF select_zms, p
    <3> QED BY <3>1
  <2> HIDE DEF p
  <2> QED BY <2>1, <2>2, <2>3 DEF Objects
<1>3. /\ o \in Seq(Requests) /\ (c.connKey = NoKey \/ Quits(c.connKey, o))
      /\ NeverHalts(key, o)
  BY QuitOut
<1>4. /\ yes \in BOOLEAN /\ no \in BOOLEAN /\ yes = TRUE /\ no = FALSE /\ n = 0 /\ n \in Int
      /\ key \in Keys \cup {NoKey} /\ key \in Keys \cup {Blank, PageHtml} /\ key # NoKey
  BY SocketConstants
<1> HIDE DEF yes, no, n, o, d
<1>5. d \in Objects
  BY <1>2, <1>3, <1>4, StartedObject, ZenonT(60)
<1>6. /\ d.started = TRUE /\ d.activePlayer = TRUE /\ d.streamCmdTimer = FALSE /\ d.pollers = 0
      /\ d.connKey = key /\ d.img = key /\ d.abandoned = c.abandoned
      /\ d.heard = FALSE /\ d.out = o
  BY <1>2, <1>4 DEF Objects
<1>7. Coherent(d)
  BY <1>4, <1>6 DEF Coherent
<1> QED BY <1>3, <1>5, <1>6, <1>7 DEF Step, Resumed, d

\* start: a player that has failed is passed over, zms resumed or replaced
LEMMA StartStep ==
  ASSUME NEW c, Entered(c), NEW key \in Keys, NEW auth \in BOOLEAN
  PROVE  Step(c, start(c, auth, key), key)
<1> DEFINE d == start(c, auth, key)
           yes == TRUE
           e == [c EXCEPT !.starting = yes]
<1>1. CASE c.started \/ c.starting
  <2>1. d = c
    BY <1>1 DEF start
  <2> QED BY <2>1, StepSelf
<1>2. CASE ~(c.started \/ c.starting)
  <2>1. d = selectPlayer(e, auth, key)
    BY <1>2 DEF start
  <2>2. yes \in BOOLEAN /\ c \in Objects
    BY DEF Entered
  <2> HIDE DEF yes
  <2>3. e \in Objects
    BY <2>2 DEF Objects
  <2>4. /\ e.started = c.started /\ e.connKey = c.connKey /\ e.activePlayer = c.activePlayer
        /\ e.img = c.img /\ e.out = c.out /\ e.abandoned = c.abandoned /\ e.heard = c.heard
        /\ e.pollers = c.pollers /\ e.streamCmdTimer = c.streamCmdTimer
    BY <2>2 DEF Objects
  <2> HIDE DEF e, d
  <2>5. Step(c, e, key) /\ Entered(e)
    BY <2>3, <2>4, EditStep
  <2>6. CASE e.errors
    <3>1. d = e
      BY <2>1, <2>6 DEF selectPlayer
    <3> QED BY <2>5, <3>1 DEF d
  <2>7. CASE ~e.errors
    <3> DEFINE f == select_zms(e, auth, key)
    <3>1. d = f
      BY <2>1, <2>7 DEF selectPlayer
    <3>2. Step(e, f, key)
      <4>1. CASE auth /\ e.stoppedPlayer /\ e.connKey # NoKey
        <5>1. auth = TRUE
          BY <4>1
        <5> QED BY <1>2, <2>4, <2>5, <4>1, <5>1, ResumeStep
      <4>2. CASE ~(auth /\ e.stoppedPlayer /\ e.connKey # NoKey)
        BY <1>2, <2>4, <2>5, <4>2, ReplaceStep
      <4> QED BY <4>1, <4>2
    <3> HIDE DEF f
    <3> QED BY <2>3, <2>4, <3>1, <3>2, EditThen DEF d
  <2> QED BY <2>6, <2>7
<1> QED BY <1>1, <1>2

\* A status request that is added to a started stream
LEMMA QueryStep ==
  ASSUME NEW c, Entered(c), NEW key
  PROVE  LET d == streamCommand(c, "QUERY")
         IN Step(c, d, key)
<1> USE DEF Entered
<1> DEFINE d == streamCommand(c, "QUERY")
           o == Append(<<>>, Request(c.connKey, "QUERY"))
<1>1. CASE ~c.started
  <2>1. d = c
    BY <1>1 DEF streamCommand
  <2> QED BY <2>1, StepSelf
<1>2. CASE c.started
  <2>1. c.connKey \in Keys
    BY <1>2 DEF Coherent, Objects
  <2>2. "QUERY" \in Commands \ {"VARPLAY"}
    BY DEF Commands
  <2>3. o \in Seq(Requests) /\ NeverHalts(c.connKey, o)
    BY <2>1, <2>2, OneRequest
  <2>4. d = [c EXCEPT !.out = o]
    BY <1>2 DEF streamCommand
  <2> HIDE DEF o, d
  <2>5. d \in Objects
    BY <2>3, <2>4 DEF Objects
  <2>6. /\ d.started = c.started /\ d.connKey = c.connKey /\ d.activePlayer = c.activePlayer
        /\ d.img = c.img /\ d.out = o /\ d.abandoned = c.abandoned /\ d.heard = c.heard
        /\ d.pollers = c.pollers /\ d.streamCmdTimer = c.streamCmdTimer
    BY <2>4 DEF Objects
  <2>7. Coherent(d)
    BY <2>6 DEF Coherent
  <2> QED BY <1>2, <2>3, <2>5, <2>6, <2>7 DEF Step, Resumed, d
<1> QED BY <1>1, <1>2

\* What img_onerror assigns keeps the object's type
LEMMA FailedObject ==
  ASSUME NEW c \in Objects, NEW yes \in BOOLEAN, NEW no \in BOOLEAN, NEW n \in Int,
         NEW i \in Keys \cup {Blank, PageHtml}, NEW m \in 0..MAX_AUTH_REFRESH_ATTEMPTS,
         NEW t \in Broken
  PROVE  [c EXCEPT !.pollers = n, !.streamCmdTimer = no, !.errors = yes, !.img = i,
                   !.authRefreshAttempts = m, !.authRefreshTimer = t] \in Objects
  BY DEF Objects

\* img_onerror: polling stops, and the stream stays as started as it was
LEMMA ImgErrorStep ==
  ASSUME NEW c, Entered(c), NEW key
  PROVE  Step(c, img_onerror(c), key)
<1> USE DEF Entered
<1> DEFINE d == img_onerror(c)
           yes == TRUE
           no == FALSE
           n == IF c.streamCmdTimer THEN c.pollers - 1 ELSE c.pollers
           i == Blank
           m == IF c.authRefreshAttempts >= MAX_AUTH_REFRESH_ATTEMPTS
                THEN c.authRefreshAttempts ELSE c.authRefreshAttempts + 1
           t == IF c.authRefreshAttempts >= MAX_AUTH_REFRESH_ATTEMPTS THEN c.authRefreshTimer
                ELSE IF c.img = PageHtml THEN "page" ELSE "stream"
<1>1. d = [c EXCEPT !.pollers = n, !.streamCmdTimer = no, !.errors = yes, !.img = i,
                    !.authRefreshAttempts = m, !.authRefreshTimer = t]
  <2> DEFINE e == [ClearPoller(c) EXCEPT !.errors = TRUE, !.img = Blank]
  <2>1. e = [c EXCEPT !.pollers = n, !.streamCmdTimer = no, !.errors = yes, !.img = i]
    BY DEF ClearPoller, Objects
  <2> HIDE DEF e, n
  <2>2. CASE c.authRefreshAttempts >= MAX_AUTH_REFRESH_ATTEMPTS
    BY <2>1, <2>2 DEF img_onerror, e, Objects
  <2>3. CASE ~(c.authRefreshAttempts >= MAX_AUTH_REFRESH_ATTEMPTS)
    <3>1. d = [e EXCEPT !.authRefreshAttempts = e.authRefreshAttempts + 1,
                        !.authRefreshTimer = IF c.img = PageHtml THEN "page" ELSE "stream"]
      BY <2>3 DEF img_onerror, e
    <3>2. e.authRefreshAttempts = c.authRefreshAttempts
      BY <2>1 DEF Objects
    <3>3. d = [e EXCEPT !.authRefreshAttempts = m, !.authRefreshTimer = t]
      BY <2>3, <3>1, <3>2
    <3> HIDE DEF m, t
    <3> QED BY <2>1, <3>3 DEF Objects
  <2> QED BY <2>2, <2>3
<1>2. yes \in BOOLEAN /\ no \in BOOLEAN /\ ~no /\ no = FALSE /\ n = 0
  BY DEF Coherent, Objects
<1>3. i \in Keys \cup {Blank, PageHtml} /\ i \notin Keys
  BY SocketConstants DEF Blank
<1>4. m \in 0..MAX_AUTH_REFRESH_ATTEMPTS
  BY RefreshAssumption DEF Objects
<1>5. t \in Broken
  BY DEF Objects, Broken
<1> HIDE DEF yes, no, n, i, m, t, d
<1>6. d \in Objects
  <2>1. c \in Objects /\ n \in Int
    BY <1>2
  <2> QED BY <1>1, <1>2, <1>3, <1>4, <1>5, <2>1, FailedObject
<1>7. /\ d.started = c.started /\ d.connKey = c.connKey /\ d.activePlayer = c.activePlayer
      /\ d.img = i /\ d.out = c.out /\ d.abandoned = c.abandoned /\ d.heard = c.heard
      /\ d.pollers = 0 /\ d.streamCmdTimer = FALSE
  BY <1>1, <1>2 DEF Objects
<1>8. Coherent(d)
  BY <1>7 DEF Coherent
<1>9. NeverHalts(c.connKey, d.out)
  BY <1>7, NoRequest
<1> QED BY <1>3, <1>6, <1>7, <1>8, <1>9 DEF Step, Resumed, d

\* A timer is set for a stream that is started and has none
LEMMA SetPollerStep ==
  ASSUME NEW c, NEW e, NEW key, Step(c, e, key), e.started, ~e.streamCmdTimer
  PROVE  Step(c, SetPoller(e), key)
<1> DEFINE d == SetPoller(e)
           n == e.pollers + 1
           yes == TRUE
<1>1. e \in Objects /\ Coherent(e)
  BY DEF Step
<1>2. n = 1 /\ n \in Int /\ yes \in BOOLEAN /\ yes = TRUE
  BY <1>1 DEF Coherent
<1>3. d = [e EXCEPT !.pollers = n, !.streamCmdTimer = yes]
  BY DEF SetPoller
<1> HIDE DEF d, n, yes
<1>4. d \in Objects
  BY <1>1, <1>2, <1>3 DEF Objects
<1>5. /\ d.started = e.started /\ d.connKey = e.connKey /\ d.activePlayer = e.activePlayer
      /\ d.img = e.img /\ d.out = e.out /\ d.abandoned = e.abandoned /\ d.heard = e.heard
      /\ d.pollers = 1 /\ d.streamCmdTimer = TRUE
  BY <1>1, <1>2, <1>3 DEF Objects
<1>6. Coherent(d)
  BY <1>1, <1>5 DEF Coherent
<1> QED BY <1>4, <1>5, <1>6 DEF Step, Resumed, d

\* img_onload: errors are cleared, and a started stream polls again
LEMMA ImgLoadStep ==
  ASSUME NEW c, Entered(c), NEW key
  PROVE  Step(c, img_onload(c), key)
<1> DEFINE d == img_onload(c)
           f == c.errors /\ ~c.activePlayer
           z == 0
           t == "none"
           r == [c EXCEPT !.errors = f, !.authRefreshAttempts = z, !.authRefreshTimer = t]
<1>1. d = IF c.started /\ ~c.streamCmdTimer THEN SetPoller(streamCommand(r, "QUERY")) ELSE r
  BY DEF img_onload
<1>2. /\ c \in Objects /\ f \in BOOLEAN /\ z \in 0..MAX_AUTH_REFRESH_ATTEMPTS /\ t \in Broken
  BY RefreshAssumption DEF Entered, Objects, Broken
<1> HIDE DEF f, z, t
<1>3. r \in Objects
  BY <1>2 DEF Objects
<1>4. /\ r.started = c.started /\ r.connKey = c.connKey /\ r.activePlayer = c.activePlayer
      /\ r.img = c.img /\ r.out = c.out /\ r.abandoned = c.abandoned /\ r.heard = c.heard
      /\ r.pollers = c.pollers /\ r.streamCmdTimer = c.streamCmdTimer
  BY <1>2 DEF Objects
<1> HIDE DEF r, d
<1>5. Step(c, r, key) /\ Entered(r)
  BY <1>3, <1>4, EditStep
<1>6. CASE ~(c.started /\ ~c.streamCmdTimer)
  BY <1>1, <1>5, <1>6 DEF d
<1>7. CASE c.started /\ ~c.streamCmdTimer
  <2> DEFINE e == streamCommand(r, "QUERY")
  <2>1. Step(r, e, key)
    BY <1>5, QueryStep
  <2>2. e = [r EXCEPT !.out = Append(@, Request(r.connKey, "QUERY"))]
    BY <1>4, <1>7 DEF streamCommand
  <2>3. e.started /\ ~e.streamCmdTimer
    BY <1>3, <1>4, <1>7, <2>2 DEF Objects
  <2>4. d = SetPoller(e)
    BY <1>1, <1>7
  <2> HIDE DEF e
  <2>5. Step(r, d, key)
    BY <2>1, <2>3, <2>4, SetPollerStep
  <2> QED BY <1>3, <1>4, <2>5, EditThen DEF d
<1> QED BY <1>6, <1>7

\* reconnect: the zms that is replaced is left behind
LEMMA ReconnectStep ==
  ASSUME NEW c, Entered(c), NEW key \in Keys
  PROVE  Step(c, reconnect(c, key), key)
<1> USE DEF Entered
<1> DEFINE d == reconnect(c, key)
           t == "none"
           no == FALSE
           i == IF c.authRequest = "page" THEN PageHtml ELSE key
           a == c.abandoned \cup ({c.connKey} \ {NoKey})
<1>1. d = [c EXCEPT !.authRequest = t, !.connKey = key, !.heard = no, !.img = i, !.abandoned = a]
  BY DEF reconnect
<1>2. t \in Broken /\ no \in BOOLEAN /\ no = FALSE /\ key \in Keys \cup {NoKey} /\ key # NoKey
  BY SocketConstants DEF Broken
<1>3. i \in Keys \cup {Blank, PageHtml} /\ i \in {key, PageHtml} /\ PageHtml \notin Keys
  BY KeysAssumption DEF PageHtml
<1>4. a \in SUBSET Keys /\ c.abandoned \subseteq a /\ c.connKey \in a \cup {NoKey}
  BY DEF Objects
<1> HIDE DEF d, t, no, i, a
<1>5. d \in Objects
  BY <1>1, <1>2, <1>3, <1>4 DEF Objects
<1>6. /\ d.started = c.started /\ d.connKey = key /\ d.activePlayer = c.activePlayer
      /\ d.img = i /\ d.out = c.out /\ d.abandoned = a /\ d.heard = FALSE
      /\ d.pollers = c.pollers /\ d.streamCmdTimer = c.streamCmdTimer
  BY <1>1, <1>2 DEF Objects
<1>7. Coherent(d)
  BY <1>2, <1>6 DEF Coherent
<1>8. NeverHalts(key, d.out)
  BY <1>6, NoRequest
<1> QED BY <1>3, <1>4, <1>5, <1>6, <1>7, <1>8 DEF Step, Resumed, d

\* A reload tells the zms it replaces to quit
LEMMA ReloadStep ==
  ASSUME NEW c, Entered(c), NEW key \in Keys
  PROVE  Step(c, reload(c, key), key)
<1> USE DEF Entered
<1> DEFINE d == reload(c, key)
           no == FALSE
           i == IF c.img \in Keys THEN key ELSE PageHtml
           o == IF c.connKey = NoKey THEN <<>> ELSE Append(<<>>, Request(c.connKey, "QUIT"))
<1>1. d = [c EXCEPT !.out = o, !.connKey = key, !.heard = no, !.img = i]
  <2>1. quitConnKey(c, c.connKey) = [c EXCEPT !.out = o]
    BY DEF quitConnKey, Objects
  <2> HIDE DEF o, i
  <2> QED BY <2>1 DEF reload, i
<1>2. no \in BOOLEAN /\ no = FALSE /\ key \in Keys \cup {NoKey} /\ key # NoKey
  BY SocketConstants
<1>3. i \in Keys \cup {Blank, PageHtml} /\ i \in {key, PageHtml} /\ PageHtml \notin Keys
  BY KeysAssumption DEF PageHtml
<1>4. /\ o \in Seq(Requests) /\ (c.connKey = NoKey \/ Quits(c.connKey, o))
      /\ NeverHalts(key, o)
  BY QuitOut
<1> HIDE DEF d, no, i, o
<1>5. d \in Objects
  BY <1>1, <1>2, <1>3, <1>4 DEF Objects
<1>6. /\ d.started = c.started /\ d.connKey = key /\ d.activePlayer = c.activePlayer
      /\ d.img = i /\ d.out = o /\ d.abandoned = c.abandoned /\ d.heard = FALSE
      /\ d.pollers = c.pollers /\ d.streamCmdTimer = c.streamCmdTimer
  BY <1>1, <1>2 DEF Objects
<1>7. Coherent(d)
  BY <1>2, <1>6 DEF Coherent
<1> QED BY <1>3, <1>4, <1>5, <1>6, <1>7 DEF Step, Resumed, d

-----------------------------------------------------------------------------
(* The handlers.                                                           *)

\* Between handlers the object is one of those the methods are about
LEMMA ObjectOfType ==
  ASSUME IInv
  PROVE  Entered(ms) /\ page \in Pages
<1>1. ms \in MsType /\ page \in Pages /\ Coherent(ms)
  BY DEF IInv, TypeOK, Pages
<1>2. 0..1 \subseteq Int /\ <<>> \in Seq(Requests)
  OBVIOUS
<1>3. ms \in Objects /\ ms.out = <<>>
  BY <1>1, <1>2 DEF MsType, Objects
<1> QED BY <1>1, <1>3 DEF Entered

\* A connkey that is drawn is fresh
LEMMA NewKeyFresh ==
  ASSUME HasKey
  PROVE  NewKey \in FreshKeys(ms.connKey) /\ NewKey \in Keys
  BY DEF HasKey, NewKey, genConnKey, FreshKeys

\* What a handler that has run leaves: b is the object it started from, up to
\* what a reply says of its zms
LEMMA HandledInv ==
  ASSUME IInv, NEW b, NEW d, NEW key,
         key \in FreshKeys(ms.connKey) \cup {NoKey},
         b.connKey = ms.connKey, b.abandoned = ms.abandoned, b.img = ms.img,
         b.heard /\ ms.connKey # NoKey => zms[ms.connKey].st # "starting",
         Step(b, d, key), Handled(d),
         queue' \in Seq(Requests),
         \A k \in Keys : Quits(k, d.out) => Quits(k, queue'),
         \A k \in Keys : Quits(k, queue) =>
           \/ zms[k].st = "gone" \/ k \in d.abandoned
           \/ Quits(k, queue') \/ Quits(k, zms[k].box)
  PROVE  /\ ms' \in MsType /\ zms' \in [Keys -> Processes] /\ faults' = faults
         /\ Coherent(ms)' /\ QuitOnItsWay' /\ HeardInv' /\ BoxesInv'
         /\ \A k \in Keys : Referenced(k) \/ k = ms.connKey => zms'[k] = zms[k]
         /\ key \in Keys => zms'[key].box = <<>> /\ zms'[key].mode = "play"
         /\ ms'.started = d.started /\ ms'.connKey = d.connKey /\ ms'.heard = d.heard
<1> DEFINE a == {k \in d.abandoned : zms[k].st # "gone"}
           o == <<>>
           e == [d EXCEPT !.out = o, !.abandoned = a]
<1>1. d \in Objects /\ Coherent(d)
  BY DEF Step
<1>2. ms' = e /\ faults' = faults
  BY DEF Handled
<1>3. a \in SUBSET Keys /\ o \in {<<>>}
  BY <1>1 DEF Objects
<1> HIDE DEF o
<1>4. /\ e.started = d.started /\ e.connKey = d.connKey /\ e.activePlayer = d.activePlayer
      /\ e.pollers = d.pollers /\ e.streamCmdTimer = d.streamCmdTimer
      /\ e.heard = d.heard /\ e.abandoned = a
  BY <1>1 DEF Objects
<1>5. e \in MsType
  <2>1. d.pollers \in 0..1
    BY <1>1 DEF Coherent
  <2> HIDE DEF a
  <2> QED BY <1>1, <1>3, <2>1 DEF Objects, MsType
<1> HIDE DEF e
<1>6. Coherent(ms)'
  BY <1>1, <1>2, <1>4 DEF Coherent
<1>7. zms \in [Keys -> Processes] /\ SocketInv /\ 1 \in Rates /\ NoKey \notin Keys
  BY SocketTypes, SocketConstants DEF IInv, SocketInv
<1>8. key \in Keys => /\ zms[key].st = "gone" /\ ~Referenced(key) /\ key # ms.connKey
                      /\ zms[key].box = <<>> /\ zms[key].mode = "play"
  <2>1. ASSUME key \in Keys PROVE key \in FreshKeys(ms.connKey)
    BY <1>7, <2>1
  <2> QED BY <1>7, <2>1 DEF FreshKeys, SocketInv, BoxesInv
<1>9. ASSUME NEW k \in Keys
      PROVE  \/ zms[k].st = "gone" \/ Quits(k, queue') \/ Quits(k, zms[k].box)
             \/ k = d.connKey \/ k \in a
  <2>1. zms[k].st = "gone" \/ k = ms.connKey \/ k \in ms.abandoned \/ QuitPending(k)
    BY DEF IInv, QuitOnItsWay
  <2>2. k = ms.connKey => Quits(k, d.out) \/ k \in d.abandoned \/ k = d.connKey
    BY <1>7 DEF Step
  <2>3. k \in ms.abandoned => k \in d.abandoned
    BY DEF Step
  <2> QED BY <2>1, <2>2, <2>3 DEF QuitPending
<1>10. CASE d.img \in Keys /\ d.img # ms.img
  <2>1. d.img = key /\ d.connKey = key /\ key \in Keys
    BY <1>10 DEF Step
  <2>2. ZmsRequested(key, 1)
    BY <1>10, <2>1 DEF Handled
  <2>3. /\ zms' \in [Keys -> Processes] /\ BoxesInv'
        /\ zms'[key].box = <<>> /\ zms'[key].mode = "play"
        /\ \A k \in Keys : k # key => zms'[k] = zms[k]
    BY <1>7, <2>1, <2>2, RequestedStep
  <2>4. d.heard = FALSE
    BY <1>1, <1>7, <1>8, <2>1 DEF Step, Objects
  <2>5. HeardInv'
    BY <1>2, <1>4, <2>4 DEF HeardInv
  <2>6. ASSUME NEW k \in Keys
        PROVE  zms'[k].st = "gone" \/ k = ms'.connKey \/ k \in ms'.abandoned \/ QuitPending(k)'
    <3>1. CASE k = key
      BY <1>2, <1>4, <2>1, <3>1
    <3>2. CASE k # key
      BY <1>2, <1>4, <1>9, <2>3, <3>2 DEF QuitPending
    <3> QED BY <3>1, <3>2
  <2>7. QuitOnItsWay'
    BY <2>6 DEF QuitOnItsWay
  <2>8. \A k \in Keys : Referenced(k) \/ k = ms.connKey => zms'[k] = zms[k]
    BY <1>8, <2>1, <2>3
  <2> QED BY <1>2, <1>4, <1>5, <1>6, <2>3, <2>5, <2>7, <2>8
<1>11. CASE ~(d.img \in Keys /\ d.img # ms.img)
  <2>1. zms' = zms
    BY <1>11 DEF Handled
  <2>2. HeardInv'
    BY <1>2, <1>4, <2>1 DEF HeardInv, Step
  <2>3. QuitOnItsWay'
    BY <1>2, <1>4, <1>9, <2>1 DEF QuitOnItsWay, QuitPending
  <2>4. BoxesInv'
    BY <1>7, <2>1 DEF SocketInv, BoxesInv
  <2> QED BY <1>2, <1>4, <1>5, <1>6, <1>7, <1>8, <2>1, <2>2, <2>3, <2>4
<1> QED BY <1>10, <1>11

\* Whether the zms of a started stream still plays in the end, from what the
\* handler did and what became of the requests before its own
LEMMA ResumedPlays ==
  ASSUME SocketInv, NEW b, NEW d, NEW key, Resumed(b, d, key), Coherent(d), d.started,
         key \in FreshKeys(ms.connKey) \cup {NoKey}, b.connKey = ms.connKey,
         d.connKey \in Keys, d.out \in Seq(Requests), NEW s \in Seq(Requests),
         Unsent' = s \o d.out, key \in Keys => NeverHalts(key, s),
         key \in Keys => zms'[key].box = <<>> /\ zms'[key].mode = "play",
         ms.connKey \in Keys => zms'[ms.connKey] = zms[ms.connKey],
         (b.started /\ d.connKey = ms.connKey)
           => PlaysAfter(ms.connKey, zms[ms.connKey].box, zms[ms.connKey].mode, s)
  PROVE  PlaysAfter(d.connKey, zms'[d.connKey].box, zms'[d.connKey].mode, Unsent')
<1>1. CASE d.connKey = key /\ NeverHalts(key, d.out)
  <2>1. NeverHalts(key, s \o d.out)
    BY <1>1, ResumedConcat
  <2>2. PlaysAfter(key, <<>>, "play", s \o d.out)
    BY <2>1, FreshPlays
  <2>3. PlaysAfter(key, zms'[key].box, zms'[key].mode, Unsent')
    BY <1>1, <2>2
  <2> QED BY <1>1, <2>3
<1>2. CASE /\ d.connKey = ms.connKey
           /\ EndsResumed(ms.connKey, d.out) \/ (b.started /\ NeverHalts(ms.connKey, d.out))
  <2> DEFINE k == ms.connKey
             x == zms[k].box
             m == zms[k].mode
  <2>1. EndsResumed(k, d.out) \/ (PlaysAfter(k, x, m, s) /\ NeverHalts(k, d.out))
    BY <1>2
  <2>2. zms'[k] = zms[k] /\ d.connKey = k
    BY <1>2
  <2> HIDE DEF x, m, k
  <2>3. PlaysAfter(k, x, m, s \o d.out)
    BY <2>1, PlaysConcat
  <2>4. PlaysAfter(k, zms'[k].box, zms'[k].mode, Unsent')
    BY <2>2, <2>3 DEF x, m
  <2> QED BY <2>2, <2>4
<1> QED BY <1>1, <1>2 DEF Resumed

\* The connkey that a started stream has is one, and so is a drawn one
LEMMA StartedKey ==
  ASSUME NEW d \in Objects, Coherent(d), d.started
  PROVE  d.connKey \in Keys
  BY DEF Objects, Coherent

\* A handler that is not a reply leaves the exchange in progress alone
LEMMA HandlerInv ==
  ASSUME IInv, NEW d, NEW key, key \in FreshKeys(ms.connKey) \cup {NoKey},
         Step(ms, d, key), Handler(d), page' \in Pages
  PROVE  IInv'
<1>1. /\ Handled(d) /\ flight' = flight /\ queue' = queue \o d.out
      /\ d \in Objects /\ Coherent(d) /\ d.out \in Seq(Requests) /\ SocketInv
  BY DEF Handler, Enqueue, Step, Objects, IInv
<1>2. queue \in Seq(Requests) /\ queue' \in Seq(Requests)
  <2>1. queue \in Seq(Requests)
    BY <1>1, SocketTypes DEF SocketInv
  <2> QED BY <1>1, <2>1
<1>3. \A k \in Keys : Quits(k, queue') <=> Quits(k, queue) \/ Quits(k, d.out)
  BY <1>1, <1>2, QuitsConcat
<1>4. (ms.heard /\ ms.connKey # NoKey) => zms[ms.connKey].st # "starting"
  BY DEF IInv, HeardInv
<1>5. /\ ms' \in MsType /\ zms' \in [Keys -> Processes] /\ faults' = faults
      /\ Coherent(ms)' /\ QuitOnItsWay' /\ HeardInv' /\ BoxesInv'
      /\ \A k \in Keys : Referenced(k) \/ k = ms.connKey => zms'[k] = zms[k]
      /\ key \in Keys => zms'[key].box = <<>> /\ zms'[key].mode = "play"
      /\ ms'.started = d.started /\ ms'.connKey = d.connKey /\ ms'.heard = d.heard
  BY <1>1, <1>2, <1>3, <1>4, HandledInv
<1>6. TypeOK'
  BY <1>1, <1>2, <1>5 DEF IInv, TypeOK, SocketTypeOK, Pages, Processes
<1>7. ExchangeInv' /\ (queue # <<>> => Head(queue') = Head(queue) /\ Head(queue).key \in Keys)
  BY <1>1, <1>5, EnqueueStep
<1>8. SocketInv'
  BY <1>5, <1>6, <1>7 DEF SocketInv, TypeOK
<1>9. key \in Keys => ~Referenced(key) /\ key # ms.connKey
  <2>1. NoKey \notin Keys
    BY SocketConstants
  <2> QED BY <2>1 DEF FreshKeys
<1>10. FlightInv'
  <2> SUFFICES ASSUME Answered("no_socket") PROVE FlightInv'
    BY <1>1 DEF FlightInv, Answered
  <2> DEFINE k == Head(queue).key
  <2>1. queue # <<>> /\ FlightInv
    BY DEF IInv, SocketInv, ExchangeInv, Answered
  <2>2. Head(queue').key = k /\ k \in Keys
    BY <1>7, <2>1
  <2>3. (k = ms'.connKey /\ ms'.heard) => (k = ms.connKey /\ ms.heard)
    BY <1>5, <2>2, SocketConstants DEF Step
  <2>4. k = ms.connKey => zms'[k] = zms[k]
    BY <1>5, <2>2
  <2> HIDE DEF k
  <2> QED BY <2>1, <2>2, <2>3, <2>4 DEF FlightInv, k
<1>11. PlayInv'
  <2> SUFFICES ASSUME Lossless, d.started
               PROVE  WillPlay(ms.connKey)'
    BY <1>1, <1>5 DEF PlayInv, IInv, Lossless, Answered
  <2>1. Unsent' = Unsent \o d.out /\ Unsent \in Seq(Requests)
    BY <1>1, EnqueueUnsent, UnsentType
  <2>2. d.connKey \in Keys
    BY <1>1, StartedKey
  <2>3. key \in Keys => NeverHalts(key, Unsent)
    BY <1>1, <1>9, UnreferencedNeverHalts, UnsentType
  <2>4. (ms.started /\ d.connKey = ms.connKey)
        => PlaysAfter(ms.connKey, zms[ms.connKey].box, zms[ms.connKey].mode, Unsent)
    BY DEF IInv, PlayInv, WillPlay
  <2>5. ms.connKey \in Keys => zms'[ms.connKey] = zms[ms.connKey]
    BY <1>5
  <2>6. Resumed(ms, d, key)
    BY DEF Step
  <2>7. PlaysAfter(d.connKey, zms'[d.connKey].box, zms'[d.connKey].mode, Unsent')
    BY <1>1, <1>5, <2>1, <2>2, <2>3, <2>4, <2>5, <2>6, ResumedPlays
  <2>8. PlaysAfter(ms'.connKey, zms'[ms'.connKey].box, zms'[ms'.connKey].mode, Unsent')
    BY <1>5, <2>7
  <2> QED BY <2>8 DEF WillPlay, PlaysAfter
<1> QED BY <1>5, <1>6, <1>8, <1>10, <1>11 DEF IInv

\* A handler that draws no connkey
LEMMA KeylessInv ==
  ASSUME IInv, NEW d, Step(ms, d, NoKey), Handler(d), page' \in Pages
  PROVE  IInv'
  BY HandlerInv

\* The object with its errors cleared
LEMMA SetPlayerStep ==
  ASSUME NEW c, Entered(c), NEW d, NEW key, Entered(setPlayer(c)) => Step(setPlayer(c), d, key)
  PROVE  Step(c, d, key)
<1> DEFINE e == setPlayer(c)
           no == FALSE
<1>1. e = [c EXCEPT !.errors = no] /\ no \in BOOLEAN /\ c \in Objects
  BY DEF setPlayer, Entered
<1> HIDE DEF e, no
<1>2. e \in Objects
  BY <1>1 DEF Objects
<1>3. /\ e.started = c.started /\ e.connKey = c.connKey /\ e.activePlayer = c.activePlayer
      /\ e.img = c.img /\ e.out = c.out /\ e.abandoned = c.abandoned /\ e.heard = c.heard
      /\ e.pollers = c.pollers /\ e.streamCmdTimer = c.streamCmdTimer
  BY <1>1 DEF Objects
<1>4. Entered(e)
  BY <1>2, <1>3, EditStep
<1>5. Step(e, d, key)
  BY <1>4 DEF e
<1> QED BY <1>2, <1>3, <1>5, EditThen

\* startMonitors and startVisibleMonitors
LEMMA StartMonitorsInv ==
  ASSUME IInv, StartMonitors
  PROVE  IInv'
<1> DEFINE c(auth) == IF page.inView /\ ~ms.started THEN start(setPlayer(ms), auth, NewKey) ELSE ms
<1>1. PICK auth \in SrcAuth : Handler(c(auth))
  BY DEF StartMonitors
<1>2. /\ NewKey \in FreshKeys(ms.connKey) /\ NewKey \in Keys /\ auth \in BOOLEAN
      /\ page' = [page EXCEPT !.initComplete = TRUE, !.resting = FALSE]
  BY NewKeyFresh DEF StartMonitors, SrcAuth
<1>3. Entered(ms) /\ page \in Pages
  BY ObjectOfType
<1>4. page' \in Pages
  BY <1>2, <1>3 DEF Pages
<1> DEFINE d == c(auth)
<1>5. Step(ms, d, NewKey)
  <2>1. CASE page.inView /\ ~ms.started
    <3> DEFINE e == start(setPlayer(ms), auth, NewKey)
    <3>1. d = e
      BY <2>1
    <3>2. Entered(setPlayer(ms)) => Step(setPlayer(ms), e, NewKey)
      BY <1>2, StartStep
    <3> HIDE DEF d, e
    <3> QED BY <1>3, <3>1, <3>2, SetPlayerStep
  <2>2. CASE ~(page.inView /\ ~ms.started)
    BY <1>3, <2>2, StepSelf
  <2> QED BY <2>1, <2>2
<1>6. Handler(d)
  BY <1>1
<1> HIDE DEF d, c
<1> QED BY <1>2, <1>4, <1>5, <1>6, HandlerInv

\* on_scroll
LEMMA ScrollInv ==
  ASSUME IInv, NEW inView \in BOOLEAN, Scroll(inView)
  PROVE  IInv'
<1> DEFINE c(auth) == IF inView /\ ~ms.started THEN start(ms, auth, NewKey)
                      ELSE IF ~inView /\ ms.started THEN stop(ms, FALSE)
                      ELSE ms
<1>1. PICK auth \in SrcAuth : Handler(c(auth))
  BY DEF Scroll
<1>2. /\ NewKey \in FreshKeys(ms.connKey) /\ NewKey \in Keys /\ auth \in BOOLEAN
      /\ page' = [page EXCEPT !.inView = inView]
  BY NewKeyFresh DEF Scroll, SrcAuth
<1>3. Entered(ms) /\ page \in Pages
  BY ObjectOfType
<1>4. page' \in Pages
  BY <1>2, <1>3 DEF Pages
<1> DEFINE d == c(auth)
<1>5. Step(ms, d, NewKey)
  <2>1. CASE inView /\ ~ms.started
    BY <1>2, <1>3, <2>1, StartStep
  <2>2. CASE ~inView /\ ms.started
    BY <1>3, <2>2, StopStep
  <2>3. CASE ~(inView /\ ~ms.started) /\ ~(~inView /\ ms.started)
    <3>1. d = ms
      BY <2>3
    <3> QED BY <1>3, <3>1, StepSelf
  <2> QED BY <2>1, <2>2, <2>3
<1>6. Handler(d)
  BY <1>1
<1> HIDE DEF d, c
<1> QED BY <1>2, <1>4, <1>5, <1>6, HandlerInv

\* The tab is hidden, or the user idle
LEMMA RestInv ==
  ASSUME IInv, Rest
  PROVE  IInv'
<1> DEFINE d == stop(ms, FALSE)
<1>1. Handler(d) /\ page' = [page EXCEPT !.resting = TRUE]
  BY DEF Rest
<1>2. Entered(ms) /\ page \in Pages
  BY ObjectOfType
<1>3. page' \in Pages /\ Step(ms, d, NoKey)
  BY <1>1, <1>2, StopStep DEF Pages
<1> HIDE DEF d
<1> QED BY <1>1, <1>3, KeylessInv

\* The handlers that leave the page as it is and draw no connkey
LEMMA PlainInv ==
  ASSUME IInv, NEW d, Step(ms, d, NoKey), Handler(d), UNCHANGED page
  PROVE  IInv'
<1>1. page' \in Pages
  BY ObjectOfType
<1> QED BY <1>1, KeylessInv

\* kill, from the page or from its beforeunload listener
LEMMA KillInv ==
  ASSUME IInv, Kill
  PROVE  IInv'
<1> DEFINE d == kill(ms)
<1>1. Handler(d) /\ UNCHANGED page /\ Step(ms, d, NoKey)
  BY ObjectOfType, KillStep DEF Kill
<1> HIDE DEF d
<1> QED BY <1>1, PlainInv

\* The status timer
LEMMA PollInv ==
  ASSUME IInv, Poll
  PROVE  IInv'
<1> DEFINE d == streamCommand(ms, "QUERY")
<1>1. Handler(d) /\ UNCHANGED page /\ Step(ms, d, NoKey)
  BY ObjectOfType, QueryStep DEF Poll
<1> HIDE DEF d
<1> QED BY <1>1, PlainInv

\* The img has failed
LEMMA ImgErrorInv ==
  ASSUME IInv, ImgError
  PROVE  IInv'
<1> DEFINE d == img_onerror(ms)
<1>1. Handler(d) /\ UNCHANGED page /\ Step(ms, d, NoKey)
  BY ObjectOfType, ImgErrorStep DEF ImgError
<1> HIDE DEF d
<1> QED BY <1>1, PlainInv

\* The img shows a picture
LEMMA ImgLoadInv ==
  ASSUME IInv, ImgLoad
  PROVE  IInv'
<1> DEFINE d == img_onload(ms)
<1>1. Handler(d) /\ UNCHANGED page /\ Step(ms, d, NoKey)
  BY ObjectOfType, ImgLoadStep DEF ImgLoad
<1> HIDE DEF d
<1> QED BY <1>1, PlainInv

\* The timer and the request of an auth refresh are no part of the stream
LEMMA AuthEditStep ==
  ASSUME NEW c, Entered(c), NEW t \in Broken, NEW r \in Broken
  PROVE  Step(c, [c EXCEPT !.authRefreshTimer = t, !.authRequest = r], NoKey)
<1> DEFINE d == [c EXCEPT !.authRefreshTimer = t, !.authRequest = r]
<1>1. c \in Objects
  BY DEF Entered
<1>2. d \in Objects
  BY <1>1 DEF Objects
<1>3. /\ d.started = c.started /\ d.connKey = c.connKey /\ d.activePlayer = c.activePlayer
      /\ d.img = c.img /\ d.out = c.out /\ d.abandoned = c.abandoned /\ d.heard = c.heard
      /\ d.pollers = c.pollers /\ d.streamCmdTimer = c.streamCmdTimer
  BY <1>1 DEF Objects
<1> HIDE DEF d
<1>4. Step(c, d, NoKey)
  BY <1>2, <1>3, EditStep
<1> QED BY <1>4 DEF d

\* The back-off is over
LEMMA AuthRefreshInv ==
  ASSUME IInv, AuthRefresh
  PROVE  IInv'
<1> DEFINE t == "none"
           r == ms.authRefreshTimer
           d == [ms EXCEPT !.authRefreshTimer = t, !.authRequest = r]
<1>1. Handler(d) /\ UNCHANGED page
  BY DEF AuthRefresh
<1>2. t \in Broken /\ r \in Broken /\ Entered(ms)
  BY ObjectOfType DEF Entered, Objects, Broken
<1> HIDE DEF t, r
<1>3. Step(ms, d, NoKey)
  BY <1>2, AuthEditStep
<1> HIDE DEF d
<1> QED BY <1>1, <1>3, PlainInv

\* No fresh auth hash arrives
LEMMA AuthRefreshFailedInv ==
  ASSUME IInv, AuthRefreshFailed
  PROVE  IInv'
<1> DEFINE t == ms.authRefreshTimer
           r == "none"
           d == [ms EXCEPT !.authRefreshTimer = t, !.authRequest = r]
<1>1. t \in Broken /\ r \in Broken /\ Entered(ms)
  BY ObjectOfType DEF Entered, Objects, Broken
<1>2. d = [ms EXCEPT !.authRequest = "none"]
  BY <1>1 DEF Entered, Objects
<1>3. Handler(d) /\ UNCHANGED page
  BY <1>2 DEF AuthRefreshFailed
<1> HIDE DEF t, r
<1>4. Step(ms, d, NoKey)
  BY <1>1, AuthEditStep
<1> HIDE DEF d
<1> QED BY <1>3, <1>4, PlainInv

\* A fresh auth hash arrives
LEMMA AuthRefreshedInv ==
  ASSUME IInv, AuthRefreshed
  PROVE  IInv'
<1> DEFINE d == reconnect(ms, NewKey)
<1>1. NewKey \in FreshKeys(ms.connKey) /\ NewKey \in Keys
  BY NewKeyFresh DEF AuthRefreshed
<1>2. Handler(d) /\ page' \in Pages /\ Step(ms, d, NewKey)
  BY <1>1, ObjectOfType, ReconnectStep DEF AuthRefreshed
<1> HIDE DEF d
<1> QED BY <1>1, <1>2, HandlerInv

-----------------------------------------------------------------------------
(* Replies.                                                                *)

\* The object as a status reply finds its zms alive
Hears(c, b) ==
  /\ b.connKey = c.connKey /\ b.abandoned = c.abandoned
  /\ b.img = c.img /\ b.started = c.started
  /\ b.heard => c.heard \/ (Answered("ok") /\ Head(queue).key = c.connKey)

\* The handler of a reply: it replaces the zms just when the stream is started
\* and php finds the zms gone
LEMMA ReplyStep ==
  ASSUME IInv, flight.st = "answered",
         (Head(queue).key = ms.connKey /\ flight.result = "no_socket") => HasKey
  PROVE  LET key == IF HasKey THEN NewKey ELSE NoKey
             k == Head(queue).key
             c == IF flight.result = "failed" THEN ms
                  ELSE getStreamCmdResponse(ms, k, flight.result, NewKey)
         IN \E b : /\ Hears(ms, b) /\ Step(b, c, key)
                   /\ c.connKey = ms.connKey \/ (Answered("no_socket") /\ k = ms.connKey)
                   /\ (Answered("no_socket") /\ k = ms.connKey /\ ms.started)
                        => c.connKey # ms.connKey
<1> DEFINE key == IF HasKey THEN NewKey ELSE NoKey
           k == Head(queue).key
           c == IF flight.result = "failed" THEN ms
                ELSE getStreamCmdResponse(ms, k, flight.result, NewKey)
<1>1. Entered(ms) /\ ms \in Objects
  BY ObjectOfType DEF Entered
<1>2. Hears(ms, ms)
  BY Zenon DEF Hears
<1>3. CASE k = ms.connKey /\ flight.result = "ok"
  <2> DEFINE h == TRUE
             b == [ms EXCEPT !.heard = h]
  <2>1. c = IF ms.started /\ ~ms.streamCmdTimer THEN SetPoller(b) ELSE b
    BY <1>3 DEF getStreamCmdResponse
  <2>2. h \in BOOLEAN /\ ~Answered("no_socket") /\ Answered("ok")
    BY <1>3 DEF Answered
  <2> HIDE DEF h
  <2>3. b \in Objects
    BY <1>1, <2>2 DEF Objects
  <2>4. /\ b.started = ms.started /\ b.connKey = ms.connKey /\ b.activePlayer = ms.activePlayer
        /\ b.img = ms.img /\ b.out = ms.out /\ b.abandoned = ms.abandoned
        /\ b.pollers = ms.pollers /\ b.streamCmdTimer = ms.streamCmdTimer
    BY <1>1 DEF Objects
  <2> HIDE DEF b, c, key
  <2>5. Entered(b)
    BY <1>1, <2>3, <2>4 DEF Entered, Coherent
  <2>6. Step(b, b, key)
    BY <2>5, StepSelf
  <2>7. Step(b, c, key) /\ c.connKey = ms.connKey
    <3>1. CASE ms.started /\ ~ms.streamCmdTimer
      <4>1. Step(b, SetPoller(b), key)
        BY <2>4, <2>6, <3>1, SetPollerStep
      <4>2. SetPoller(b).connKey = b.connKey
        BY <2>3 DEF SetPoller, Objects
      <4> QED BY <2>1, <2>4, <3>1, <4>1, <4>2
    <3>2. CASE ~(ms.started /\ ~ms.streamCmdTimer)
      BY <2>1, <2>4, <2>6, <3>2
    <3> QED BY <3>1, <3>2
  <2>8. Hears(ms, b)
    BY <1>3, <2>2, <2>4 DEF Hears
  <2> QED BY <2>2, <2>7, <2>8 DEF c, key, k
<1>4. CASE k = ms.connKey /\ flight.result = "no_socket" /\ ms.started
  <2>1. c = reload(ms, NewKey)
    BY <1>4 DEF getStreamCmdResponse, streamErrorIsFatal
  <2>2. key = NewKey /\ NewKey \in Keys /\ NewKey # ms.connKey
    BY <1>4, NewKeyFresh DEF FreshKeys
  <2>3. Step(ms, reload(ms, NewKey), NewKey)
    BY <1>1, <2>2, ReloadStep
  <2>4. reload(ms, NewKey).connKey = NewKey
    BY <1>1 DEF reload, quitConnKey, Objects
  <2>5. Answered("no_socket")
    BY <1>4 DEF Answered
  <2> HIDE DEF c, key
  <2>6. Hears(ms, ms) /\ Step(ms, c, key) /\ c.connKey # ms.connKey
    BY <1>2, <2>1, <2>2, <2>3, <2>4
  <2> QED BY <1>4, <2>5, <2>6 DEF c, key, k
<1>5. CASE /\ ~(k = ms.connKey /\ flight.result = "ok")
           /\ ~(k = ms.connKey /\ flight.result = "no_socket" /\ ms.started)
  <2>1. c = ms
    BY <1>5 DEF getStreamCmdResponse, streamErrorIsFatal
  <2> HIDE DEF c, key
  <2>2. Step(ms, c, key) /\ c.connKey = ms.connKey
    BY <1>1, <2>1, StepSelf
  <2>3. ~(Answered("no_socket") /\ k = ms.connKey /\ ms.started)
    BY <1>5 DEF Answered
  <2> QED BY <1>2, <2>2, <2>3 DEF c, key, k
<1> QED BY <1>3, <1>4, <1>5

\* What is to be shown of every reply: a zms that has answered is replaced
\* only once it is gone
HealthyStep ==
  (Response /\ ms.heard /\ ms'.connKey # ms.connKey) => zms[ms.connKey].st = "gone"

\* A QUIT whose exchange has ended reached its zms, or is noted as lost; a
\* started stream loses no PLAY without losing its zms
LEMMA ResponseInv ==
  ASSUME IInv, Response
  PROVE  IInv' /\ HealthyStep
<1> DEFINE key == IF HasKey THEN NewKey ELSE NoKey
           r == Head(queue)
           f == IF flight.result = "failed" THEN ms
                ELSE getStreamCmdResponse(ms, r.key, flight.result, NewKey)
           q == r.cmd = "QUIT" /\ flight.result # "ok"
           a == IF q THEN f.abandoned \cup {r.key} ELSE f.abandoned
           d == [f EXCEPT !.abandoned = a]
<1>1. /\ Handled(d) /\ Dequeue(f.out) /\ flight.st = "answered" /\ page' = page
      /\ (r.key = ms.connKey /\ flight.result = "no_socket") => HasKey
  BY DEF Response
<1>2. PICK b : /\ Hears(ms, b) /\ Step(b, f, key)
               /\ f.connKey = ms.connKey \/ (Answered("no_socket") /\ r.key = ms.connKey)
               /\ (Answered("no_socket") /\ r.key = ms.connKey /\ ms.started)
                    => f.connKey # ms.connKey
  BY <1>1, ReplyStep
<1>3. key \in FreshKeys(ms.connKey) \cup {NoKey}
  BY NewKeyFresh
<1> HIDE DEF key, f
<1>4. SocketInv /\ queue # <<>>
  BY <1>1 DEF IInv, SocketInv, ExchangeInv
<1>5. queue \in Seq(Requests) /\ Tail(queue) \in Seq(Requests) /\ r \in Requests /\ r.key \in Keys
  BY <1>4, FirstRequest DEF SocketInv
<1>6. f \in Objects /\ Coherent(f)
  BY <1>2 DEF Step
<1>7. a \in SUBSET Keys /\ f.abandoned \subseteq a /\ (q => r.key \in a)
  BY <1>5, <1>6 DEF Objects
<1> HIDE DEF a, q, r
<1>8. d \in Objects
  BY <1>6, <1>7 DEF Objects
<1>9. /\ d.started = f.started /\ d.connKey = f.connKey /\ d.activePlayer = f.activePlayer
      /\ d.img = f.img /\ d.out = f.out /\ d.abandoned = a /\ d.heard = f.heard
      /\ d.pollers = f.pollers /\ d.streamCmdTimer = f.streamCmdTimer
  BY <1>6 DEF Objects
<1> HIDE DEF d
<1>10. Coherent(d)
  BY <1>6, <1>9 DEF Coherent
<1>11. Step(b, d, key)
  BY <1>2, <1>7, <1>8, <1>9, <1>10 DEF Step, Resumed
<1>12. Dequeue(d.out) /\ d.out \in Seq(Requests) /\ flight' = Idle /\ queue' = Tail(queue) \o d.out
  BY <1>1, <1>6, <1>9 DEF Dequeue, Objects
<1>13. /\ queue' \in Seq(Requests) /\ flight' \in Flights /\ ExchangeInv'
       /\ \A k \in Keys : Quits(k, d.out) => Quits(k, queue')
       /\ \A k \in Keys : Quits(k, queue) =>
            \/ zms[k].st = "gone" \/ Quits(k, queue') \/ Quits(k, zms[k].box)
            \/ r.key = k /\ r.cmd = "QUIT" /\ flight.result # "ok"
  BY <1>4, <1>12, DequeueStep DEF r
<1>14. ASSUME NEW k \in Keys, Quits(k, queue)
       PROVE  \/ zms[k].st = "gone" \/ k \in d.abandoned
              \/ Quits(k, queue') \/ Quits(k, zms[k].box)
  BY <1>7, <1>9, <1>13, <1>14 DEF q
<1>15. (b.heard /\ ms.connKey # NoKey) => zms[ms.connKey].st # "starting"
  BY <1>1, <1>2 DEF Hears, IInv, HeardInv, SocketInv, ExchangeInv, Answered
<1>16. b.connKey = ms.connKey /\ b.abandoned = ms.abandoned /\ b.img = ms.img /\ b.started = ms.started
  BY <1>2 DEF Hears
<1>17. /\ ms' \in MsType /\ zms' \in [Keys -> Processes] /\ faults' = faults
       /\ Coherent(ms)' /\ QuitOnItsWay' /\ HeardInv' /\ BoxesInv'
       /\ \A k \in Keys : Referenced(k) \/ k = ms.connKey => zms'[k] = zms[k]
       /\ key \in Keys => zms'[key].box = <<>> /\ zms'[key].mode = "play"
       /\ ms'.started = d.started /\ ms'.connKey = d.connKey /\ ms'.heard = d.heard
  BY <1>1, <1>3, <1>11, <1>13, <1>14, <1>15, <1>16, HandledInv
<1>18. TypeOK' /\ SocketInv'
  <2>1. TypeOK'
    BY <1>1, <1>13, <1>17 DEF IInv, TypeOK, SocketTypeOK, Processes, Flights
  <2> QED BY <1>13, <1>17, <2>1 DEF TypeOK, SocketInv
<1>19. \A result : ~Answered(result)'
  BY <1>12 DEF Idle, Answered
<1>20. FlightInv'
  BY <1>19 DEF FlightInv
<1>21. PlayInv'
  <2> SUFFICES ASSUME Lossless, d.started
               PROVE  WillPlay(ms.connKey)'
    BY <1>17, <1>19 DEF PlayInv, Lossless
  <2>1. Unsent' = Tail(queue) \o d.out
    BY <1>12, <1>19 DEF Unsent, Sent, Idle
  <2>2. d.connKey \in Keys
    BY <1>8, <1>10, StartedKey
  <2>3. key \in Keys => NeverHalts(key, Tail(queue))
    <3>1. ASSUME key \in Keys PROVE NeverHalts(key, queue)
      <4>1. ~Referenced(key)
        BY <1>3, <3>1, SocketConstants DEF FreshKeys
      <4> QED BY <3>1, <4>1, UnreferencedNeverHalts
    <3> QED BY <1>4, <1>5, <3>1, ResumedTail
  <2>4. ASSUME b.started, d.connKey = ms.connKey
        PROVE  PlaysAfter(ms.connKey, zms[ms.connKey].box, zms[ms.connKey].mode, Tail(queue))
    <3> DEFINE k == ms.connKey
               x == zms[k].box
               m == zms[k].mode
    <3>1. PlaysAfter(k, x, m, Unsent)
      BY <1>16, <2>4 DEF IInv, PlayInv, WillPlay
    <3>2. flight.result \in {"ok", "timeout", "no_socket"}
      <4>1. flight \in Flights
        BY <1>4, SocketTypes DEF SocketInv
      <4>2. \A result \in {"", "transient", "failed"} : flight.result # result
        BY <1>1 DEF IInv, PlayInv, Answered
      <4> QED BY <4>1, <4>2 DEF Flights
    <3>3. CASE flight.result \in {"ok", "timeout"}
      <4>1. Unsent = Tail(queue)
        BY <1>1, <3>3 DEF Unsent, Sent, Answered
      <4> QED BY <3>1, <4>1
    <3>4. CASE flight.result = "no_socket"
      <4>1. Unsent = queue
        BY <1>1, <3>4 DEF Unsent, Sent, Answered
      <4>2. r.key # k
        BY <1>1, <1>2, <1>9, <1>16, <2>4, <3>4 DEF Answered
      <4> HIDE DEF k, x, m
      <4>3. PlaysAfter(k, x, m, Tail(queue))
        BY <1>4, <1>5, <3>1, <4>1, <4>2, PlaysTail DEF r
      <4> QED BY <4>3 DEF k, x, m
    <3> QED BY <3>2, <3>3, <3>4
  <2>5. ms.connKey \in Keys => zms'[ms.connKey] = zms[ms.connKey]
    BY <1>17
  <2>6. Resumed(b, d, key)
    BY <1>11 DEF Step
  <2> DEFINE s == Tail(queue)
  <2>7. s \in Seq(Requests) /\ Unsent' = s \o d.out
    BY <1>5, <2>1
  <2>8. /\ key \in Keys => NeverHalts(key, s)
        /\ (b.started /\ d.connKey = ms.connKey)
             => PlaysAfter(ms.connKey, zms[ms.connKey].box, zms[ms.connKey].mode, s)
    BY <2>3, <2>4
  <2> HIDE DEF s
  <2>9. PlaysAfter(d.connKey, zms'[d.connKey].box, zms'[d.connKey].mode, Unsent')
    BY <1>3, <1>4, <1>10, <1>12, <1>16, <1>17, <2>2, <2>5, <2>6, <2>7, <2>8, ResumedPlays
  <2>10. PlaysAfter(ms'.connKey, zms'[ms'.connKey].box, zms'[ms'.connKey].mode, Unsent')
    BY <1>17, <2>9
  <2> QED BY <2>10 DEF WillPlay, PlaysAfter
<1>22. HealthyStep
  <2> SUFFICES ASSUME ms.heard, ms'.connKey # ms.connKey PROVE zms[ms.connKey].st = "gone"
    BY DEF HealthyStep
  <2>1. Answered("no_socket") /\ r.key = ms.connKey
    BY <1>2, <1>9, <1>17
  <2> QED BY <2>1 DEF IInv, FlightInv, r
<1> QED BY <1>17, <1>18, <1>20, <1>21, <1>22 DEF IInv

\* A new page counts every process as left behind
LEMMA PageReloadInv ==
  ASSUME IInv, Reload
  PROVE  IInv'
<1> DEFINE a == {k \in Keys : zms[k].st # "gone"}
           key == genConnKey(NoKey)
<1>1. /\ ms' = [NewMonitorStream(key) EXCEPT !.abandoned = a] /\ page' = NewPage
      /\ queue' = <<>> /\ flight' = Idle /\ zms' = zms /\ faults' = faults
  BY DEF Reload
<1>2. a \in SUBSET Keys /\ key \in Keys
  BY DEF Reload, genConnKey, FreshKeys
<1> HIDE DEF a, key
<1>3. ms' \in MsType
  <2>1. /\ 0 \in 0..1 /\ 0 \in 0..MAX_AUTH_REFRESH_ATTEMPTS /\ Blank \in Keys \cup {Blank, PageHtml}
        /\ key \in Keys \cup {NoKey} /\ <<>> \in {<<>>} /\ "none" \in Broken
    BY <1>2, RefreshAssumption DEF Broken
  <2> QED BY <1>1, <1>2, <2>1 DEF MsType, NewMonitorStream
<1>4. page' \in Pages
  BY <1>1 DEF NewPage, Pages
<1>5. queue' \in Seq(Requests)
  BY <1>1
<1>6. TypeOK'
  BY <1>1, <1>3, <1>4, <1>5 DEF IInv, TypeOK, SocketTypeOK, Pages, Idle
<1>7. flight'.st = "idle"
  BY <1>1 DEF Idle
<1>8. BoxesInv'
  BY <1>1 DEF IInv, SocketInv, BoxesInv
<1>9. SocketInv' /\ FlightInv'
  BY <1>6, <1>7, <1>8 DEF FlightInv, Answered, SocketInv, ExchangeInv, TypeOK
<1>10. Coherent(ms)' /\ HeardInv' /\ PlayInv'
  BY <1>1, <1>7 DEF Coherent, HeardInv, PlayInv, Answered, NewMonitorStream
<1>11. QuitOnItsWay'
  BY <1>1 DEF QuitOnItsWay, NewMonitorStream, a
<1> QED BY <1>6, <1>9, <1>10, <1>11 DEF IInv

-----------------------------------------------------------------------------
(* The steps of php and zms.                                               *)

\* All that happens without the page
LEMMA RelayInv ==
  ASSUME IInv, SocketNext(ms.img), UNCHANGED <<ms, page>>
  PROVE  IInv'
<1>1. SocketInv
  BY DEF IInv
<1>2. SocketInv' /\ SocketStep
  BY <1>1, SocketNextStep
<1>3. TypeOK' /\ Coherent(ms)'
  BY <1>2 DEF IInv, TypeOK, SocketInv, Coherent
<1>4. ms.connKey \in Keys \cup {NoKey}
  BY ObjectOfType DEF Entered, Objects
<1>5. HeardInv'
  BY <1>2, <1>4 DEF IInv, HeardInv, SocketStep, MovesOn
<1>6. ASSUME NEW k \in Keys
      PROVE  zms'[k].st = "gone" \/ k = ms'.connKey \/ k \in ms'.abandoned \/ QuitPending(k)'
  <2>1. zms[k].st = "gone" \/ k = ms.connKey \/ k \in ms.abandoned \/ QuitPending(k)
    BY DEF IInv, QuitOnItsWay
  <2>2. MovesOn(k, zms'[k]) /\ queue' = queue
    BY <1>2 DEF SocketStep
  <2> QED BY <2>1, <2>2 DEF QuitPending, MovesOn
<1>7. QuitOnItsWay'
  BY <1>6 DEF QuitOnItsWay
<1>8. FlightInv'
  <2> DEFINE k == Head(queue).key
  <2> SUFFICES ASSUME Answered("no_socket")', k = ms.connKey, ms.heard
               PROVE  zms'[ms.connKey].st = "gone"
    BY <1>2 DEF FlightInv, SocketStep
  <2>1. queue # <<>> /\ k \in Keys
    <3>1. queue # <<>>
      BY <1>1, <1>2 DEF SocketInv, ExchangeInv, SocketStep, Answered
    <3> QED BY <1>1, <3>1, FirstRequest DEF SocketInv
  <2>2. MovesOn(k, zms'[k])
    BY <1>2, <2>1 DEF SocketStep
  <2>3. zms[k].st # "starting" /\ zms[k].st \in {"gone", "starting", "running"}
    BY <1>1, <2>1, SocketTypes, SocketConstants DEF IInv, HeardInv, SocketInv, Processes
  <2> HIDE DEF k
  <2>4. CASE Answered("no_socket")
    BY <2>2, <2>4 DEF IInv, FlightInv, MovesOn, k
  <2>5. CASE zms' = zms /\ zms[k].st # "running"
    BY <2>3, <2>5
  <2> QED BY <1>2, <2>4, <2>5 DEF SocketStep, k
<1>9. PlayInv'
  <2> SUFFICES ASSUME Lossless
               PROVE  /\ \A result \in {"", "transient", "failed"} : ~Answered(result)'
                      /\ ms.started => WillPlay(ms.connKey)'
    BY DEF PlayInv, Lossless
  <2>1. \A result \in {"", "transient", "failed"} : result \notin FaultKinds
    BY FaultsAssumption DEF Lossless, AllFaults
  <2>2. \A result \in {"", "transient", "failed"} : ~Answered(result)'
    BY <1>2, <2>1 DEF IInv, PlayInv, SocketStep
  <2>3. ASSUME ms.started PROVE WillPlay(ms.connKey)'
    <3>1. ms.connKey \in Keys /\ WillPlay(ms.connKey)
      BY <1>4, <2>3 DEF IInv, PlayInv, Coherent
    <3> QED BY <1>2, <3>1 DEF SocketStep, WillPlay
  <2> QED BY <2>2, <2>3
<1> QED BY <1>2, <1>3, <1>5, <1>7, <1>8, <1>9 DEF IInv

-----------------------------------------------------------------------------
(* The theorems.                                                           *)

\* The page as it is first loaded
LEMMA InitInv == Init => IInv
<1> SUFFICES ASSUME Init PROVE IInv
  OBVIOUS
<1> DEFINE key == genConnKey(NoKey)
<1>1. /\ ms = NewMonitorStream(key) /\ page = NewPage /\ queue = <<>> /\ flight = Idle
      /\ zms = [k \in Keys |-> Gone]
  BY DEF Init, SocketInit
<1>2. key \in Keys
  <2>1. PICK k : k \in Keys
    BY KeysAssumption
  <2>2. zms[k].st = "gone" /\ k # NoKey /\ ~Referenced(k)
    <3>1. Len(queue) = 0
      BY <1>1
    <3> QED BY <1>1, <2>1, <3>1, SocketConstants DEF Gone, Referenced
  <2>3. FreshKeys(NoKey) # {}
    BY <2>1, <2>2 DEF FreshKeys
  <2> QED BY <2>3 DEF genConnKey, FreshKeys
<1> HIDE DEF key
<1>3. ms \in MsType
  <2>1. /\ 0 \in 0..1 /\ 0 \in 0..MAX_AUTH_REFRESH_ATTEMPTS /\ Blank \in Keys \cup {Blank, PageHtml}
        /\ key \in Keys \cup {NoKey} /\ <<>> \in {<<>>} /\ "none" \in Broken /\ {} \in SUBSET Keys
    BY <1>2, RefreshAssumption DEF Broken
  <2> QED BY <1>1, <2>1 DEF MsType, NewMonitorStream
<1>4. page \in Pages
  BY <1>1 DEF NewPage, Pages
<1>5. SocketInv
  BY SocketInitInv DEF Init
<1>6. TypeOK
  BY <1>3, <1>4, <1>5 DEF TypeOK, SocketInv, Pages
<1>7. flight.st = "idle"
  BY <1>1 DEF Idle
<1>8. Coherent(ms) /\ HeardInv /\ PlayInv /\ FlightInv
  BY <1>1, <1>7 DEF Coherent, HeardInv, PlayInv, FlightInv, Answered, NewMonitorStream
<1>9. QuitOnItsWay
  BY <1>1 DEF QuitOnItsWay, Gone
<1> QED BY <1>5, <1>6, <1>8, <1>9 DEF IInv

\* Nothing changes
LEMMA StutterInv ==
  ASSUME IInv, UNCHANGED vars
  PROVE  IInv'
<1>1. UNCHANGED <<ms, page, queue, flight, zms, faults>> /\ UNCHANGED socketVars
  BY DEF vars, socketVars
<1>2. SocketInv'
  BY <1>1, SocketStutter DEF IInv
<1>3. TypeOK' /\ Coherent(ms)'
  BY <1>1, <1>2 DEF IInv, TypeOK, SocketInv, Coherent
<1>4. FlightInv' /\ HeardInv'
  BY <1>1 DEF IInv, FlightInv, HeardInv, Answered
<1>5. QuitOnItsWay'
  BY <1>1 DEF IInv, QuitOnItsWay, QuitPending
<1>6. PlayInv'
  BY <1>1 DEF IInv, PlayInv, Answered, WillPlay, Unsent, Sent, Lossless
<1> QED BY <1>2, <1>3, <1>4, <1>5, <1>6 DEF IInv

\* Every step keeps the invariant
LEMMA NextInv ==
  ASSUME IInv, [Next]_vars
  PROVE  IInv'
<1>1. CASE StartMonitors
  BY <1>1, StartMonitorsInv
<1>2. ASSUME NEW inView \in BOOLEAN, Scroll(inView) PROVE IInv'
  BY <1>2, ScrollInv
<1>3. CASE Rest
  BY <1>3, RestInv
<1>4. CASE Kill
  BY <1>4, KillInv
<1>5. CASE Reload
  BY <1>5, PageReloadInv
<1>6. CASE Poll
  BY <1>6, PollInv
<1>7. CASE ImgError
  BY <1>7, ImgErrorInv
<1>8. CASE ImgLoad
  BY <1>8, ImgLoadInv
<1>9. CASE AuthRefresh
  BY <1>9, AuthRefreshInv
<1>10. CASE AuthRefreshed
  BY <1>10, AuthRefreshedInv
<1>11. CASE AuthRefreshFailed
  BY <1>11, AuthRefreshFailedInv
<1>12. CASE Response
  BY <1>12, ResponseInv
<1>13. CASE SocketNext(ms.img) /\ UNCHANGED <<ms, page>>
  BY <1>13, RelayInv
<1>14. CASE UNCHANGED vars
  BY <1>14, StutterInv
<1> QED BY <1>1, <1>2, <1>3, <1>4, <1>5, <1>6, <1>7, <1>8, <1>9, <1>10,
           <1>11, <1>12, <1>13, <1>14 DEF Next

\* The inductive invariant holds, whatever goes wrong and however often
THEOREM LiveInvariant == Spec => []IInv
<1>1. IInv /\ [Next]_vars => IInv'
  BY NextInv
<1> QED BY <1>1, InitInv, PTL DEF Spec

\* Types of the live view: at most one status timer, no more reconnections than
\* MAX_AUTH_REFRESH_ATTEMPTS in a row, every request addressed to a connkey
THEOREM LiveTypes == Spec => []TypeOK
<1>1. IInv => TypeOK
  BY DEF IInv
<1> QED BY <1>1, LiveInvariant, PTL

\* Only a started stream polls its zms, and with one timer
THEOREM LivePolls == Spec => []PollsOnlyWhileStarted
<1>1. ASSUME IInv PROVE PollsOnlyWhileStarted
  <2>1. Coherent(ms) /\ ms \in Objects
    BY <1>1, ObjectOfType DEF IInv, Entered
  <2> QED BY <2>1 DEF Coherent, PollsOnlyWhileStarted, Objects
<1> QED BY <1>1, LiveInvariant, PTL

\* Every zms whose connkey the page dropped in an orderly way is told to quit
THEOREM LiveStreamsAreQuit == Spec => []QuitOnItsWay
<1>1. IInv => QuitOnItsWay
  BY DEF IInv
<1> QED BY <1>1, LiveInvariant, PTL

\* No late or lost reply makes the page replace a zms that has answered and
\* still runs
THEOREM LiveStreamsAreKept == Spec => HealthyStreamIsKept
<1>1. ASSUME IInv, [Next]_vars
      PROVE  [(Response /\ ms.heard /\ ms'.connKey # ms.connKey)
               => zms[ms.connKey].st = "gone"]_vars
  BY <1>1, ResponseInv DEF HealthyStep
<1> QED BY <1>1, LiveInvariant, PTL DEF Spec, HealthyStreamIsKept

\* While neither php nor the web server loses a request, a started stream whose
\* commands are carried out is playing, however stop and start, timeouts, slow
\* and dying processes follow each other
THEOREM LiveStreamsPlay ==
  FaultKinds \cap {"transient", "failed"} = {} => (Spec => []StartedMeansPlaying)
<1> SUFFICES ASSUME FaultKinds \cap {"transient", "failed"} = {}
             PROVE  Spec => []StartedMeansPlaying
  OBVIOUS
<1>1. ASSUME IInv PROVE StartedMeansPlaying
  <2> SUFFICES ASSUME ms.started, queue = <<>>, zms[ms.connKey].box = <<>>
               PROVE  zms[ms.connKey].mode = "play"
    BY DEF StartedMeansPlaying
  <2>1. ms.connKey \in Keys
    BY <1>1, ObjectOfType, StartedKey DEF Entered
  <2>2. SocketInv /\ WillPlay(ms.connKey)
    BY <1>1 DEF IInv, PlayInv, Lossless
  <2> QED BY <2>1, <2>2, PlaysNow
<1> QED BY <1>1, LiveInvariant, PTL
=============================================================================
