-------------------------- MODULE EventStreamProofs --------------------------
(***************************************************************************)
(* Proofs about EventStream, for any connkeys, events, rates, bounds and   *)
(* faults.  The methods of the object come first: each takes a coherent    *)
(* object to a coherent one and forgets no connkey.  Then one lemma per    *)
(* handler; the steps of php and zms are those of CommandSocketProofs.     *)
(***************************************************************************)
EXTENDS EventStream, CommandSocketProofs

\* The object between two statements of a handler
Objects ==
  [started : BOOLEAN, connKey : Keys \cup {NoKey}, img : Keys \cup {NoKey},
   pollers : Int, streamCmdTimer : BOOLEAN, drawLoops : Int, rafId : BOOLEAN,
   paused : BOOLEAN, currentEventId : Slider, rate : Rates,
   consecutiveErrors : 0..maxRecoveryAttempts + 1,
   recoveryTimer : [event : Slider, rate : Rates \cup {0}], heard : BOOLEAN,
   out : Seq(Requests), abandoned : SUBSET Keys]

\* One stream or none, and a retry that knows its rate
Coherent(c) ==
  /\ IF c.started
     THEN /\ c.connKey # NoKey /\ c.img = c.connKey
          /\ c.pollers = 1 /\ c.streamCmdTimer /\ c.drawLoops = 1 /\ c.rafId
          /\ c.recoveryTimer = NoTimer
     ELSE /\ c.connKey = NoKey /\ c.img = NoKey
          /\ c.pollers = 0 /\ ~c.streamCmdTimer /\ c.drawLoops = 0 /\ ~c.rafId
  /\ c.recoveryTimer # NoTimer => c.recoveryTimer.rate \in Rates

\* What d may have done with c's connkey: kept it, quit it or written it off
Keeps(c, d) ==
  /\ c.abandoned \subseteq d.abandoned
  /\ \A k \in Keys : Quits(k, c.out) => Quits(k, d.out)
  /\ \/ c.connKey \in {d.connKey, NoKey}
     \/ Quits(c.connKey, d.out)
     \/ c.connKey \in d.abandoned

\* d came from c, with key as the only connkey that may have been drawn
Step(c, d, key) ==
  /\ d \in Objects /\ Coherent(d) /\ Keeps(c, d)
  /\ d.connKey \in {c.connKey, NoKey, key}
  /\ d.heard => c.heard /\ d.connKey \in {c.connKey, NoKey}

\* No failure was counted, no retry arranged
Calm(c, d) ==
  /\ d.consecutiveErrors <= c.consecutiveErrors
  /\ d.recoveryTimer \in {c.recoveryTimer, NoTimer}

-----------------------------------------------------------------------------
(* The methods.                                                            *)

\* Constants are what the proofs need them to be
LEMMA ConstantFacts ==
  /\ NoKey \notin Keys
  /\ Rates \subseteq Nat \ {0}
  /\ NoTimer \in [event : Slider, rate : Rates \cup {0}]
  /\ 1 \in Rates
  BY KeysAssumption, RatesAssumption DEF NoKey, NoTimer, Slider, NoEvent

\* Steps follow one another
LEMMA StepTrans ==
  ASSUME NEW c, NEW d, NEW e, NEW key, Step(c, d, key), Step(d, e, key),
         c.connKey \in Keys \cup {NoKey}
  PROVE  Step(c, e, key)
  BY DEF Step, Keeps, Objects

\* Neither do calm changes one after another count a failure
LEMMA CalmTrans ==
  ASSUME NEW c \in Objects, NEW d \in Objects, NEW e \in Objects, Calm(c, d), Calm(d, e)
  PROVE  Calm(c, e)
  BY AttemptsAssumption DEF Calm, Objects

\* Doing nothing is a calm step
LEMMA StepSelf ==
  ASSUME NEW c \in Objects, Coherent(c), NEW key
  PROVE  Step(c, c, key) /\ Calm(c, c)
  BY AttemptsAssumption DEF Step, Keeps, Calm, Objects

\* A command is queued for the connkey, and nothing else changes
LEMMA CommandStep ==
  ASSUME NEW c \in Objects, Coherent(c), NEW key,
         NEW cmd \in Commands, NEW rate \in Rates \cup {0},
         (cmd = "VARPLAY") <=> (rate \in Rates)
  PROVE  LET d == streamCommand(c, cmd, rate)
         IN /\ Step(c, d, key) /\ Calm(c, d)
            /\ d = [c EXCEPT !.out = d.out]
            /\ (cmd = "QUIT" /\ c.started) => Quits(c.connKey, d.out)
<1> DEFINE d == streamCommand(c, cmd, rate)
           r == [key |-> c.connKey, cmd |-> cmd, rate |-> rate]
<1>1. CASE ~c.started
  <2>1. d = c
    BY <1>1 DEF streamCommand
  <2>2. c = [c EXCEPT !.out = c.out]
    BY DEF Objects
  <2> QED BY <1>1, <2>1, <2>2, StepSelf
<1>2. CASE c.started
  <2>1. r \in Requests /\ r.cmd = cmd /\ r.key = c.connKey
    BY <1>2 DEF Coherent, Objects, Requests
  <2>2. d = [c EXCEPT !.out = Append(c.out, r)]
    BY <1>2 DEF streamCommand
  <2>3. c.out \in Seq(Requests)
    BY DEF Objects
  <2>4. /\ Append(c.out, r) \in Seq(Requests)
        /\ \A k : Quits(k, c.out) => Quits(k, Append(c.out, r))
        /\ cmd = "QUIT" => Quits(c.connKey, Append(c.out, r))
    BY <2>1, <2>3, QuitsAppend
  <2>5. d \in Objects /\ d.out = Append(c.out, r)
    BY <2>2, <2>4 DEF Objects
  <2>6. /\ d.started = c.started /\ d.connKey = c.connKey /\ d.img = c.img
        /\ d.pollers = c.pollers /\ d.streamCmdTimer = c.streamCmdTimer
        /\ d.drawLoops = c.drawLoops /\ d.rafId = c.rafId
        /\ d.recoveryTimer = c.recoveryTimer /\ d.heard = c.heard
        /\ d.abandoned = c.abandoned /\ d.consecutiveErrors = c.consecutiveErrors
    BY <2>2 DEF Objects
  <2>7. Coherent(d)
    BY <2>6 DEF Coherent
  <2>8. Keeps(c, d)
    BY <2>4, <2>5, <2>6 DEF Keeps
  <2>9. Step(c, d, key)
    BY <2>5, <2>6, <2>7, <2>8 DEF Step
  <2>10. Calm(c, d)
    BY <2>6, AttemptsAssumption DEF Calm, Objects
  <2>11. d = [c EXCEPT !.out = d.out]
    BY <2>2, <2>5
  <2> QED BY <1>2, <2>4, <2>5, <2>9, <2>10, <2>11
<1> QED BY <1>1, <1>2

\* What teardown assigns keeps the object's type
LEMMA StoppedObject ==
  ASSUME NEW c \in Objects, NEW o \in Seq(Requests), NEW f \in BOOLEAN, NEW n \in Int, NEW l \in Int
  PROVE  [c EXCEPT !.out = o, !.pollers = n, !.streamCmdTimer = f, !.drawLoops = l,
                   !.rafId = f, !.img = NoKey, !.started = f, !.connKey = NoKey] \in Objects
  BY DEF Objects

\* What start assigns keeps the object's type
LEMMA StartedObject ==
  ASSUME NEW c \in Objects, NEW t \in [event : Slider, rate : Rates \cup {0}],
         NEW event \in Slider, NEW rate \in Rates, NEW key \in Keys, NEW n \in Int, NEW l \in Int,
         NEW f \in BOOLEAN, NEW g \in BOOLEAN
  PROVE  [c EXCEPT !.recoveryTimer = t, !.currentEventId = event, !.rate = rate, !.paused = f,
                   !.connKey = key, !.img = key, !.drawLoops = l, !.rafId = g, !.started = g,
                   !.pollers = n, !.streamCmdTimer = g, !.heard = f] \in Objects
  BY DEF Objects

\* Timers and loops are as many as there are handles, if not yet stopped
Countable(c) ==
  /\ c.pollers = IF c.streamCmdTimer THEN 1 ELSE 0
  /\ c.drawLoops = IF c.rafId THEN 1 ELSE 0
  /\ c.recoveryTimer # NoTimer => c.recoveryTimer.rate \in Rates

\* A coherent object has its handles
LEMMA CoherentCountable ==
  ASSUME NEW c \in Objects, Coherent(c)
  PROVE  Countable(c)
  BY DEF Coherent, Countable, Objects

\* teardown leaves nothing running, and its QUIT goes out before the connkey
\* is dropped
LEMMA TeardownStep ==
  ASSUME NEW c \in Objects, Countable(c), NEW quit \in BOOLEAN, quit => Coherent(c)
  PROVE  LET d == teardown(c, quit)
         IN /\ d \in Objects /\ Coherent(d) /\ ~d.started /\ d.connKey = NoKey
            /\ d.heard = c.heard /\ d.abandoned = c.abandoned
            /\ d.recoveryTimer = c.recoveryTimer
            /\ d.consecutiveErrors = c.consecutiveErrors
            /\ \A k \in Keys : Quits(k, c.out) => Quits(k, d.out)
            /\ (quit /\ c.started) => Quits(c.connKey, d.out)
<1> DEFINE q == IF quit THEN streamCommand(c, "QUIT", 0) ELSE c
           d == teardown(c, quit)
<1>1. /\ q = [c EXCEPT !.out = q.out] /\ q.out \in Seq(Requests)
      /\ \A k \in Keys : Quits(k, c.out) => Quits(k, q.out)
      /\ (quit /\ c.started) => Quits(c.connKey, q.out)
  <2>1. CASE quit
    <3>1. "QUIT" \in Commands /\ 0 \in Rates \cup {0} /\ 0 \notin Rates
      BY ConstantFacts DEF Commands
    <3> DEFINE e == streamCommand(c, "QUIT", 0)
    <3>2. Coherent(c)
      BY <2>1
    <3>3. /\ Step(c, e, NoKey) /\ e = [c EXCEPT !.out = e.out]
          /\ c.started => Quits(c.connKey, e.out)
      BY <3>1, <3>2, CommandStep
    <3>4. q = e
      BY <2>1
    <3> HIDE DEF e, q
    <3>5. e.out \in Seq(Requests) /\ \A k \in Keys : Quits(k, c.out) => Quits(k, e.out)
      BY <3>3 DEF Step, Keeps, Objects
    <3> QED BY <3>3, <3>4, <3>5
  <2>2. CASE ~quit
    BY <2>2 DEF Objects
  <2> QED BY <2>1, <2>2
<1> DEFINE o == q.out
           n == IF c.streamCmdTimer THEN c.pollers - 1 ELSE c.pollers
           l == IF c.rafId THEN c.drawLoops - 1 ELSE c.drawLoops
<1>2. d = [q EXCEPT !.pollers = n, !.streamCmdTimer = FALSE, !.drawLoops = l, !.rafId = FALSE,
                    !.img = NoKey, !.started = FALSE, !.connKey = NoKey]
  <2>1. q.pollers = c.pollers /\ q.drawLoops = c.drawLoops
    BY <1>1 DEF Objects
  <2> HIDE DEF q
  <2> QED BY <2>1 DEF teardown, q
<1> HIDE DEF q, d
<1>3. d = [c EXCEPT !.out = o, !.pollers = n, !.streamCmdTimer = FALSE, !.drawLoops = l,
                    !.rafId = FALSE, !.img = NoKey, !.started = FALSE, !.connKey = NoKey]
  BY <1>1, <1>2 DEF Objects
<1>4. n = 0 /\ l = 0 /\ o \in Seq(Requests)
  BY <1>1 DEF Countable, Objects
<1> HIDE DEF n, l, o
<1>5. d \in Objects
  <2>1. n \in Int /\ l \in Int /\ o \in Seq(Requests) /\ FALSE \in BOOLEAN
    BY <1>4
  <2> QED BY <1>3, <2>1, StoppedObject, Zenon
<1>6. /\ d.started = FALSE /\ d.connKey = NoKey /\ d.img = NoKey /\ d.pollers = 0
      /\ d.streamCmdTimer = FALSE /\ d.drawLoops = 0 /\ d.rafId = FALSE
      /\ d.recoveryTimer = c.recoveryTimer /\ d.heard = c.heard /\ d.out = o
      /\ d.abandoned = c.abandoned /\ d.consecutiveErrors = c.consecutiveErrors
  BY <1>3, <1>4 DEF Objects
<1>7. Coherent(d)
  BY <1>6 DEF Coherent, Countable
<1> QED BY <1>1, <1>5, <1>6, <1>7 DEF d, o


\* A change of the fields that say nothing about connections, timers or
\* requests
LEMMA EditStep ==
  ASSUME NEW c \in Objects, Coherent(c), NEW d \in Objects, NEW key,
         d.started = c.started, d.connKey = c.connKey, d.img = c.img,
         d.pollers = c.pollers, d.streamCmdTimer = c.streamCmdTimer,
         d.drawLoops = c.drawLoops, d.rafId = c.rafId,
         d.out = c.out, d.abandoned = c.abandoned, d.heard = c.heard,
         d.recoveryTimer \in {c.recoveryTimer, NoTimer},
         d.consecutiveErrors <= c.consecutiveErrors
  PROVE  Step(c, d, key) /\ Calm(c, d)
<1>1. Coherent(d)
  BY DEF Coherent
<1>2. Keeps(c, d)
  BY DEF Keeps
<1> QED BY <1>1, <1>2 DEF Step, Calm

\* A pending retry is cancelled
LEMMA CancelStep ==
  ASSUME NEW c \in Objects, Coherent(c), NEW key
  PROVE  LET d == [c EXCEPT !.recoveryTimer = NoTimer]
         IN Step(c, d, key) /\ Calm(c, d) /\ d.recoveryTimer = NoTimer
<1> DEFINE d == [c EXCEPT !.recoveryTimer = NoTimer]
<1>1. d \in Objects /\ d.recoveryTimer = NoTimer
  BY ConstantFacts DEF Objects
<1>2. /\ d.started = c.started /\ d.connKey = c.connKey /\ d.img = c.img
      /\ d.pollers = c.pollers /\ d.streamCmdTimer = c.streamCmdTimer
      /\ d.drawLoops = c.drawLoops /\ d.rafId = c.rafId
      /\ d.out = c.out /\ d.abandoned = c.abandoned /\ d.heard = c.heard
      /\ d.consecutiveErrors <= c.consecutiveErrors
  BY AttemptsAssumption DEF Objects
<1> HIDE DEF d
<1>3. Step(c, d, key) /\ Calm(c, d)
  BY <1>1, <1>2, EditStep
<1> QED BY <1>1, <1>3 DEF d

\* start: the stream that was up is told to quit, and the new one is alone
LEMMA StartStep ==
  ASSUME NEW c \in Objects, Coherent(c), NEW key \in Keys, NEW event \in Slider, NEW rate \in Rates
  PROVE  LET d == start(c, event, rate, key) IN Step(c, d, key) /\ Calm(c, d)
<1> DEFINE t == IF c.started \/ c.img # NoKey THEN teardown(c, c.started) ELSE c
           d == start(c, event, rate, key)
<1>1. /\ t \in Objects /\ t.pollers = 0 /\ t.drawLoops = 0
      /\ t.abandoned = c.abandoned /\ t.consecutiveErrors = c.consecutiveErrors
      /\ \A k \in Keys : Quits(k, c.out) => Quits(k, t.out)
      /\ c.connKey # NoKey => Quits(c.connKey, t.out)
  <2>1. CASE c.started
    <3> DEFINE e == teardown(c, TRUE)
    <3>1. c.started = TRUE
      BY <2>1 DEF Objects
    <3>2. t = e
      BY <3>1
    <3>3. Countable(c) /\ TRUE \in BOOLEAN
      BY CoherentCountable
    <3>4. /\ e \in Objects /\ Coherent(e) /\ ~e.started
          /\ e.abandoned = c.abandoned /\ e.consecutiveErrors = c.consecutiveErrors
          /\ \A k \in Keys : Quits(k, c.out) => Quits(k, e.out)
          /\ Quits(c.connKey, e.out)
      BY <2>1, <3>3, TeardownStep
    <3> HIDE DEF e, t
    <3>5. e.pollers = 0 /\ e.drawLoops = 0
      BY <3>4 DEF Coherent
    <3> QED BY <3>2, <3>4, <3>5
  <2>2. CASE ~c.started
    <3>1. c.img = NoKey /\ c.connKey = NoKey /\ c.pollers = 0 /\ c.drawLoops = 0
      BY <2>2 DEF Coherent
    <3>2. t = c
      BY <2>2, <3>1
    <3> HIDE DEF t
    <3> QED BY <3>1, <3>2
  <2> QED BY <2>1, <2>2
<1>2. d = [t EXCEPT !.recoveryTimer = NoTimer, !.currentEventId = event, !.rate = rate,
                    !.paused = FALSE, !.connKey = key, !.img = key,
                    !.drawLoops = t.drawLoops + 1, !.rafId = TRUE, !.started = TRUE,
                    !.pollers = t.pollers + 1, !.streamCmdTimer = TRUE, !.heard = FALSE]
  BY DEF start
<1> HIDE DEF t, d
<1> DEFINE n == t.pollers + 1
           l == t.drawLoops + 1
<1>3. n = 1 /\ l = 1
  BY <1>1
<1>4. d = [t EXCEPT !.recoveryTimer = NoTimer, !.currentEventId = event, !.rate = rate,
                    !.paused = FALSE, !.connKey = key, !.img = key,
                    !.drawLoops = l, !.rafId = TRUE, !.started = TRUE,
                    !.pollers = n, !.streamCmdTimer = TRUE, !.heard = FALSE]
  BY <1>2
<1> HIDE DEF n, l
<1>5. d \in Objects
  <2>1. /\ n \in Int /\ l \in Int /\ FALSE \in BOOLEAN /\ TRUE \in BOOLEAN
        /\ NoTimer \in [event : Slider, rate : Rates \cup {0}]
    BY <1>3, ConstantFacts
  <2> QED BY <1>1, <1>4, <2>1, StartedObject, ZenonT(60)
<1>6. /\ d.started = TRUE /\ d.connKey = key /\ d.img = key /\ d.pollers = 1
      /\ d.streamCmdTimer = TRUE /\ d.drawLoops = 1 /\ d.rafId = TRUE
      /\ d.recoveryTimer = NoTimer /\ d.heard = FALSE /\ d.out = t.out
      /\ d.abandoned = c.abandoned /\ d.consecutiveErrors = c.consecutiveErrors
  BY <1>1, <1>3, <1>4 DEF Objects
<1>7. Coherent(d)
  BY <1>6, ConstantFacts DEF Coherent
<1>8. Keeps(c, d)
  BY <1>1, <1>6 DEF Keeps
<1>9. Step(c, d, key)
  BY <1>5, <1>6, <1>7, <1>8 DEF Step
<1>10. Calm(c, d)
  BY <1>6, AttemptsAssumption DEF Calm, Objects
<1> QED BY <1>9, <1>10 DEF d


\* What stop assigns keeps the object's type
LEMMA ResetObject ==
  ASSUME NEW c \in Objects, NEW f \in BOOLEAN, NEW n \in 0..maxRecoveryAttempts + 1
  PROVE  [c EXCEPT !.paused = f, !.consecutiveErrors = n] \in Objects
  BY DEF Objects

\* stop: the stream quits, and no retry is left
LEMMA StopStep ==
  ASSUME NEW c \in Objects, Coherent(c), NEW key
  PROVE  LET d == stop(c) IN Step(c, d, key) /\ Calm(c, d)
<1> DEFINE s == [c EXCEPT !.recoveryTimer = NoTimer]
           d == stop(c)
<1>1. Step(c, s, key) /\ Calm(c, s) /\ s.recoveryTimer = NoTimer
  BY CancelStep
<1>2. /\ s.connKey = c.connKey /\ s.out = c.out /\ s.abandoned = c.abandoned
      /\ s.started = c.started /\ s.consecutiveErrors = c.consecutiveErrors
      /\ s.heard = c.heard
  BY DEF Objects
<1>3. CASE ~c.started
  <2>1. d = s
    BY <1>3 DEF stop
  <2> HIDE DEF d, s
  <2> QED BY <1>1, <2>1 DEF d
<1>4. CASE c.started
  <2> DEFINE t == teardown(s, TRUE)
  <2>1. d = [t EXCEPT !.paused = FALSE, !.consecutiveErrors = 0]
    BY <1>4 DEF stop
  <2> HIDE DEF s, d
  <2>2. s \in Objects /\ Coherent(s)
    BY <1>1 DEF Step
  <2>3. Countable(s) /\ TRUE \in BOOLEAN
    BY <2>2, CoherentCountable
  <2>4. /\ t \in Objects /\ Coherent(t) /\ ~t.started /\ t.connKey = NoKey
        /\ t.heard = s.heard /\ t.abandoned = s.abandoned
        /\ t.recoveryTimer = s.recoveryTimer
        /\ t.consecutiveErrors = s.consecutiveErrors
        /\ \A k \in Keys : Quits(k, s.out) => Quits(k, t.out)
        /\ Quits(s.connKey, t.out)
    BY <1>2, <1>4, <2>2, <2>3, TeardownStep
  <2> HIDE DEF t
  <2>5. d \in Objects
    <3>1. FALSE \in BOOLEAN /\ 0 \in 0..maxRecoveryAttempts + 1
      BY AttemptsAssumption
    <3> QED BY <2>1, <2>4, <3>1, ResetObject, Zenon
  <2>6. /\ d.started = t.started /\ d.connKey = t.connKey /\ d.img = t.img
        /\ d.pollers = t.pollers /\ d.streamCmdTimer = t.streamCmdTimer
        /\ d.drawLoops = t.drawLoops /\ d.rafId = t.rafId
        /\ d.out = t.out /\ d.abandoned = t.abandoned /\ d.heard = t.heard
        /\ d.recoveryTimer = t.recoveryTimer /\ d.consecutiveErrors = 0
    BY <2>1, <2>4 DEF Objects
  <2>7. Coherent(d)
    BY <2>4, <2>6 DEF Coherent
  <2>8. Keeps(c, d)
    BY <1>2, <2>4, <2>6 DEF Keeps
  <2>9. Step(c, d, key)
    BY <1>2, <2>4, <2>5, <2>6, <2>7, <2>8 DEF Step
  <2>10. Calm(c, d)
    BY <1>1, <2>4, <2>6, AttemptsAssumption DEF Calm, Objects
  <2> QED BY <2>9, <2>10 DEF d
<1> QED BY <1>3, <1>4

\* What recover assigns keeps the object's type
LEMMA RecoveredObject ==
  ASSUME NEW c \in Objects, NEW n \in 0..maxRecoveryAttempts + 1, NEW a \in SUBSET Keys,
         NEW t \in [event : Slider, rate : Rates \cup {0}]
  PROVE  [c EXCEPT !.consecutiveErrors = n, !.abandoned = a, !.recoveryTimer = t] \in Objects
  BY DEF Objects

\* recover: the connkey is written off, and a retry is arranged unless there
\* have been too many
LEMMA RecoverStep ==
  ASSUME NEW c \in Objects, Countable(c), NEW key,
         c.connKey \in Keys, c.recoveryTimer = NoTimer
  PROVE  Step(c, recover(c), key)
<1> DEFINE n == IF c.consecutiveErrors > maxRecoveryAttempts
                THEN c.consecutiveErrors ELSE c.consecutiveErrors + 1
           u == teardown(c, FALSE)
           a == u.abandoned \cup ({c.connKey} \ {NoKey})
           r == IF n > maxRecoveryAttempts THEN NoTimer
                ELSE [event |-> c.currentEventId, rate |-> c.rate]
           d == recover(c)
<1>1. /\ u \in Objects /\ Coherent(u) /\ ~u.started /\ u.connKey = NoKey
      /\ u.heard = c.heard /\ u.abandoned = c.abandoned
      /\ u.recoveryTimer = c.recoveryTimer
      /\ \A k \in Keys : Quits(k, c.out) => Quits(k, u.out)
  <2>1. FALSE \in BOOLEAN
    OBVIOUS
  <2> QED BY <2>1, TeardownStep
<1>2. n \in 0..maxRecoveryAttempts + 1
  BY AttemptsAssumption DEF Objects
<1>3. d = [u EXCEPT !.consecutiveErrors = n, !.abandoned = a, !.recoveryTimer = r]
  <2> HIDE DEF n
  <2>1. CASE n > maxRecoveryAttempts
    <3>1. d = [u EXCEPT !.consecutiveErrors = n, !.abandoned = a]
      BY <2>1 DEF recover, n
    <3>2. r = u.recoveryTimer
      BY <1>1, <2>1
    <3> HIDE DEF d, u, a, r
    <3> QED BY <1>1, <3>1, <3>2 DEF Objects
  <2>2. CASE ~(n > maxRecoveryAttempts)
    <3>1. d = [[u EXCEPT !.consecutiveErrors = n, !.abandoned = a]
                 EXCEPT !.recoveryTimer = r]
      BY <2>2 DEF recover, n
    <3> HIDE DEF d, u, a, r
    <3> QED BY <1>1, <3>1 DEF Objects
  <2> QED BY <2>1, <2>2
<1>4. a \in SUBSET Keys /\ c.connKey \in a /\ c.abandoned \subseteq a
  <2> HIDE DEF u
  <2> QED BY <1>1, ConstantFacts DEF Objects
<1>5. /\ r \in [event : Slider, rate : Rates \cup {0}]
      /\ r # NoTimer => r.rate \in Rates
  BY ConstantFacts DEF Objects
<1> HIDE DEF n, u, a, r, d
<1>6. d \in Objects
  BY <1>1, <1>2, <1>3, <1>4, <1>5, RecoveredObject
<1>7. /\ d.started = u.started /\ d.connKey = u.connKey /\ d.img = u.img
      /\ d.pollers = u.pollers /\ d.streamCmdTimer = u.streamCmdTimer
      /\ d.drawLoops = u.drawLoops /\ d.rafId = u.rafId
      /\ d.out = u.out /\ d.heard = u.heard
      /\ d.abandoned = a /\ d.recoveryTimer = r
  BY <1>1, <1>3 DEF Objects
<1>8. Coherent(d)
  BY <1>1, <1>5, <1>7 DEF Coherent
<1>9. Keeps(c, d)
  BY <1>1, <1>4, <1>7 DEF Keeps
<1> QED BY <1>1, <1>6, <1>7, <1>8, <1>9 DEF Step, d


\* Calm steps follow one another
LEMMA CalmSteps ==
  ASSUME NEW c \in Objects, NEW d, NEW e, NEW key,
         Step(c, d, key), Calm(c, d), Step(d, e, key), Calm(d, e)
  PROVE  Step(c, e, key) /\ Calm(c, e)
<1>1. d \in Objects /\ e \in Objects /\ c.connKey \in Keys \cup {NoKey}
  BY DEF Step, Objects
<1> QED BY <1>1, StepTrans, CalmTrans

\* An assignment that only matters to the picture, then a command
LEMMA EditCommandStep ==
  ASSUME NEW c \in Objects, Coherent(c), NEW key, NEW cmd \in Commands, NEW r \in Rates \cup {0},
         (cmd = "VARPLAY") <=> (r \in Rates),
         NEW paused \in BOOLEAN, NEW rate \in Rates
  PROVE  LET d == streamCommand([c EXCEPT !.paused = paused, !.rate = rate], cmd, r)
         IN Step(c, d, key) /\ Calm(c, d)
<1> DEFINE b == [c EXCEPT !.paused = paused, !.rate = rate]
           d == streamCommand(b, cmd, r)
<1>1. b \in Objects
  BY DEF Objects
<1>1a. /\ b.started = c.started /\ b.connKey = c.connKey /\ b.img = c.img
      /\ b.pollers = c.pollers /\ b.streamCmdTimer = c.streamCmdTimer
      /\ b.drawLoops = c.drawLoops /\ b.rafId = c.rafId
      /\ b.out = c.out /\ b.abandoned = c.abandoned /\ b.heard = c.heard
      /\ b.recoveryTimer = c.recoveryTimer
      /\ b.consecutiveErrors <= c.consecutiveErrors
  BY AttemptsAssumption DEF Objects
<1> HIDE DEF b
<1>2. Step(c, b, key) /\ Calm(c, b)
  BY <1>1, <1>1a, EditStep
<1>3. Coherent(b)
  BY <1>2 DEF Step
<1>4. Step(b, d, key) /\ Calm(b, d)
  BY <1>1, <1>3, CommandStep
<1> HIDE DEF d
<1>5. Step(c, d, key) /\ Calm(c, d)
  BY <1>2, <1>4, CalmSteps
<1> QED BY <1>5 DEF d, b

\* The commands a page gives
LEMMA CommandsStep ==
  ASSUME NEW c \in Objects, Coherent(c), NEW key
  PROVE  /\ Step(c, seek(c), key) /\ Calm(c, seek(c))
         /\ Step(c, setScale(c), key) /\ Calm(c, setScale(c))
         /\ Step(c, pause(c), key) /\ Calm(c, pause(c))
         /\ Step(c, play(c), key) /\ Calm(c, play(c))
         /\ \A rate \in Rates : Step(c, setRate(c, rate), key) /\ Calm(c, setRate(c, rate))
<1>1. {"QUERY", "PAUSE", "PLAY", "VARPLAY"} \subseteq Commands /\ 0 \in Rates \cup {0} /\ 0 \notin Rates
  BY ConstantFacts DEF Commands
<1>2. /\ Step(c, seek(c), key) /\ Calm(c, seek(c))
      /\ Step(c, setScale(c), key) /\ Calm(c, setScale(c))
  BY <1>1, CommandStep DEF seek, setScale
<1>3. c.rate \in Rates /\ c.paused \in BOOLEAN /\ c.started \in BOOLEAN
  BY DEF Objects
<1>4. Step(c, pause(c), key) /\ Calm(c, pause(c))
  <2> DEFINE p == c.paused \/ c.started
  <2>1. p \in BOOLEAN
    OBVIOUS
  <2> DEFINE d == streamCommand([c EXCEPT !.paused = p, !.rate = c.rate], "PAUSE", 0)
  <2>2. [c EXCEPT !.paused = p] = [c EXCEPT !.paused = p, !.rate = c.rate]
    BY DEF Objects
  <2>3. pause(c) = d
    BY <2>2 DEF pause
  <2> HIDE DEF p
  <2>4. "PAUSE" \in Commands
    BY <1>1
  <2>5. Step(c, d, key) /\ Calm(c, d)
    BY <1>1, <1>3, <2>1, <2>4, EditCommandStep
  <2> QED BY <2>3, <2>5
<1>5. Step(c, play(c), key) /\ Calm(c, play(c))
  <2> DEFINE p == c.paused /\ ~c.started
  <2>1. p \in BOOLEAN
    OBVIOUS
  <2> DEFINE d == streamCommand([c EXCEPT !.paused = p, !.rate = c.rate], "PLAY", 0)
  <2>2. [c EXCEPT !.paused = p] = [c EXCEPT !.paused = p, !.rate = c.rate]
    BY DEF Objects
  <2>3. play(c) = d
    BY <2>2 DEF play
  <2> HIDE DEF p
  <2>4. "PLAY" \in Commands
    BY <1>1
  <2>5. Step(c, d, key) /\ Calm(c, d)
    BY <1>1, <1>3, <2>1, <2>4, EditCommandStep
  <2> QED BY <2>3, <2>5
<1>6. ASSUME NEW rate \in Rates
      PROVE  Step(c, setRate(c, rate), key) /\ Calm(c, setRate(c, rate))
  <2>1. [c EXCEPT !.rate = rate] = [c EXCEPT !.paused = c.paused, !.rate = rate]
    BY DEF Objects
  <2> DEFINE d == streamCommand([c EXCEPT !.paused = c.paused, !.rate = rate], "VARPLAY", rate)
  <2>2. setRate(c, rate) = d
    BY <2>1 DEF setRate
  <2>3. "VARPLAY" \in Commands /\ rate \in Rates \cup {0}
    BY <1>1
  <2>4. Step(c, d, key) /\ Calm(c, d)
    BY <1>3, <2>3, EditCommandStep
  <2> QED BY <2>2, <2>4
<1> QED BY <1>2, <1>4, <1>5, <1>6

\* switchEvent: as start, with the failures of the old event forgotten
LEMMA SwitchStep ==
  ASSUME NEW c \in Objects, Coherent(c), NEW key \in Keys, NEW event \in Slider, NEW rate \in Rates
  PROVE  LET d == switchEvent(c, event, rate, key) IN Step(c, d, key) /\ Calm(c, d)
<1> DEFINE b == [c EXCEPT !.recoveryTimer = NoTimer, !.consecutiveErrors = 0]
           d == start(b, event, rate, key)
<1>1. b \in Objects
  <2>1. c.abandoned \in SUBSET Keys /\ c = [c EXCEPT !.abandoned = c.abandoned]
    BY DEF Objects
  <2>2. b = [c EXCEPT !.consecutiveErrors = 0, !.abandoned = c.abandoned, !.recoveryTimer = NoTimer]
    BY DEF Objects
  <2>3. 0 \in 0..maxRecoveryAttempts + 1
    BY AttemptsAssumption
  <2> HIDE DEF b
  <2> QED BY <2>1, <2>2, <2>3, ConstantFacts, RecoveredObject
<1>2. /\ b.started = c.started /\ b.connKey = c.connKey /\ b.img = c.img
      /\ b.pollers = c.pollers /\ b.streamCmdTimer = c.streamCmdTimer
      /\ b.drawLoops = c.drawLoops /\ b.rafId = c.rafId
      /\ b.out = c.out /\ b.abandoned = c.abandoned /\ b.heard = c.heard
      /\ b.recoveryTimer = NoTimer
      /\ b.consecutiveErrors <= c.consecutiveErrors
  BY AttemptsAssumption DEF Objects
<1> HIDE DEF b
<1>3. Step(c, b, key) /\ Calm(c, b)
  BY <1>1, <1>2, EditStep
<1>4. Coherent(b)
  BY <1>3 DEF Step
<1>5. Step(b, d, key) /\ Calm(b, d)
  BY <1>1, <1>4, StartStep
<1> HIDE DEF d
<1>6. Step(c, d, key) /\ Calm(c, d)
  BY <1>3, <1>5, CalmSteps
<1> QED BY <1>6 DEF d, b, switchEvent

Pages == [active : BOOLEAN, speed : Rates \cup {0}, scrubbing : BOOLEAN, event : Slider]

\* What the page does with the stream
LEMMA PageStep ==
  ASSUME NEW c \in Objects, Coherent(c), NEW p \in Pages, NEW event \in Slider, NEW key \in Keys
  PROVE  LET d == outputUpdate(c, p, event, key) IN Step(c, d, key) /\ Calm(c, d)
<1>1. p.speed >= 1 => p.speed \in Rates
  BY DEF Pages
<1>2. Step(c, c, key) /\ Calm(c, c)
  BY StepSelf
<1>3. Step(c, stop(c), key) /\ Calm(c, stop(c))
  BY StopStep
<1>4. Step(c, seek(c), key) /\ Calm(c, seek(c))
  BY CommandsStep
<1>5. CASE p.speed \in Rates
  <2>1. Step(c, start(c, event, p.speed, key), key) /\ Calm(c, start(c, event, p.speed, key))
    BY <1>5, StartStep
  <2>2. Step(c, switchEvent(c, event, p.speed, key), key) /\ Calm(c, switchEvent(c, event, p.speed, key))
    BY <1>5, SwitchStep
  <2> QED BY <1>2, <1>3, <1>4, <2>1, <2>2 DEF outputUpdate
<1>6. CASE p.speed \notin Rates
  <2>1. p.speed < 1
    BY <1>6, ConstantFacts DEF Pages
  <2> QED BY <1>2, <2>1 DEF outputUpdate
<1> QED BY <1>5, <1>6

\* What the page does on a status: a stream that has drifted is moved
LEMMA StatusStep ==
  ASSUME NEW c \in Objects, Coherent(c), NEW p \in Pages, NEW drift \in BOOLEAN,
         NEW key, drift => key \in Keys
  PROVE  LET d == onStatus(c, p, drift, key) IN Step(c, d, key) /\ Calm(c, d)
<1>1. Step(c, c, key) /\ Calm(c, c)
  BY StepSelf
<1>2. Step(c, seek(c), key) /\ Calm(c, seek(c))
  BY CommandsStep
<1>3. CASE drift /\ p.speed \in Rates
  <2>1. p.event \in Slider /\ key \in Keys
    BY <1>3 DEF Pages
  <2>2. /\ Step(c, switchEvent(c, p.event, p.speed, key), key)
        /\ Calm(c, switchEvent(c, p.event, p.speed, key))
    BY <1>3, <2>1, SwitchStep
  <2> QED BY <1>1, <1>2, <2>2 DEF onStatus
<1>4. CASE p.speed \notin Rates
  <2>1. p.speed < 1
    BY <1>4, ConstantFacts DEF Pages
  <2> QED BY <1>1, <2>1 DEF onStatus
<1>5. CASE ~drift
  BY <1>1, <1>5 DEF onStatus
<1> QED BY <1>3, <1>4, <1>5


-----------------------------------------------------------------------------
(* The inductive invariant.  Between the handlers the exchange in progress *)
(* carries what the next one relies on: SocketInv, and that what php says  *)
(* of a zms is still true when the page hears it.                          *)

FlightInv ==
  Answered("no_socket") =>
    (Head(queue).key = es.connKey /\ es.heard => zms[es.connKey].st = "gone")

\* A zms that has answered is past its start
HeardInv == (es.heard /\ es.connKey # NoKey) => zms[es.connKey].st # "starting"

IInv == TypeOK /\ SocketInv /\ Coherent(es) /\ QuitOnItsWay /\ FlightInv /\ HeardInv

\* What is to be shown of every step about the failures that are counted
FailureStep ==
  (\/ es'.consecutiveErrors > es.consecutiveErrors
   \/ es'.recoveryTimer # NoTimer /\ es.recoveryTimer = NoTimer)
  => /\ es.started
     /\ es.heard => zms[es.connKey].st = "gone" \/ flight.result = "failed"


\* Between handlers the object is one of those the methods are about
LEMMA ObjectOfType ==
  ASSUME TypeOK
  PROVE  es \in Objects /\ es.out = <<>>
<1>1. es \in EsType
  BY DEF TypeOK
<1>2. 0..1 \subseteq Int /\ <<>> \in Seq(Requests)
  OBVIOUS
<1> QED BY <1>1, <1>2 DEF EsType, Objects

\* What a handler that has run leaves: b is the object it started from, up to
\* what a reply says of its zms
LEMMA HandledInv ==
  ASSUME IInv, NEW b, NEW d, NEW key,
         key \in FreshKeys(es.connKey) \cup {NoKey},
         b.connKey = es.connKey, b.abandoned = es.abandoned,
         b.heard /\ es.connKey # NoKey => zms[es.connKey].st # "starting",
         Step(b, d, key), Handled(d),
         queue' \in Seq(Requests),
         \A k \in Keys : Quits(k, d.out) => Quits(k, queue'),
         \A k \in Keys : Quits(k, queue) =>
           \/ zms[k].st = "gone" \/ k \in d.abandoned
           \/ Quits(k, queue') \/ Quits(k, zms[k].box)
  PROVE  /\ es' \in EsType /\ zms' \in [Keys -> Processes] /\ faults' = faults
         /\ Coherent(es)' /\ QuitOnItsWay' /\ HeardInv' /\ BoxesInv'
         /\ \A k \in Keys : Referenced(k) \/ k = es.connKey => zms'[k] = zms[k]
<1> DEFINE e == [d EXCEPT !.out = <<>>, !.abandoned = {k \in d.abandoned : zms[k].st # "gone"}]
<1>1. d \in Objects /\ Coherent(d) /\ Keeps(b, d)
  BY DEF Step
<1>2. es' = e /\ faults' = faults
  BY DEF Handled
<1>3. /\ e.started = d.started /\ e.connKey = d.connKey /\ e.img = d.img
      /\ e.pollers = d.pollers /\ e.streamCmdTimer = d.streamCmdTimer
      /\ e.drawLoops = d.drawLoops /\ e.rafId = d.rafId
      /\ e.recoveryTimer = d.recoveryTimer /\ e.heard = d.heard
      /\ e.abandoned = {k \in d.abandoned : zms[k].st # "gone"}
  BY <1>1 DEF Objects
<1>4. Coherent(e)
  BY <1>1, <1>3 DEF Coherent
<1>5. Coherent(es)'
  BY <1>2, <1>4 DEF Coherent
<1>6. e \in EsType
  <2>1. d.pollers \in 0..1 /\ d.drawLoops \in 0..1
    BY <1>1 DEF Coherent
  <2>2. {k \in d.abandoned : zms[k].st # "gone"} \in SUBSET Keys
    BY <1>1 DEF Objects
  <2> DEFINE o == <<>>
             a == {k \in d.abandoned : zms[k].st # "gone"}
  <2>3. o \in {<<>>} /\ e = [d EXCEPT !.out = o, !.abandoned = a]
    OBVIOUS
  <2> HIDE DEF o, a, e
  <2> QED BY <1>1, <2>1, <2>2, <2>3 DEF Objects, EsType, a
<1> HIDE DEF e
<1>7. zms \in [Keys -> Processes] /\ SocketInv
  BY SocketTypes DEF IInv, SocketInv
<1>8. d.connKey \in Keys \cup {NoKey} /\ d.rate \in Rates
  BY <1>1 DEF Objects
<1>9. CASE d.connKey # NoKey /\ d.connKey # es.connKey
  <2>1. /\ d.connKey = key /\ key \in Keys /\ key # es.connKey
        /\ ~Referenced(key)
    BY <1>9 DEF Step, FreshKeys
  <2>2. ZmsRequested(key, d.rate)
    BY <1>9, <2>1 DEF Handled
  <2>3. /\ zms' \in [Keys -> Processes] /\ BoxesInv'
        /\ \A k \in Keys : k # key => zms'[k] = zms[k]
    BY <1>7, <1>8, <2>1, <2>2, RequestedStep
  <2>4. d.heard = FALSE
    BY <1>1, <1>9 DEF Step, Objects
  <2>5. HeardInv'
    BY <1>2, <1>3, <2>4 DEF HeardInv
  <2>6. ASSUME NEW k \in Keys
        PROVE  zms'[k].st = "gone" \/ k = es'.connKey \/ k \in es'.abandoned \/ QuitPending(k)'
    <3>1. CASE k = key
      BY <1>2, <1>3, <2>1, <3>1
    <3>2. CASE k # key
      <4>1. zms'[k] = zms[k]
        BY <2>3, <3>2
      <4>2. zms[k].st = "gone" \/ k = es.connKey \/ k \in es.abandoned \/ QuitPending(k)
        BY DEF IInv, QuitOnItsWay
      <4>3. k = es.connKey => Quits(k, d.out) \/ k \in d.abandoned
        BY <1>1, <1>9, ConstantFacts DEF Keeps
      <4>4. k \in es.abandoned => k \in d.abandoned
        BY <1>1 DEF Keeps
      <4>5. k \in d.abandoned => zms[k].st = "gone" \/ k \in es'.abandoned
        BY <1>2, <1>3
      <4> QED BY <4>1, <4>2, <4>3, <4>4, <4>5 DEF QuitPending
    <3> QED BY <3>1, <3>2
  <2>7. QuitOnItsWay'
    BY <2>6 DEF QuitOnItsWay
  <2> QED BY <1>2, <1>5, <1>6, <2>1, <2>3, <2>5, <2>7
<1>10. CASE ~(d.connKey # NoKey /\ d.connKey # es.connKey)
  <2>1. zms' = zms
    BY <1>10 DEF Handled
  <2>2. HeardInv'
    BY <1>2, <1>3, <1>10, <2>1 DEF HeardInv, Step
  <2>3. ASSUME NEW k \in Keys
        PROVE  zms'[k].st = "gone" \/ k = es'.connKey \/ k \in es'.abandoned \/ QuitPending(k)'
    <3>1. zms[k].st = "gone" \/ k = es.connKey \/ k \in es.abandoned \/ QuitPending(k)
      BY DEF IInv, QuitOnItsWay
    <3>2. k = es.connKey => Quits(k, d.out) \/ k \in d.abandoned \/ k = es'.connKey
      BY <1>1, <1>2, <1>3, ConstantFacts DEF Keeps
    <3>3. k \in es.abandoned => k \in d.abandoned
      BY <1>1 DEF Keeps
    <3>4. k \in d.abandoned => zms[k].st = "gone" \/ k \in es'.abandoned
      BY <1>2, <1>3
    <3> QED BY <2>1, <3>1, <3>2, <3>3, <3>4 DEF QuitPending
  <2>4. QuitOnItsWay'
    BY <2>3 DEF QuitOnItsWay
  <2>5. BoxesInv'
    BY <1>7, <2>1 DEF SocketInv, BoxesInv
  <2> QED BY <1>2, <1>5, <1>6, <1>7, <2>1, <2>2, <2>4, <2>5
<1> QED BY <1>9, <1>10


-----------------------------------------------------------------------------
(* The handlers.                                                           *)

\* A handler that is not a reply leaves the exchange in progress alone
LEMMA HandlerInv ==
  ASSUME IInv, NEW d, NEW key, key \in FreshKeys(es.connKey) \cup {NoKey},
         Step(es, d, key), Handler(d), page' \in Pages
  PROVE  IInv'
<1>1. /\ Handled(d) /\ flight' = flight /\ queue' = queue \o d.out
      /\ d.out \in Seq(Requests) /\ SocketInv
  BY DEF Handler, Enqueue, Step, Objects, IInv
<1>2. queue \in Seq(Requests) /\ queue' \in Seq(Requests)
  <2>1. queue \in Seq(Requests)
    BY <1>1, SocketTypes DEF SocketInv
  <2> QED BY <1>1, <2>1
<1>3. \A k \in Keys : Quits(k, queue') <=> Quits(k, queue) \/ Quits(k, d.out)
  BY <1>1, <1>2, QuitsConcat
<1>4. (es.heard /\ es.connKey # NoKey) => zms[es.connKey].st # "starting"
  BY DEF IInv, HeardInv
<1>5. /\ es' \in EsType /\ zms' \in [Keys -> Processes] /\ faults' = faults
      /\ Coherent(es)' /\ QuitOnItsWay' /\ HeardInv' /\ BoxesInv'
      /\ \A k \in Keys : Referenced(k) \/ k = es.connKey => zms'[k] = zms[k]
  BY <1>1, <1>2, <1>3, <1>4, HandledInv
<1>6. TypeOK'
  BY <1>1, <1>2, <1>5 DEF IInv, TypeOK, SocketTypeOK, Pages, Processes
<1>7. ExchangeInv' /\ (queue # <<>> => Head(queue') = Head(queue) /\ Head(queue).key \in Keys)
  BY <1>1, <1>5, EnqueueStep
<1>8. SocketInv'
  BY <1>5, <1>6, <1>7 DEF SocketInv, TypeOK
<1>9. FlightInv'
  <2> SUFFICES ASSUME Answered("no_socket") PROVE FlightInv'
    BY <1>1 DEF FlightInv, Answered
  <2> DEFINE k == Head(queue).key
  <2>1. queue # <<>> /\ FlightInv
    BY DEF IInv, SocketInv, ExchangeInv, Answered
  <2>2. Head(queue').key = k /\ k \in Keys
    BY <1>7, <2>1
  <2>3. (k = es'.connKey /\ es'.heard) => (k = es.connKey /\ es.heard)
    <3>1. es'.connKey = d.connKey /\ es'.heard = d.heard
      BY <1>1 DEF Handled, Step, Objects
    <3> QED BY <2>2, <3>1, ConstantFacts DEF Step
  <2>4. k = es.connKey => zms'[k] = zms[k]
    BY <1>5, <2>2
  <2> HIDE DEF k
  <2> QED BY <2>1, <2>2, <2>3, <2>4 DEF FlightInv, k
<1> QED BY <1>5, <1>6, <1>8, <1>9 DEF IInv

\* A calm handler counts no failure
LEMMA CalmHandler ==
  ASSUME IInv, NEW d \in Objects, Calm(es, d), Handled(d)
  PROVE  FailureStep
<1>1. es'.consecutiveErrors = d.consecutiveErrors /\ es'.recoveryTimer = d.recoveryTimer
  BY DEF Handled, Objects
<1>2. es.consecutiveErrors \in Int /\ d.consecutiveErrors \in Int
  BY ObjectOfType, AttemptsAssumption DEF IInv, Objects
<1> QED BY <1>1, <1>2 DEF FailureStep, Calm

\* The two together
LEMMA CalmHandlerInv ==
  ASSUME IInv, NEW d, NEW key, key \in FreshKeys(es.connKey) \cup {NoKey},
         Step(es, d, key), Calm(es, d), Handler(d), page' \in Pages
  PROVE  IInv' /\ FailureStep
<1>1. d \in Objects /\ Handled(d)
  BY DEF Step, Handler
<1> QED BY <1>1, HandlerInv, CalmHandler

\* A connkey that is drawn is fresh
LEMMA NewKeyFresh ==
  ASSUME HasKey
  PROVE  NewKey \in FreshKeys(es.connKey) /\ NewKey \in Keys
  BY DEF HasKey, NewKey, genConnKey, FreshKeys

\* The slider moves on: start, stop, switch or seek
LEMMA TimerFireInv ==
  ASSUME IInv, TimerFire
  PROVE  IInv' /\ FailureStep
<1>1. PICK event \in Slider :
        /\ Handler(outputUpdate(es, page, event, NewKey))
        /\ page' = [page EXCEPT !.event = event]
  BY DEF TimerFire
<1>2. NewKey \in FreshKeys(es.connKey) /\ NewKey \in Keys
  BY NewKeyFresh DEF TimerFire
<1>3. es \in Objects /\ Coherent(es) /\ page \in Pages
  BY ObjectOfType DEF IInv, TypeOK, Pages
<1>4. page' \in Pages
  BY <1>1, <1>3 DEF Pages
<1> DEFINE d == outputUpdate(es, page, event, NewKey)
<1>5. Step(es, d, NewKey) /\ Calm(es, d)
  BY <1>2, <1>3, PageStep
<1> HIDE DEF d
<1>6. Handler(d)
  BY <1>1 DEF d
<1> QED BY <1>2, <1>4, <1>5, <1>6, CalmHandlerInv

\* A new speed: the stream is stopped, or told its rate and resumed
LEMMA SetSpeedInv ==
  ASSUME IInv, NEW speed \in Rates \cup {0}, SetSpeed(speed)
  PROVE  IInv' /\ FailureStep
<1> DEFINE r == IF ~es.started THEN es
                ELSE IF speed < 1 THEN stop(es)
                ELSE LET s == setRate(es, speed)
                     IN IF s.paused THEN play(s) ELSE s
           p(event) == [page EXCEPT !.speed = speed, !.event = event]
<1>1. PICK event \in Slider :
        /\ Handler(outputUpdate(r, p(event), event, NewKey))
        /\ page' = p(event)
  BY DEF SetSpeed
<1>2. NewKey \in FreshKeys(es.connKey) /\ NewKey \in Keys
  BY NewKeyFresh DEF SetSpeed
<1>3. es \in Objects /\ Coherent(es) /\ page \in Pages
  BY ObjectOfType DEF IInv, TypeOK, Pages
<1>4. p(event) \in Pages
  BY <1>3 DEF Pages
<1>5. Step(es, r, NewKey) /\ Calm(es, r)
  <2>1. CASE ~es.started
    BY <1>3, <2>1, StepSelf
  <2>2. CASE es.started /\ speed < 1
    BY <1>3, <2>2, StopStep
  <2>3. CASE es.started /\ ~(speed < 1)
    <3> DEFINE s == setRate(es, speed)
    <3>1. speed \in Rates
      BY <2>3
    <3>2. Step(es, s, NewKey) /\ Calm(es, s)
      BY <1>3, <3>1, CommandsStep
    <3>3. r = IF s.paused THEN play(s) ELSE s
      BY <2>3
    <3> HIDE DEF r, s
    <3>4. s \in Objects /\ Coherent(s)
      BY <3>2 DEF Step
    <3>5. Step(s, play(s), NewKey) /\ Calm(s, play(s))
      BY <3>4, CommandsStep
    <3>6. Step(es, play(s), NewKey) /\ Calm(es, play(s))
      BY <1>3, <3>2, <3>5, CalmSteps
    <3> QED BY <3>2, <3>3, <3>6
  <2> QED BY <2>1, <2>2, <2>3
<1> DEFINE d == outputUpdate(r, p(event), event, NewKey)
<1> HIDE DEF r, p
<1>6. r \in Objects /\ Coherent(r)
  BY <1>5 DEF Step
<1>7. Step(r, d, NewKey) /\ Calm(r, d)
  BY <1>2, <1>4, <1>6, PageStep
<1>8. Handler(d)
  BY <1>1
<1> HIDE DEF d
<1>9. Step(es, d, NewKey) /\ Calm(es, d)
  BY <1>3, <1>5, <1>7, CalmSteps
<1> QED BY <1>1, <1>2, <1>4, <1>8, <1>9, CalmHandlerInv


\* The handlers that draw no connkey: any calm step of theirs keeps IInv
LEMMA KeylessInv ==
  ASSUME IInv, NEW d, Step(es, d, NoKey), Calm(es, d), Handler(d), page' \in Pages
  PROVE  IInv' /\ FailureStep
  BY CalmHandlerInv

\* The delayed re-sync seeks at most
LEMMA ResyncInv ==
  ASSUME IInv, Resync
  PROVE  IInv' /\ FailureStep
<1> DEFINE d == syncEventStreamsToTime(es, page)
<1>1. es \in Objects /\ Coherent(es) /\ page' \in Pages
  BY ObjectOfType DEF IInv, TypeOK, Pages, Resync
<1>2. Step(es, d, NoKey) /\ Calm(es, d)
  BY <1>1, StepSelf, CommandsStep DEF syncEventStreamsToTime
<1>3. Handler(d)
  BY DEF Resync
<1> HIDE DEF d
<1> QED BY <1>1, <1>2, <1>3, KeylessInv

\* Scrubbing begins: pause, then whatever the slider stands on
LEMMA MDownInv ==
  ASSUME IInv, MDown
  PROVE  IInv' /\ FailureStep
<1> DEFINE p(event) == [page EXCEPT !.scrubbing = TRUE, !.event = event]
           b == pause(es)
<1>1. PICK event \in Slider :
        /\ Handler(outputUpdate(b, p(event), event, NewKey))
        /\ page' = p(event)
  BY DEF MDown
<1>2. NewKey \in FreshKeys(es.connKey) /\ NewKey \in Keys
  BY NewKeyFresh DEF MDown
<1>3. es \in Objects /\ Coherent(es) /\ page \in Pages
  BY ObjectOfType DEF IInv, TypeOK, Pages
<1>4. p(event) \in Pages
  BY <1>3 DEF Pages
<1>5. Step(es, b, NewKey) /\ Calm(es, b)
  BY <1>3, CommandsStep
<1> DEFINE d == outputUpdate(b, p(event), event, NewKey)
<1> HIDE DEF b, p
<1>6. b \in Objects /\ Coherent(b)
  BY <1>5 DEF Step
<1>7. Step(b, d, NewKey) /\ Calm(b, d)
  BY <1>2, <1>4, <1>6, PageStep
<1>8. Handler(d)
  BY <1>1
<1> HIDE DEF d
<1>9. Step(es, d, NewKey) /\ Calm(es, d)
  BY <1>3, <1>5, <1>7, CalmSteps
<1> QED BY <1>1, <1>2, <1>4, <1>8, <1>9, CalmHandlerInv

\* Scrubbing ends: seek, then play
LEMMA MUpInv ==
  ASSUME IInv, MUp
  PROVE  IInv' /\ FailureStep
<1> DEFINE b == syncEventStreamsToTime(es, page)
           d == IF page.active /\ page.speed >= 1 THEN play(b) ELSE es
<1>1. es \in Objects /\ Coherent(es) /\ page \in Pages
  BY ObjectOfType DEF IInv, TypeOK, Pages
<1>2. page' \in Pages
  BY <1>1 DEF MUp, Pages
<1>3. Step(es, b, NoKey) /\ Calm(es, b)
  BY <1>1, StepSelf, CommandsStep DEF syncEventStreamsToTime
<1>4. Handler(d)
  BY DEF MUp
<1> HIDE DEF b
<1>5. b \in Objects /\ Coherent(b)
  BY <1>3 DEF Step
<1>6. Step(b, play(b), NoKey) /\ Calm(b, play(b))
  BY <1>5, CommandsStep
<1>7. Step(es, play(b), NoKey) /\ Calm(es, play(b))
  BY <1>1, <1>3, <1>6, CalmSteps
<1>8. Step(es, es, NoKey) /\ Calm(es, es)
  BY <1>1, StepSelf
<1>9. Step(es, d, NoKey) /\ Calm(es, d)
  BY <1>7, <1>8
<1> HIDE DEF d
<1> QED BY <1>2, <1>4, <1>9, KeylessInv

\* A new scale is a command
LEMMA UpdateStreamScalesInv ==
  ASSUME IInv, UpdateStreamScales
  PROVE  IInv' /\ FailureStep
<1>1. es \in Objects /\ Coherent(es) /\ page' \in Pages
  BY ObjectOfType DEF IInv, TypeOK, Pages, UpdateStreamScales
<1>2. Step(es, setScale(es), NoKey) /\ Calm(es, setScale(es))
  BY <1>1, CommandsStep
<1> QED BY <1>1, <1>2, KeylessInv DEF UpdateStreamScales

\* Going live stops the stream
LEMMA SetLiveInv ==
  ASSUME IInv, SetLive
  PROVE  IInv' /\ FailureStep
<1> DEFINE d == IF es.started THEN stop(es) ELSE es
<1>1. es \in Objects /\ Coherent(es) /\ page \in Pages
  BY ObjectOfType DEF IInv, TypeOK, Pages
<1>2. page' \in Pages
  BY <1>1 DEF SetLive, Pages
<1>3. Step(es, d, NoKey) /\ Calm(es, d)
  BY <1>1, StepSelf, StopStep
<1>4. Handler(d)
  BY DEF SetLive
<1> HIDE DEF d
<1> QED BY <1>2, <1>3, <1>4, KeylessInv

\* The status timer asks
LEMMA PollInv ==
  ASSUME IInv, Poll
  PROVE  IInv' /\ FailureStep
<1> DEFINE d == IF es.started THEN streamCommand(es, "QUERY", 0) ELSE es
<1>1. es \in Objects /\ Coherent(es) /\ page' \in Pages
  BY ObjectOfType DEF IInv, TypeOK, Pages, Poll
<1>2. Step(es, d, NoKey) /\ Calm(es, d)
  <2>1. Step(es, seek(es), NoKey) /\ Calm(es, seek(es))
    BY <1>1, CommandsStep
  <2> QED BY <1>1, <2>1, StepSelf DEF seek
<1>3. Handler(d)
  BY DEF Poll
<1> HIDE DEF d
<1> QED BY <1>1, <1>2, <1>3, KeylessInv

\* The retry starts the stream over, with the event and rate it kept
LEMMA RecoveryTimerInv ==
  ASSUME IInv, RecoveryTimer
  PROVE  IInv' /\ FailureStep
<1> DEFINE c == [es EXCEPT !.recoveryTimer = NoTimer]
           d == IF es.started THEN c
                ELSE start(c, es.recoveryTimer.event, es.recoveryTimer.rate, NewKey)
<1>1. es \in Objects /\ Coherent(es) /\ page' \in Pages
  BY ObjectOfType DEF IInv, TypeOK, Pages, RecoveryTimer
<1>2. NewKey \in FreshKeys(es.connKey) /\ NewKey \in Keys
  BY NewKeyFresh DEF RecoveryTimer
<1>3. es.recoveryTimer.event \in Slider /\ es.recoveryTimer.rate \in Rates
  BY <1>1 DEF Objects, Coherent, RecoveryTimer
<1>4. Step(es, c, NewKey) /\ Calm(es, c)
  BY <1>1, CancelStep
<1>5. Handler(d)
  BY DEF RecoveryTimer
<1> HIDE DEF c
<1>6. c \in Objects /\ Coherent(c)
  BY <1>4 DEF Step
<1> DEFINE s == start(c, es.recoveryTimer.event, es.recoveryTimer.rate, NewKey)
<1>7. Step(c, s, NewKey) /\ Calm(c, s)
  BY <1>2, <1>3, <1>6, StartStep
<1> HIDE DEF s
<1>8. Step(es, s, NewKey) /\ Calm(es, s)
  BY <1>1, <1>4, <1>7, CalmSteps
<1>9. Step(es, d, NewKey) /\ Calm(es, d)
  BY <1>4, <1>8 DEF s
<1> HIDE DEF d
<1> QED BY <1>1, <1>2, <1>5, <1>9, CalmHandlerInv

\* The img has lost its zms: its timers are stopped before recover runs
LEMMA ImgErrorInv ==
  ASSUME IInv, ImgError
  PROVE  IInv' /\ FailureStep
<1> DEFINE n == IF es.streamCmdTimer THEN es.pollers - 1 ELSE es.pollers
           l == IF es.rafId THEN es.drawLoops - 1 ELSE es.drawLoops
           c == [es EXCEPT !.pollers = n, !.streamCmdTimer = FALSE,
                           !.drawLoops = l, !.rafId = FALSE]
           d == recover(c)
<1>1. es \in Objects /\ Coherent(es) /\ page' \in Pages
  BY ObjectOfType DEF IInv, TypeOK, Pages, ImgError
<1>2. es.started /\ es.img = es.connKey /\ es.connKey \in Keys /\ es.recoveryTimer = NoTimer
  BY <1>1 DEF Coherent, Objects, ImgError
<1>3. Handler(d)
  BY DEF ImgError
<1>4. n = 0 /\ l = 0
  BY <1>1, <1>2 DEF Coherent
<1> HIDE DEF n, l
<1>5. c \in Objects
  <2>1. n \in Int /\ l \in Int
    BY <1>4
  <2> QED BY <1>1, <2>1 DEF Objects
<1>6. /\ c.connKey = es.connKey /\ c.recoveryTimer = es.recoveryTimer
      /\ c.out = es.out /\ c.abandoned = es.abandoned /\ c.heard = es.heard
      /\ c.pollers = 0 /\ c.drawLoops = 0 /\ c.streamCmdTimer = FALSE /\ c.rafId = FALSE
  BY <1>1, <1>4 DEF Objects
<1> HIDE DEF c
<1>7. Countable(c)
  BY <1>2, <1>6 DEF Countable
<1>8. Step(c, d, NoKey)
  BY <1>2, <1>5, <1>6, <1>7, RecoverStep
<1> HIDE DEF d
<1>9. Step(es, d, NoKey)
  BY <1>6, <1>8 DEF Step, Keeps
<1>10. IInv'
  BY <1>1, <1>3, <1>9, HandlerInv
<1>11. FailureStep
  BY <1>2 DEF FailureStep, ImgError
<1> QED BY <1>10, <1>11


\* The request in progress is the first one of the queue
LEMMA RequestInProgress ==
  ASSUME IInv, flight.st # "idle"
  PROVE  /\ queue # <<>> /\ queue \in Seq(Requests) /\ Tail(queue) \in Seq(Requests)
         /\ Head(queue) \in Requests /\ Head(queue).key \in Keys
<1>1. queue # <<>> /\ SocketTypeOK
  BY DEF IInv, SocketInv, ExchangeInv
<1> QED BY <1>1, FirstRequest

\* The object as a status reply finds its zms alive
Hears(c, d) ==
  /\ d.connKey = c.connKey /\ d.abandoned = c.abandoned
  /\ d.heard => c.heard \/ (Answered("ok") /\ Head(queue).key = c.connKey)

\* The handler of a reply: what it may count as a failure
LEMMA ReplyStep ==
  ASSUME IInv, flight.st = "answered", NEW drift \in BOOLEAN, drift => HasKey
  PROVE  LET key == IF HasKey THEN NewKey ELSE NoKey
             k == Head(queue).key
             c == IF flight.result = "failed" THEN requestFailed(es, k)
                  ELSE getStreamCmdResponse(es, k, flight, drift, NewKey)
         IN \E b : /\ Hears(es, b) /\ Step(b, c, key)
                   /\ \/ Calm(es, c)
                      \/ es.started /\ (es.heard => zms[es.connKey].st = "gone" \/ flight.result = "failed")
<1> DEFINE key == IF HasKey THEN NewKey ELSE NoKey
           k == Head(queue).key
           c == IF flight.result = "failed" THEN requestFailed(es, k)
                ELSE getStreamCmdResponse(es, k, flight, drift, NewKey)
<1>1. es \in Objects /\ Coherent(es) /\ page \in Pages
  BY ObjectOfType DEF IInv, TypeOK, Pages
<1>2. k \in Keys
  BY RequestInProgress
<1>3. Step(es, es, key) /\ Calm(es, es) /\ Hears(es, es)
  <2>1. Hears(es, es)
    BY Zenon DEF Hears
  <2> HIDE DEF key
  <2> QED BY <1>1, <2>1, StepSelf
<1>4. CASE k = es.connKey /\ flight.result \in {"failed", "no_socket"}
  <2>1. c = recover(es)
    BY <1>4 DEF requestFailed, getStreamCmdResponse, errorIsFatal
  <2>2. es.started /\ es.recoveryTimer = NoTimer /\ Countable(es)
    BY <1>1, <1>2, <1>4, ConstantFacts, CoherentCountable DEF Coherent
  <2>3. Step(es, recover(es), key)
    BY <1>1, <1>2, <1>4, <2>2, RecoverStep
  <2>4. es.heard => zms[es.connKey].st = "gone" \/ flight.result = "failed"
    BY <1>4 DEF IInv, FlightInv, Answered
  <2> HIDE DEF c, key
  <2>5. Step(es, c, key)
    BY <2>1, <2>3
  <2>6. Hears(es, es) /\ Step(es, c, key) /\ es.started
    BY <1>3, <2>2, <2>5
  <2> QED BY <2>4, <2>6 DEF c, key, k
<1>5. CASE k = es.connKey /\ flight.result = "ok"
  <2> DEFINE e == 0
             m == flight.mode = "pause"
             h == TRUE
             b == [es EXCEPT !.consecutiveErrors = e, !.paused = m, !.heard = h]
  <2>1. c = onStatus(b, page, drift, key)
    BY <1>5 DEF getStreamCmdResponse, onStatus
  <2>2. e \in 0..maxRecoveryAttempts + 1 /\ m \in BOOLEAN /\ h \in BOOLEAN /\ e = 0
    BY AttemptsAssumption
  <2> HIDE DEF e, m, h
  <2>3. b \in Objects
    BY <1>1, <2>2 DEF Objects
  <2>4. /\ b.started = es.started /\ b.connKey = es.connKey /\ b.img = es.img
        /\ b.pollers = es.pollers /\ b.streamCmdTimer = es.streamCmdTimer
        /\ b.drawLoops = es.drawLoops /\ b.rafId = es.rafId
        /\ b.abandoned = es.abandoned /\ b.recoveryTimer = es.recoveryTimer
        /\ b.consecutiveErrors = 0
    BY <1>1, <2>2 DEF Objects
  <2> HIDE DEF b
  <2>5. Coherent(b)
    BY <1>1, <2>4 DEF Coherent
  <2>6. drift => key \in Keys
    BY NewKeyFresh
  <2> HIDE DEF key, c
  <2>7. Step(b, c, key) /\ Calm(b, c)
    BY <1>1, <2>1, <2>3, <2>5, <2>6, StatusStep
  <2>8. Hears(es, b)
    BY <1>5, <2>4 DEF Hears, Answered
  <2>9. es.consecutiveErrors \in Nat /\ c.consecutiveErrors \in Nat
    BY <1>1, <2>7, AttemptsAssumption DEF Step, Objects
  <2>10. Calm(es, c)
    BY <2>4, <2>7, <2>9 DEF Calm
  <2> QED BY <2>7, <2>8, <2>10 DEF c, key, k
<1>6. CASE k # es.connKey \/ flight.result \notin {"ok", "failed", "no_socket"}
  <2>1. c = es
    BY <1>6 DEF requestFailed, getStreamCmdResponse, errorIsFatal
  <2> HIDE DEF c, key
  <2>2. Hears(es, es) /\ Step(es, c, key) /\ Calm(es, c)
    BY <1>3, <2>1
  <2> QED BY <2>2 DEF c, key, k
<1> QED BY <1>4, <1>5, <1>6

\* A QUIT whose exchange has ended reached its zms, or is noted as lost
LEMMA ResponseInv ==
  ASSUME IInv, Response
  PROVE  IInv' /\ FailureStep
<1> DEFINE key == IF HasKey THEN NewKey ELSE NoKey
           r == Head(queue)
           c(drift) == IF flight.result = "failed" THEN requestFailed(es, r.key)
                       ELSE getStreamCmdResponse(es, r.key, flight, drift, NewKey)
           q == r.cmd = "QUIT" /\ flight.result # "ok"
<1>1. PICK drift \in BOOLEAN :
        /\ drift => HasKey
        /\ Handled([c(drift) EXCEPT !.abandoned =
                      IF q THEN c(drift).abandoned \cup {r.key} ELSE c(drift).abandoned])
        /\ Dequeue(c(drift).out)
  BY DEF Response
<1>2. flight.st = "answered" /\ page' = page
  BY DEF Response
<1>3. PICK b : /\ Hears(es, b) /\ Step(b, c(drift), key)
               /\ \/ Calm(es, c(drift))
                  \/ es.started /\ (es.heard => zms[es.connKey].st = "gone" \/ flight.result = "failed")
  BY <1>1, <1>2, ReplyStep
<1> DEFINE f == c(drift)
           a == IF q THEN f.abandoned \cup {r.key} ELSE f.abandoned
           d == [f EXCEPT !.abandoned = a]
<1>4. Handled(d) /\ Dequeue(f.out)
  BY <1>1
<1>5. key \in FreshKeys(es.connKey) \cup {NoKey}
  BY NewKeyFresh
<1> HIDE DEF c, key, f
<1>6. /\ queue # <<>> /\ queue \in Seq(Requests) /\ r \in Requests /\ r.key \in Keys
      /\ Tail(queue) \in Seq(Requests)
  BY <1>2, RequestInProgress
<1>7. f \in Objects /\ Coherent(f) /\ Step(b, f, key)
  BY <1>3 DEF Step, f
<1>8. a \in SUBSET Keys /\ f.abandoned \subseteq a /\ (q => r.key \in a)
  BY <1>6, <1>7 DEF Objects
<1> HIDE DEF a, q, r
<1>9. d \in Objects
  BY <1>7, <1>8 DEF Objects
<1>10. /\ d.started = f.started /\ d.connKey = f.connKey /\ d.img = f.img
       /\ d.pollers = f.pollers /\ d.streamCmdTimer = f.streamCmdTimer
       /\ d.drawLoops = f.drawLoops /\ d.rafId = f.rafId
       /\ d.recoveryTimer = f.recoveryTimer /\ d.heard = f.heard
       /\ d.out = f.out /\ d.abandoned = a
       /\ d.consecutiveErrors = f.consecutiveErrors
  BY <1>7 DEF Objects
<1> HIDE DEF d
<1>11. Coherent(d)
  BY <1>7, <1>10 DEF Coherent
<1>12. Step(b, d, key)
  BY <1>7, <1>8, <1>9, <1>10, <1>11 DEF Step, Keeps
<1>13. /\ f.out \in Seq(Requests) /\ SocketInv /\ Dequeue(d.out) /\ d.out \in Seq(Requests)
       /\ flight' = Idle
  BY <1>4, <1>7, <1>10 DEF Dequeue, Objects, IInv
<1>14. /\ queue' \in Seq(Requests) /\ flight' \in Flights /\ ExchangeInv'
       /\ \A k \in Keys : Quits(k, d.out) => Quits(k, queue')
       /\ \A k \in Keys : Quits(k, queue) =>
            \/ zms[k].st = "gone" \/ Quits(k, queue') \/ Quits(k, zms[k].box)
            \/ r.key = k /\ r.cmd = "QUIT" /\ flight.result # "ok"
  BY <1>13, DequeueStep DEF r
<1>15. ASSUME NEW k \in Keys, Quits(k, queue)
       PROVE  \/ zms[k].st = "gone" \/ k \in d.abandoned
              \/ Quits(k, queue') \/ Quits(k, zms[k].box)
  BY <1>8, <1>10, <1>14, <1>15 DEF q
<1>16. (b.heard /\ es.connKey # NoKey) => zms[es.connKey].st # "starting"
  BY <1>2, <1>3 DEF Hears, IInv, HeardInv, SocketInv, ExchangeInv, Answered
<1>17. b.connKey = es.connKey /\ b.abandoned = es.abandoned
  BY <1>3 DEF Hears
<1>18. /\ es' \in EsType /\ zms' \in [Keys -> Processes] /\ faults' = faults
       /\ Coherent(es)' /\ QuitOnItsWay' /\ HeardInv' /\ BoxesInv'
  BY <1>4, <1>5, <1>12, <1>14, <1>15, <1>16, <1>17, HandledInv
<1>19. TypeOK' /\ SocketInv'
  <2>1. TypeOK'
    BY <1>2, <1>14, <1>18 DEF IInv, TypeOK, SocketTypeOK, Processes, Flights
  <2> QED BY <1>14, <1>18, <2>1 DEF TypeOK, SocketInv
<1>20. FlightInv'
  BY <1>13 DEF FlightInv, Idle, Answered
<1>21. FailureStep
  <2>1. CASE Calm(es, f)
    BY <1>4, <1>9, <1>10, <2>1, CalmHandler DEF Calm
  <2>2. CASE es.started /\ (es.heard => zms[es.connKey].st = "gone" \/ flight.result = "failed")
    BY <2>2 DEF FailureStep
  <2> QED BY <1>3, <2>1, <2>2 DEF f
<1> QED BY <1>18, <1>19, <1>20, <1>21 DEF IInv

\* A new page has nothing open, and counts every process as left behind
LEMMA ReloadInv ==
  ASSUME IInv, Reload
  PROVE  IInv' /\ FailureStep
<1> DEFINE a == {k \in Keys : zms[k].st # "gone"}
<1>1. /\ es' = [NewEventStream EXCEPT !.abandoned = a] /\ page' = NewPage
      /\ queue' = <<>> /\ flight' = Idle /\ zms' = zms /\ faults' = faults
  BY DEF Reload
<1>2. a \in SUBSET Keys
  OBVIOUS
<1> HIDE DEF a
<1>3. es' \in EsType
  <2>1. /\ 0 \in 0..1 /\ 0 \in 0..maxRecoveryAttempts + 1 /\ NoEvent \in Slider
        /\ NoKey \in Keys \cup {NoKey} /\ <<>> \in {<<>>}
    BY AttemptsAssumption DEF Slider
  <2> QED BY <1>1, <1>2, <2>1, ConstantFacts DEF EsType, NewEventStream
<1>4. page' \in Pages
  BY <1>1, ConstantFacts DEF NewPage, Pages, NoEvent, Slider
<1>5. queue' \in Seq(Requests)
  BY <1>1
<1>6. TypeOK'
  BY <1>1, <1>3, <1>4, <1>5 DEF IInv, TypeOK, SocketTypeOK, Pages, Idle
<1>7. Coherent(es)' /\ HeardInv'
  BY <1>1 DEF Coherent, HeardInv, NewEventStream, NoTimer
<1>8. FlightInv' /\ SocketInv'
  <2>1. flight'.st = "idle"
    BY <1>1 DEF Idle
  <2>2. BoxesInv'
    BY <1>1 DEF IInv, SocketInv, BoxesInv
  <2> QED BY <1>6, <2>1, <2>2 DEF FlightInv, Answered, SocketInv, ExchangeInv, TypeOK
<1>9. QuitOnItsWay'
  BY <1>1 DEF QuitOnItsWay, NewEventStream, a
<1>10. FailureStep
  <2>1. es'.consecutiveErrors = 0 /\ es'.recoveryTimer = NoTimer
    BY <1>1 DEF NewEventStream
  <2>2. es.consecutiveErrors \in Nat
    BY AttemptsAssumption DEF IInv, TypeOK, EsType
  <2> QED BY <2>1, <2>2 DEF FailureStep
<1> QED BY <1>6, <1>7, <1>8, <1>9, <1>10 DEF IInv


-----------------------------------------------------------------------------
(* The steps of php and zms.                                               *)

\* All that happens without the page
LEMMA RelayInv ==
  ASSUME IInv, SocketNext(es.img), UNCHANGED <<es, page>>
  PROVE  IInv'
<1>1. SocketInv
  BY DEF IInv
<1>2. SocketInv' /\ SocketStep
  BY <1>1, SocketNextStep
<1>3. TypeOK' /\ Coherent(es)'
  BY <1>2 DEF IInv, TypeOK, SocketInv, Coherent
<1>4. es.connKey \in Keys \cup {NoKey}
  BY ObjectOfType DEF IInv, Objects
<1>5. HeardInv'
  BY <1>2, <1>4 DEF IInv, HeardInv, SocketStep, MovesOn
<1>6. ASSUME NEW k \in Keys
      PROVE  zms'[k].st = "gone" \/ k = es'.connKey \/ k \in es'.abandoned \/ QuitPending(k)'
  <2>1. zms[k].st = "gone" \/ k = es.connKey \/ k \in es.abandoned \/ QuitPending(k)
    BY DEF IInv, QuitOnItsWay
  <2>2. MovesOn(k, zms'[k]) /\ queue' = queue
    BY <1>2 DEF SocketStep
  <2> QED BY <2>1, <2>2 DEF QuitPending, MovesOn
<1>7. QuitOnItsWay'
  BY <1>6 DEF QuitOnItsWay
<1>8. FlightInv'
  <2> DEFINE k == Head(queue).key
  <2> SUFFICES ASSUME Answered("no_socket")', k = es.connKey, es.heard
               PROVE  zms'[es.connKey].st = "gone"
    BY <1>2 DEF FlightInv, SocketStep
  <2>1. queue # <<>> /\ k \in Keys
    <3>1. queue # <<>>
      BY <1>1, <1>2 DEF SocketInv, ExchangeInv, SocketStep, Answered
    <3> QED BY <1>1, <3>1, FirstRequest DEF SocketInv
  <2>2. MovesOn(k, zms'[k])
    BY <1>2, <2>1 DEF SocketStep
  <2>3. zms[k].st # "starting" /\ zms[k].st \in {"gone", "starting", "running"}
    BY <1>1, <2>1, SocketTypes, ConstantFacts DEF IInv, HeardInv, SocketInv, Processes
  <2> HIDE DEF k
  <2>4. CASE Answered("no_socket")
    BY <2>2, <2>4 DEF IInv, FlightInv, MovesOn, k
  <2>5. CASE zms' = zms /\ zms[k].st # "running"
    BY <2>3, <2>5
  <2> QED BY <1>2, <2>4, <2>5 DEF SocketStep, k
<1> QED BY <1>2, <1>3, <1>5, <1>7, <1>8 DEF IInv

-----------------------------------------------------------------------------
(* The theorems.                                                           *)

\* The page as it is first loaded
LEMMA InitInv == Init => IInv
<1> SUFFICES ASSUME Init PROVE IInv
  OBVIOUS
<1>1. /\ es = NewEventStream /\ page = NewPage /\ queue = <<>> /\ flight = Idle
      /\ zms = [k \in Keys |-> Gone] /\ faults = 0
  BY DEF Init, SocketInit
<1>2. es \in EsType
  <2>1. /\ 0 \in 0..1 /\ 0 \in 0..maxRecoveryAttempts + 1 /\ NoEvent \in Slider
        /\ NoKey \in Keys \cup {NoKey} /\ <<>> \in {<<>>} /\ {} \in SUBSET Keys
    BY AttemptsAssumption DEF Slider
  <2> QED BY <1>1, <2>1, ConstantFacts DEF EsType, NewEventStream
<1>3. page \in Pages
  BY <1>1, ConstantFacts DEF NewPage, Pages, NoEvent, Slider
<1>4. SocketInv
  BY SocketInitInv DEF Init
<1>5. TypeOK
  BY <1>2, <1>3, <1>4 DEF TypeOK, SocketInv, Pages
<1>6. Coherent(es) /\ HeardInv
  BY <1>1 DEF Coherent, HeardInv, NewEventStream, NoTimer
<1>7. FlightInv
  BY <1>1 DEF FlightInv, Answered, Idle
<1>8. QuitOnItsWay
  BY <1>1 DEF QuitOnItsWay, Gone
<1> QED BY <1>4, <1>5, <1>6, <1>7, <1>8 DEF IInv

\* Nothing changes
LEMMA StutterInv ==
  ASSUME IInv, UNCHANGED vars
  PROVE  IInv'
<1>1. UNCHANGED <<es, page, queue, flight, zms, faults>>
  BY DEF vars, socketVars
<1>2. TypeOK' /\ Coherent(es)' /\ SocketInv'
  <2>1. SocketInv'
    BY SocketStutter DEF IInv, vars
  <2> QED BY <1>1, <2>1 DEF IInv, TypeOK, SocketInv, Coherent
<1>3. FlightInv'
  BY <1>1 DEF IInv, FlightInv, Answered
<1>4. HeardInv'
  BY <1>1 DEF IInv, HeardInv
<1>5. QuitOnItsWay'
  BY <1>1 DEF IInv, QuitOnItsWay, QuitPending
<1> QED BY <1>2, <1>3, <1>4, <1>5 DEF IInv

\* Nothing is counted while the object stays as it is
LEMMA SameObject ==
  ASSUME IInv, UNCHANGED es
  PROVE  FailureStep
<1>1. es.consecutiveErrors \in Nat
  BY AttemptsAssumption DEF IInv, TypeOK, EsType
<1> QED BY <1>1 DEF FailureStep

\* Every step keeps the invariant and counts failures as it should
LEMMA NextInv ==
  ASSUME IInv, [Next]_vars
  PROVE  IInv' /\ FailureStep
<1>1. CASE TimerFire
  BY <1>1, TimerFireInv
<1>2. ASSUME NEW speed \in Rates \cup {0}, SetSpeed(speed) PROVE IInv' /\ FailureStep
  BY <1>2, SetSpeedInv
<1>3. CASE Resync
  BY <1>3, ResyncInv
<1>4. CASE MDown
  BY <1>4, MDownInv
<1>5. CASE MUp
  BY <1>5, MUpInv
<1>6. CASE UpdateStreamScales
  BY <1>6, UpdateStreamScalesInv
<1>7. CASE SetLive
  BY <1>7, SetLiveInv
<1>8. CASE Reload
  BY <1>8, ReloadInv
<1>9. CASE Poll
  BY <1>9, PollInv
<1>10. CASE RecoveryTimer
  BY <1>10, RecoveryTimerInv
<1>11. CASE ImgError
  BY <1>11, ImgErrorInv
<1>12. CASE Response
  BY <1>12, ResponseInv
<1>13. CASE SocketNext(es.img) /\ UNCHANGED <<es, page>>
  BY <1>13, RelayInv, SameObject
<1>14. CASE UNCHANGED vars
  BY <1>14, StutterInv, SameObject DEF vars
<1> QED BY <1>1, <1>2, <1>3, <1>4, <1>5, <1>6, <1>7, <1>8, <1>9, <1>10,
           <1>11, <1>12, <1>13, <1>14 DEF Next

\* The inductive invariant holds, whatever goes wrong and however often
THEOREM StreamInvariant == Spec => []IInv
<1>1. IInv /\ [Next]_vars => IInv'
  BY NextInv
<1> QED BY <1>1, InitInv, PTL DEF Spec

\* Types of the playback client: one status timer and one draw loop at most,
\* and every request addressed to a connkey
THEOREM StreamTypes == Spec => []TypeOK
<1>1. IInv => TypeOK
  BY DEF IInv
<1> QED BY <1>1, StreamInvariant, PTL

\* Stop, switch, retry, recovery and late replies in any order leave the
\* object with one connection, one status timer and one draw loop, or none
THEOREM StreamIsOne == Spec => []OneStream
<1>1. IInv => OneStream
  BY DEF IInv, Coherent, OneStream
<1> QED BY <1>1, StreamInvariant, PTL

\* Every zms whose connkey the page dropped in an orderly way is told to quit
THEOREM StreamsAreQuit == Spec => []QuitOnItsWay
<1>1. IInv => QuitOnItsWay
  BY DEF IInv
<1> QED BY <1>1, StreamInvariant, PTL

\* No late, lost or failed exchange makes the client drop a stream whose zms
\* has answered and still runs
THEOREM HealthyStreams == Spec => HealthyStreamIsKept
<1>1. IInv /\ [Next]_vars
        => [(es.heard /\ es'.consecutiveErrors > es.consecutiveErrors)
             => (zms[es.connKey].st = "gone" \/ flight.result = "failed")]_vars
  BY NextInv DEF FailureStep
<1> QED BY <1>1, StreamInvariant, PTL DEF Spec, HealthyStreamIsKept

\* Failures are counted, and retries arranged, only for a stream that was up
THEOREM FailuresCounted == Spec => FailuresAreOfThisStream
<1>1. IInv /\ [Next]_vars
        => [(\/ es'.consecutiveErrors > es.consecutiveErrors
             \/ (es'.recoveryTimer # NoTimer /\ es.recoveryTimer = NoTimer)) => es.started]_vars
  BY NextInv DEF FailureStep
<1> QED BY <1>1, StreamInvariant, PTL DEF Spec, FailuresAreOfThisStream
=============================================================================
