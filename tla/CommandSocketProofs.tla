------------------------- MODULE CommandSocketProofs -------------------------
(***************************************************************************)
(* Facts about the command relay that do not depend on the page which uses *)
(* it, for the proofs about EventStream and LiveStream: what happens to    *)
(* the QUITs and to the last STOP or PLAY in a sequence of requests, and   *)
(* what a step of php or zms may do to an exchange and to a process.       *)
(***************************************************************************)
EXTENDS CommandSocket, SequenceTheorems, TLAPS

-----------------------------------------------------------------------------
(* Sequences of requests.                                                  *)

\* A concatenation holds the QUITs of both its parts
LEMMA QuitsConcat ==
  ASSUME NEW s \in Seq(Requests), NEW t \in Seq(Requests), NEW k
  PROVE  Quits(k, s \o t) <=> Quits(k, s) \/ Quits(k, t)
<1>1. ASSUME Quits(k, s) PROVE Quits(k, s \o t)
  BY <1>1 DEF Quits
<1>2. ASSUME Quits(k, t) PROVE Quits(k, s \o t)
  <2>1. PICK i \in 1..Len(t) : t[i].key = k /\ t[i].cmd = "QUIT"
    BY <1>2 DEF Quits
  <2>2. Len(s) + i \in 1..Len(s \o t) /\ (s \o t)[Len(s) + i] = t[i]
    OBVIOUS
  <2> QED BY <2>1, <2>2 DEF Quits
<1>3. ASSUME Quits(k, s \o t) PROVE Quits(k, s) \/ Quits(k, t)
  <2>1. PICK i \in 1..Len(s \o t) : (s \o t)[i].key = k /\ (s \o t)[i].cmd = "QUIT"
    BY <1>3 DEF Quits
  <2>2. CASE i <= Len(s)
    <3>1. i \in 1..Len(s) /\ (s \o t)[i] = s[i]
      BY <2>2
    <3> QED BY <2>1, <3>1 DEF Quits
  <2>3. CASE i > Len(s)
    <3>1. i - Len(s) \in 1..Len(t) /\ (s \o t)[i] = t[i - Len(s)]
      BY <2>3
    <3> QED BY <2>1, <3>1 DEF Quits
  <2> QED BY <2>2, <2>3
<1> QED BY <1>1, <1>2, <1>3

\* A request at the end adds its own QUIT and loses none
LEMMA QuitsAppend ==
  ASSUME NEW s \in Seq(Requests), NEW r \in Requests
  PROVE  /\ Append(s, r) \in Seq(Requests)
         /\ \A k : Quits(k, s) => Quits(k, Append(s, r))
         /\ r.cmd = "QUIT" => Quits(r.key, Append(s, r))
<1>1. Append(s, r) \in Seq(Requests) /\ Len(Append(s, r)) = Len(s) + 1
  OBVIOUS
<1>2. ASSUME NEW k, Quits(k, s) PROVE Quits(k, Append(s, r))
  BY <1>2 DEF Quits
<1>3. Append(s, r)[Len(s) + 1] = r /\ Len(s) + 1 \in 1..Len(Append(s, r))
  BY <1>1
<1> QED BY <1>1, <1>2, <1>3 DEF Quits

\* Taking the first request off loses the QUIT of that request alone
LEMMA QuitsTail ==
  ASSUME NEW s \in Seq(Requests), s # <<>>, NEW k, Quits(k, s)
  PROVE  (Head(s).key = k /\ Head(s).cmd = "QUIT") \/ Quits(k, Tail(s))
<1>1. PICK i \in 1..Len(s) : s[i].key = k /\ s[i].cmd = "QUIT"
  BY DEF Quits
<1>2. CASE i = 1
  BY <1>1, <1>2
<1>3. CASE i # 1
  <2>1. i - 1 \in 1..Len(Tail(s)) /\ Tail(s)[i - 1] = s[i]
    BY <1>3
  <2> QED BY <1>1, <2>1 DEF Quits
<1> QED BY <1>2, <1>3

Halts(r, k) == r.key = k /\ r.cmd \in {"PAUSE", "STOP"}
Resumes(r, k) == r.key = k /\ r.cmd \in {"PLAY", "VARPLAY"}

\* No request halts the zms of k
NeverHalts(k, s) == \A i \in 1..Len(s) : ~Halts(s[i], k)

\* A request resumes the zms of k, and none after it halts it
EndsResumed(k, s) ==
  \E i \in 1..Len(s) : Resumes(s[i], k) /\ \A j \in 1..Len(s) : j > i => ~Halts(s[j], k)

\* What a concatenation does to the zms, from what its parts do
LEMMA ResumedConcat ==
  ASSUME NEW s \in Seq(Requests), NEW t \in Seq(Requests), NEW k
  PROVE  /\ NeverHalts(k, s) /\ NeverHalts(k, t) => NeverHalts(k, s \o t)
         /\ EndsResumed(k, t) => EndsResumed(k, s \o t)
         /\ EndsResumed(k, s) /\ NeverHalts(k, t) => EndsResumed(k, s \o t)
<1> DEFINE u == s \o t
<1>1. Len(u) = Len(s) + Len(t) /\ Len(s) \in Nat /\ Len(t) \in Nat
  OBVIOUS
<1>2. \A i \in 1..Len(s) : u[i] = s[i]
  OBVIOUS
<1>3. \A i \in 1..Len(t) : u[Len(s) + i] = t[i]
  OBVIOUS
<1>4. \A i \in 1..Len(u) : i > Len(s) => i - Len(s) \in 1..Len(t) /\ u[i] = t[i - Len(s)]
  BY <1>1
<1> HIDE DEF u
<1>5. ASSUME NeverHalts(k, s), NeverHalts(k, t) PROVE NeverHalts(k, u)
  <2> SUFFICES ASSUME NEW i \in 1..Len(u) PROVE ~Halts(u[i], k)
    BY DEF NeverHalts
  <2>1. CASE i <= Len(s)
    BY <1>1, <1>2, <1>5, <2>1 DEF NeverHalts
  <2>2. CASE i > Len(s)
    BY <1>4, <1>5, <2>2 DEF NeverHalts
  <2> QED BY <1>1, <2>1, <2>2
<1>6. ASSUME EndsResumed(k, t) PROVE EndsResumed(k, u)
  <2>1. PICK i \in 1..Len(t) : Resumes(t[i], k) /\ \A j \in 1..Len(t) : j > i => ~Halts(t[j], k)
    BY <1>6 DEF EndsResumed
  <2>2. Len(s) + i \in 1..Len(u) /\ Resumes(u[Len(s) + i], k)
    BY <1>1, <1>3, <2>1
  <2>3. ASSUME NEW j \in 1..Len(u), j > Len(s) + i PROVE ~Halts(u[j], k)
    <3>1. j > Len(s) /\ j - Len(s) > i
      BY <1>1, <2>3
    <3> QED BY <1>4, <2>1, <3>1
  <2> QED BY <2>2, <2>3 DEF EndsResumed
<1>7. ASSUME EndsResumed(k, s), NeverHalts(k, t) PROVE EndsResumed(k, u)
  <2>1. PICK i \in 1..Len(s) : Resumes(s[i], k) /\ \A j \in 1..Len(s) : j > i => ~Halts(s[j], k)
    BY <1>7 DEF EndsResumed
  <2>2. i \in 1..Len(u) /\ Resumes(u[i], k)
    BY <1>1, <1>2, <2>1
  <2>3. ASSUME NEW j \in 1..Len(u), j > i PROVE ~Halts(u[j], k)
    <3>1. CASE j <= Len(s)
      BY <1>1, <1>2, <2>1, <2>3, <3>1
    <3>2. CASE j > Len(s)
      BY <1>4, <1>7, <3>2 DEF NeverHalts
    <3> QED BY <1>1, <3>1, <3>2
  <2> QED BY <2>2, <2>3 DEF EndsResumed
<1> QED BY <1>5, <1>6, <1>7 DEF u

\* One request alone
LEMMA ResumedOne ==
  ASSUME NEW r \in Requests, NEW k
  PROVE  /\ <<r>> \in Seq(Requests)
         /\ ~Halts(r, k) => NeverHalts(k, <<r>>)
         /\ Resumes(r, k) => EndsResumed(k, <<r>>)
<1>1. Len(<<r>>) = 1 /\ <<r>>[1] = r /\ <<r>> \in Seq(Requests)
  OBVIOUS
<1>2. \A i \in 1..Len(<<r>>) : i = 1
  BY <1>1
<1> QED BY <1>1, <1>2 DEF NeverHalts, EndsResumed

\* What is left once the first request is off
LEMMA ResumedTail ==
  ASSUME NEW s \in Seq(Requests), s # <<>>, NEW k
  PROVE  /\ NeverHalts(k, s) => ~Halts(Head(s), k) /\ NeverHalts(k, Tail(s))
         /\ EndsResumed(k, s) => \/ EndsResumed(k, Tail(s))
                                 \/ Resumes(Head(s), k) /\ NeverHalts(k, Tail(s))
<1>1. /\ Head(s) = s[1] /\ 1 \in 1..Len(s) /\ Len(Tail(s)) = Len(s) - 1 /\ Len(s) \in Nat
      /\ \A i \in 1..Len(Tail(s)) : i + 1 \in 1..Len(s) /\ Tail(s)[i] = s[i + 1]
  OBVIOUS
<1> DEFINE t == Tail(s)
<1> HIDE DEF t
<1>2. ASSUME NeverHalts(k, s) PROVE ~Halts(s[1], k) /\ NeverHalts(k, t)
  BY <1>1, <1>2 DEF NeverHalts, t
<1>3. ASSUME EndsResumed(k, s)
      PROVE  EndsResumed(k, t) \/ (Resumes(s[1], k) /\ NeverHalts(k, t))
  <2>1. PICK i \in 1..Len(s) : Resumes(s[i], k) /\ \A j \in 1..Len(s) : j > i => ~Halts(s[j], k)
    BY <1>3 DEF EndsResumed
  <2>2. CASE i = 1
    <3>1. ASSUME NEW j \in 1..Len(t) PROVE ~Halts(t[j], k)
      BY <1>1, <2>1, <2>2 DEF t
    <3> QED BY <2>1, <2>2, <3>1 DEF NeverHalts
  <2>3. CASE i # 1
    <3>1. i - 1 \in 1..Len(t) /\ t[i - 1] = s[i]
      BY <1>1, <2>3 DEF t
    <3>2. ASSUME NEW j \in 1..Len(t), j > i - 1 PROVE ~Halts(t[j], k)
      BY <1>1, <2>1, <3>2 DEF t
    <3> QED BY <2>1, <3>1, <3>2 DEF EndsResumed
  <2> QED BY <2>2, <2>3
<1> QED BY <1>1, <1>2, <1>3 DEF t

-----------------------------------------------------------------------------
(* Processes and the exchange in progress.                                 *)

Processes == [st : {"gone", "starting", "running"}, rate : Rates,
              mode : {"play", "pause", "stop"}, box : Seq(Requests)]

Flights == [st : {"idle", "waiting", "answered"},
            result : {"", "ok", "no_socket", "transient", "failed", "timeout"},
            mode : {"play", "pause", "stop"}]

\* Constants are what the proofs need them to be
LEMMA SocketConstants ==
  NoKey \notin Keys /\ Rates \subseteq Nat \ {0} /\ 1 \in Rates
  BY KeysAssumption, RatesAssumption DEF NoKey

\* A process that has ended, and one that is asked for, are processes
LEMMA GoneType ==
  /\ Gone \in Processes
  /\ \A rate \in Rates : [Gone EXCEPT !.st = "starting", !.rate = rate] \in Processes
<1>1. <<>> \in Seq(Requests)
  OBVIOUS
<1> QED BY <1>1, SocketConstants DEF Gone, Processes

Answered(result) == flight.st = "answered" /\ flight.result = result

\* The first request of the queue has reached the box of its zms
Sent == flight.st = "waiting" \/ Answered("ok") \/ Answered("timeout")
Unsent == IF Sent THEN Tail(queue) ELSE queue

\* An exchange is about the first request of the queue: a QUIT that was sent
\* has ended its zms or is in its box, and a zms that answered has started
ExchangeInv ==
  flight.st # "idle" =>
    /\ queue # <<>>
    /\ LET r == Head(queue)
       IN /\ (flight.st = "waiting" \/ Answered("ok")) =>
               (r.cmd = "QUIT" => zms[r.key].st = "gone" \/ Quits(r.key, zms[r.key].box))
          /\ Answered("ok") => zms[r.key].st # "starting"

\* Commands reach the zms they are addressed to, and die with it
BoxesInv ==
  \A k \in Keys :
    /\ zms[k].st = "gone" => zms[k].box = <<>> /\ zms[k].mode = "play"
    /\ \A i \in 1..Len(zms[k].box) : zms[k].box[i].key = k

SocketInv == SocketTypeOK /\ ExchangeInv /\ BoxesInv

\* A zms of k that is in this mode and has this box, and is then sent s, plays
\* in the end
PlaysAfter(k, box, mode, s) ==
  \/ EndsResumed(k, s)
  \/ /\ NeverHalts(k, s)
     /\ EndsResumed(k, box) \/ (NeverHalts(k, box) /\ mode = "play")

\* Once all that was asked of the zms of k is done, it plays
WillPlay(k) == PlaysAfter(k, zms[k].box, zms[k].mode, Unsent)

\* A process moves on, without starting again and without losing a QUIT
MovesOn(k, z) ==
  /\ z.st = "starting" => zms[k].st = "starting"
  /\ zms[k].st = "gone" => z.st = "gone"
  /\ Quits(k, zms[k].box) => z.st = "gone" \/ Quits(k, z.box)

\* What a page may rely on in a step of php or zms: no request of its is
\* touched, only a zms that does not run is reported as gone, and requests are
\* only lost where that may happen
SocketStep ==
  /\ queue' = queue
  /\ \A k \in Keys : MovesOn(k, zms'[k]) /\ (WillPlay(k) => WillPlay(k)')
  /\ Answered("no_socket")' =>
       \/ Answered("no_socket")
       \/ zms' = zms /\ queue # <<>> /\ zms[Head(queue).key].st # "running"
  /\ \A result \in {"", "transient", "failed"} :
       Answered(result)' => Answered(result) \/ result \in FaultKinds

\* The parts of the type that proofs use
LEMMA SocketTypes ==
  ASSUME SocketTypeOK
  PROVE  /\ queue \in Seq(Requests) /\ flight \in Flights
         /\ zms \in [Keys -> Processes] /\ faults \in 0..MaxFaults
  BY DEF SocketTypeOK, Flights, Processes

\* The first request of a queue
LEMMA FirstRequest ==
  ASSUME SocketTypeOK, queue # <<>>
  PROVE  /\ queue \in Seq(Requests) /\ Tail(queue) \in Seq(Requests)
         /\ Head(queue) \in Requests /\ Head(queue).key \in Keys
<1>1. queue \in Seq(Requests)
  BY SocketTypes
<1>2. Tail(queue) \in Seq(Requests) /\ Head(queue) \in Requests
  BY <1>1
<1>3. Head(queue).key \in Keys
  BY <1>2 DEF Requests
<1> QED BY <1>1, <1>2, <1>3

\* Faults stay within their bound
LEMMA FaultType ==
  ASSUME SocketTypeOK, NEW kind, Fault(kind) \/ UNCHANGED faults
  PROVE  faults' \in 0..MaxFaults
<1>1. faults \in 0..MaxFaults
  BY DEF SocketTypeOK
<1> QED BY <1>1, BoundsAssumption DEF Fault

\* A process that stays as it is moves on
LEMMA SameProcesses ==
  ASSUME zms' = zms
  PROVE  \A k \in Keys : MovesOn(k, zms'[k])
  BY DEF MovesOn

\* A process takes a step that no exchange notices
LEMMA ProcessStep ==
  ASSUME SocketInv, NEW k \in Keys, NEW z \in Processes, MovesOn(k, z),
         zms' = [zms EXCEPT ![k] = z], UNCHANGED <<queue, flight>>, faults' \in 0..MaxFaults,
         z.st = "gone" => z.box = <<>> /\ z.mode = "play",
         \A i \in 1..Len(z.box) : z.box[i].key = k,
         \/ EndsResumed(k, zms[k].box)
         \/ NeverHalts(k, zms[k].box) /\ zms[k].mode = "play"
         => \/ EndsResumed(k, z.box)
            \/ NeverHalts(k, z.box) /\ z.mode = "play"
  PROVE  SocketInv' /\ SocketStep
<1>1. zms \in [Keys -> Processes]
  BY SocketTypes DEF SocketInv
<1>2. /\ zms' \in [Keys -> Processes] /\ zms'[k] = z
      /\ \A j \in Keys : j # k => zms'[j] = zms[j]
  BY <1>1
<1>3. ASSUME NEW j \in Keys PROVE MovesOn(j, zms'[j])
  <2>1. CASE j = k
    BY <1>2, <2>1
  <2>2. CASE j # k
    BY <1>2, <2>2 DEF MovesOn
  <2> QED BY <2>1, <2>2
<1>4. SocketTypeOK'
  BY <1>2 DEF SocketInv, SocketTypeOK, Processes
<1>5. BoxesInv'
  BY <1>2 DEF SocketInv, BoxesInv
<1>6. ExchangeInv'
  <2> SUFFICES ASSUME flight.st # "idle" PROVE ExchangeInv'
    BY DEF ExchangeInv
  <2> DEFINE r == Head(queue)
  <2>1. ExchangeInv /\ r.key \in Keys /\ Head(queue') = r /\ queue # <<>>
    BY FirstRequest DEF SocketInv, ExchangeInv
  <2>2. MovesOn(r.key, zms'[r.key])
    BY <1>3, <2>1
  <2> HIDE DEF r
  <2> QED BY <2>1, <2>2 DEF ExchangeInv, Answered, MovesOn, r
<1>7. Unsent' = Unsent
  BY DEF Unsent, Sent, Answered
<1>8. ASSUME NEW j \in Keys, WillPlay(j) PROVE WillPlay(j)'
  <2>1. CASE j = k
    BY <1>2, <1>7, <1>8, <2>1 DEF WillPlay, PlaysAfter
  <2>2. CASE j # k
    BY <1>2, <1>7, <1>8, <2>2 DEF WillPlay, PlaysAfter
  <2> QED BY <2>1, <2>2
<1> QED BY <1>3, <1>4, <1>5, <1>6, <1>8 DEF SocketInv, SocketStep, Answered

\* A process ends, for whatever reason
LEMMA EndStep ==
  ASSUME SocketInv, NEW k \in Keys, zms' = [zms EXCEPT ![k] = Gone],
         UNCHANGED <<queue, flight>>, faults' \in 0..MaxFaults
  PROVE  SocketInv' /\ SocketStep
<1>1. Gone \in Processes /\ MovesOn(k, Gone)
  BY GoneType DEF MovesOn, Gone
<1>2. Gone.box = <<>> /\ Gone.mode = "play" /\ Len(Gone.box) = 0
  BY DEF Gone
<1>3. \A i \in 1..Len(Gone.box) : Gone.box[i].key = k
  BY <1>2
<1>4. NeverHalts(k, Gone.box)
  BY <1>2 DEF NeverHalts
<1> QED BY <1>1, <1>2, <1>3, <1>4, ProcessStep

\* openComms: a process opens its socket
LEMMA ZmsStartStep ==
  ASSUME SocketInv, NEW k \in Keys, ZmsStart(k)
  PROVE  SocketInv' /\ SocketStep
<1> DEFINE z == [zms[k] EXCEPT !.st = "running"]
<1>1. zms[k] \in Processes /\ zms[k].st = "starting"
  BY SocketTypes DEF SocketInv, ZmsStart
<1>2. z \in Processes /\ z.st = "running" /\ z.box = zms[k].box /\ z.mode = zms[k].mode
  BY <1>1 DEF Processes
<1>3. zms' = [zms EXCEPT ![k] = z] /\ UNCHANGED <<queue, flight, faults>>
  BY DEF ZmsStart
<1>4. faults' \in 0..MaxFaults
  BY <1>3 DEF SocketInv, SocketTypeOK
<1> HIDE DEF z
<1>5. MovesOn(k, z)
  BY <1>1, <1>2 DEF MovesOn
<1>6. \A i \in 1..Len(z.box) : z.box[i].key = k
  BY <1>2 DEF SocketInv, BoxesInv
<1> QED BY <1>2, <1>3, <1>4, <1>5, <1>6, ProcessStep

\* What a command does to its zms, up to its being a QUIT
LEMMA CommandDone ==
  ASSUME NEW p \in Processes, p.box # <<>>
  PROVE  LET r == Head(p.box)
             z == processCommand(p, r)
         IN /\ z \in Processes /\ z.st = p.st /\ z.box = Tail(p.box)
            /\ r \in Requests /\ Tail(p.box) \in Seq(Requests)
            /\ z.mode = IF r.cmd = "PAUSE" THEN "pause"
                        ELSE IF r.cmd = "STOP" THEN "stop"
                        ELSE IF r.cmd \in {"PLAY", "VARPLAY"} THEN "play" ELSE p.mode
<1> DEFINE r == Head(p.box)
           z == processCommand(p, r)
           t == Tail(p.box)
           m == CASE r.cmd = "PAUSE" -> "pause"
                  [] r.cmd = "STOP" -> "stop"
                  [] r.cmd \in {"PLAY", "VARPLAY"} -> "play"
                  [] OTHER -> p.mode
           n == CASE r.cmd = "PLAY" -> 1
                  [] r.cmd = "VARPLAY" -> r.rate
                  [] OTHER -> p.rate
<1>1. p.box \in Seq(Requests)
  BY DEF Processes
<1>2. r \in Requests /\ t \in Seq(Requests)
  BY <1>1
<1> HIDE DEF r
<1>3. z = [p EXCEPT !.box = t, !.mode = m, !.rate = n]
  BY DEF processCommand
<1>4. m \in {"play", "pause", "stop"}
  BY DEF Processes
<1>5. n \in Rates
  BY <1>2, SocketConstants DEF Processes, Requests
<1>6. m = IF r.cmd = "PAUSE" THEN "pause"
          ELSE IF r.cmd = "STOP" THEN "stop"
          ELSE IF r.cmd \in {"PLAY", "VARPLAY"} THEN "play" ELSE p.mode
  OBVIOUS
<1> HIDE DEF t, m, n, z
<1>7. z \in Processes
  BY <1>2, <1>3, <1>4, <1>5 DEF Processes
<1>8. z.st = p.st /\ z.box = t /\ z.mode = m
  BY <1>3 DEF Processes
<1> QED BY <1>2, <1>6, <1>7, <1>8 DEF z, t, r

\* checkCommandQueue: only a QUIT in its box ends a zms, and what is left of
\* the box still makes it play in the end if the whole did
LEMMA CommandMoves ==
  ASSUME SocketInv, NEW k \in Keys, ZmsCommand(k)
  PROVE  LET r == Head(zms[k].box)
             y == processCommand(zms[k], r)
             z == IF r.cmd = "QUIT" THEN Gone ELSE y
         IN /\ z \in Processes /\ MovesOn(k, z) /\ z.st # "starting"
            /\ y.mode \in {"play", "pause", "stop"}
            /\ z.st = "gone" => z.box = <<>> /\ z.mode = "play"
            /\ \A i \in 1..Len(z.box) : z.box[i].key = k
            /\ \/ EndsResumed(k, zms[k].box)
               \/ NeverHalts(k, zms[k].box) /\ zms[k].mode = "play"
               => \/ EndsResumed(k, z.box)
                  \/ NeverHalts(k, z.box) /\ z.mode = "play"
<1> DEFINE r == Head(zms[k].box)
           y == processCommand(zms[k], r)
           z == IF r.cmd = "QUIT" THEN Gone ELSE y
           b == zms[k].box
<1>1. zms[k] \in Processes /\ zms[k].st = "running" /\ b # <<>> /\ b \in Seq(Requests)
  <2>1. zms[k] \in Processes /\ zms[k].st = "running" /\ b # <<>>
    BY SocketTypes DEF SocketInv, ZmsCommand
  <2> QED BY <2>1 DEF Processes
<1>2. /\ y \in Processes /\ y.st = "running" /\ y.box = Tail(b)
      /\ y.mode = IF r.cmd = "PAUSE" THEN "pause"
                  ELSE IF r.cmd = "STOP" THEN "stop"
                  ELSE IF r.cmd \in {"PLAY", "VARPLAY"} THEN "play" ELSE zms[k].mode
  BY <1>1, CommandDone
<1>3. y.mode \in {"play", "pause", "stop"}
  BY <1>2 DEF Processes
<1>4. \A i \in 1..Len(b) : b[i].key = k
  BY DEF SocketInv, BoxesInv
<1>5. /\ r.key = k
      /\ \A i \in 1..Len(Tail(b)) : Tail(b)[i].key = k
  <2>1. r = b[1] /\ 1 \in 1..Len(b)
    BY <1>1
  <2>2. \A i \in 1..Len(Tail(b)) : i + 1 \in 1..Len(b) /\ Tail(b)[i] = b[i + 1]
    BY <1>1
  <2> HIDE DEF b, r
  <2> QED BY <1>4, <2>1, <2>2
<1>6. CASE r.cmd = "QUIT"
  <2>1. z = Gone
    BY <1>6
  <2>2. /\ Gone.box = <<>> /\ Gone.mode = "play" /\ Gone.st = "gone" /\ Len(Gone.box) = 0
        /\ Gone \in Processes
    BY GoneType DEF Gone
  <2>3. MovesOn(k, Gone) /\ NeverHalts(k, Gone.box) /\ \A i \in 1..Len(Gone.box) : Gone.box[i].key = k
    BY <2>2 DEF MovesOn, NeverHalts
  <2> HIDE DEF y, z, b, r
  <2> QED BY <1>3, <2>1, <2>2, <2>3 DEF y, z, b, r
<1>7. CASE r.cmd # "QUIT"
  <2>1. z = y
    BY <1>7
  <2>2. Quits(k, b) => Quits(k, Tail(b))
    BY <1>1, <1>7, QuitsTail
  <2>3. /\ NeverHalts(k, b) => ~Halts(r, k) /\ NeverHalts(k, Tail(b))
        /\ EndsResumed(k, b) => \/ EndsResumed(k, Tail(b))
                                \/ Resumes(r, k) /\ NeverHalts(k, Tail(b))
    BY <1>1, ResumedTail
  <2> HIDE DEF y, z, r
  <2>4. MovesOn(k, y)
    BY <1>1, <1>2, <2>2 DEF MovesOn
  <2>5. (EndsResumed(k, b) \/ (NeverHalts(k, b) /\ zms[k].mode = "play"))
        => (EndsResumed(k, y.box) \/ (NeverHalts(k, y.box) /\ y.mode = "play"))
    BY <1>2, <1>5, <2>3 DEF Halts, Resumes
  <2>6. y \in Processes /\ y.st = "running" /\ \A i \in 1..Len(y.box) : y.box[i].key = k
    BY <1>2, <1>5
  <2> HIDE DEF b
  <2> QED BY <1>3, <2>1, <2>4, <2>5, <2>6 DEF y, z, r, b
<1> QED BY <1>6, <1>7

\* The answer to a command goes to the request that waits for this zms
LEMMA ZmsCommandStep ==
  ASSUME SocketInv, NEW k \in Keys, ZmsCommand(k)
  PROVE  SocketInv' /\ SocketStep
<1> DEFINE r == Head(zms[k].box)
           y == processCommand(zms[k], r)
           z == IF r.cmd = "QUIT" THEN Gone ELSE y
           hit == flight.st = "waiting" /\ Head(queue).key = k
<1>1. /\ zms' = [zms EXCEPT ![k] = z] /\ queue' = queue /\ faults' = faults
      /\ flight' = IF hit THEN Answer("ok", y.mode) ELSE flight
  BY DEF ZmsCommand
<1>2. /\ z \in Processes /\ MovesOn(k, z) /\ z.st # "starting"
      /\ y.mode \in {"play", "pause", "stop"}
      /\ z.st = "gone" => z.box = <<>> /\ z.mode = "play"
      /\ \A i \in 1..Len(z.box) : z.box[i].key = k
      /\ \/ EndsResumed(k, zms[k].box)
         \/ NeverHalts(k, zms[k].box) /\ zms[k].mode = "play"
         => \/ EndsResumed(k, z.box)
            \/ NeverHalts(k, z.box) /\ z.mode = "play"
  BY CommandMoves
<1> HIDE DEF r, y, z
<1>3. faults' \in 0..MaxFaults /\ zms \in [Keys -> Processes]
  BY <1>1, SocketTypes DEF SocketInv
<1>4. CASE ~hit
  <2>1. flight' = flight
    BY <1>1, <1>4
  <2> QED BY <1>1, <1>2, <1>3, <2>1, ProcessStep
<1>5. CASE hit
  <2>1. flight' = Answer("ok", y.mode)
    BY <1>1, <1>5
  <2>2. flight' \in Flights /\ flight'.st = "answered" /\ flight'.result = "ok"
    BY <1>2, <2>1 DEF Answer, Flights
  <2>3. /\ zms' \in [Keys -> Processes] /\ zms'[k] = z
        /\ \A j \in Keys : j # k => zms'[j] = zms[j]
    BY <1>1, <1>2, <1>3
  <2>4. ASSUME NEW j \in Keys PROVE MovesOn(j, zms'[j])
    <3>1. CASE j = k
      BY <1>2, <2>3, <3>1
    <3>2. CASE j # k
      BY <2>3, <3>2 DEF MovesOn
    <3> QED BY <3>1, <3>2
  <2>5. SocketTypeOK'
    BY <1>1, <2>2, <2>3 DEF SocketInv, SocketTypeOK, Processes, Flights
  <2>6. BoxesInv'
    BY <1>2, <2>3 DEF SocketInv, BoxesInv
  <2>7. ExchangeInv'
    <3>1. /\ queue # <<>> /\ Head(queue).key = k
          /\ Head(queue).cmd = "QUIT" => zms[k].st = "gone" \/ Quits(k, zms[k].box)
      BY <1>5 DEF SocketInv, ExchangeInv
    <3> QED BY <1>1, <1>2, <2>2, <2>3, <3>1 DEF ExchangeInv, Answered, MovesOn
  <2>8. Unsent' = Unsent
    BY <1>1, <1>5, <2>2 DEF Unsent, Sent, Answered
  <2>9. ASSUME NEW j \in Keys, WillPlay(j) PROVE WillPlay(j)'
    <3>1. CASE j = k
      BY <1>2, <2>3, <2>8, <2>9, <3>1 DEF WillPlay, PlaysAfter
    <3>2. CASE j # k
      BY <2>3, <2>8, <2>9, <3>2 DEF WillPlay, PlaysAfter
    <3> QED BY <3>1, <3>2
  <2>10. \A result \in {"", "no_socket", "transient", "failed"} : ~Answered(result)'
    BY <2>2 DEF Answered
  <2> QED BY <1>1, <2>4, <2>5, <2>6, <2>7, <2>9, <2>10 DEF SocketInv, SocketStep
<1> QED BY <1>4, <1>5

\* What goes from the queue into the box does the same there
LEMMA SentPlays ==
  ASSUME NEW k, NEW q \in Seq(Requests), q # <<>>, NEW b \in Seq(Requests), NEW c \in Seq(Requests),
         NEW mode, Head(q).key = k => c = b \o <<Head(q)>>, Head(q).key # k => c = b,
         PlaysAfter(k, b, mode, q)
  PROVE  PlaysAfter(k, c, mode, Tail(q))
<1> DEFINE r == Head(q)
<1>1. r \in Requests /\ Tail(q) \in Seq(Requests)
  OBVIOUS
<1>2. /\ NeverHalts(k, q) => ~Halts(r, k) /\ NeverHalts(k, Tail(q))
      /\ EndsResumed(k, q) => \/ EndsResumed(k, Tail(q))
                              \/ Resumes(r, k) /\ NeverHalts(k, Tail(q))
  BY ResumedTail
<1> HIDE DEF r
<1>3. CASE r.key # k
  <2>1. c = b /\ ~Resumes(r, k)
    BY <1>3 DEF Resumes, r
  <2> QED BY <1>2, <2>1 DEF PlaysAfter
<1>4. CASE r.key = k
  <2>1. c = b \o <<r>>
    BY <1>4 DEF r
  <2>2. /\ <<r>> \in Seq(Requests)
        /\ ~Halts(r, k) => NeverHalts(k, <<r>>)
        /\ Resumes(r, k) => EndsResumed(k, <<r>>)
    BY <1>1, ResumedOne
  <2> DEFINE o == <<r>>
  <2>3. o \in Seq(Requests)
    BY <2>2
  <2> HIDE DEF o
  <2>4. /\ NeverHalts(k, b) /\ NeverHalts(k, o) => NeverHalts(k, b \o o)
        /\ EndsResumed(k, o) => EndsResumed(k, b \o o)
        /\ EndsResumed(k, b) /\ NeverHalts(k, o) => EndsResumed(k, b \o o)
    BY <2>3, ResumedConcat
  <2> QED BY <1>2, <2>1, <2>2, <2>4 DEF o, PlaysAfter
<1> QED BY <1>3, <1>4

\* The command goes into the box of its zms
LEMMA PhpSendStep ==
  ASSUME SocketInv, PhpSend
  PROVE  SocketInv' /\ SocketStep
<1> DEFINE r == Head(queue)
           k == r.key
           box == Append(zms[k].box, r)
           z == [zms[k] EXCEPT !.box = box]
<1>1. queue # <<>> /\ flight.st = "idle"
  BY DEF PhpSend, Requesting
<1>2. queue \in Seq(Requests) /\ r \in Requests /\ k \in Keys /\ Tail(queue) \in Seq(Requests)
  BY <1>1, FirstRequest DEF SocketInv
<1>3. /\ zms' = [zms EXCEPT ![k] = z] /\ zms[k].st = "running"
      /\ flight' = [Idle EXCEPT !.st = "waiting"] /\ queue' = queue /\ faults' = faults
  BY DEF PhpSend
<1>4. zms \in [Keys -> Processes] /\ zms[k] \in Processes /\ zms[k].box \in Seq(Requests)
  <2>1. zms \in [Keys -> Processes]
    BY SocketTypes DEF SocketInv
  <2>2. zms[k] \in Processes
    BY <1>2, <2>1
  <2> QED BY <2>1, <2>2 DEF Processes
<1>5. /\ box \in Seq(Requests)
      /\ Quits(k, zms[k].box) => Quits(k, box)
      /\ r.cmd = "QUIT" => Quits(k, box)
  BY <1>2, <1>4, QuitsAppend
<1>6. box = zms[k].box \o <<r>>
  <2> HIDE DEF r
  <2> QED BY <1>2, <1>4, AppendIsConcat, Zenon
<1>7. \A i \in 1..Len(box) : box[i].key = k
  <2>1. \A i \in 1..Len(zms[k].box) : zms[k].box[i].key = k
    BY <1>2 DEF SocketInv, BoxesInv
  <2> HIDE DEF r
  <2> QED BY <1>2, <1>4, <2>1
<1> HIDE DEF box, r
<1>8. z \in Processes /\ z.st = zms[k].st /\ z.box = box /\ z.mode = zms[k].mode
  BY <1>4, <1>5 DEF Processes
<1> HIDE DEF z
<1>9. /\ zms' \in [Keys -> Processes] /\ zms'[k] = z
      /\ \A j \in Keys : j # k => zms'[j] = zms[j]
  BY <1>2, <1>3, <1>4, <1>8
<1>10. ASSUME NEW j \in Keys PROVE MovesOn(j, zms'[j])
  <2>1. CASE j = k
    BY <1>3, <1>5, <1>8, <1>9, <2>1 DEF MovesOn
  <2>2. CASE j # k
    BY <1>9, <2>2 DEF MovesOn
  <2> QED BY <2>1, <2>2
<1>11. flight' \in Flights /\ flight'.st = "waiting"
  BY <1>3 DEF Idle, Flights
<1>12. SocketTypeOK'
  BY <1>3, <1>9, <1>11 DEF SocketInv, SocketTypeOK, Processes, Flights
<1>13. BoxesInv'
  BY <1>3, <1>7, <1>8, <1>9 DEF SocketInv, BoxesInv
<1>14. ExchangeInv'
  <2>1. Head(queue') = r /\ queue' # <<>> /\ r.key = k
    BY <1>1, <1>3 DEF r
  <2> QED BY <1>5, <1>8, <1>9, <1>11, <2>1 DEF ExchangeInv, Answered
<1>15. Unsent = queue /\ Unsent' = Tail(queue)
  BY <1>1, <1>3, <1>11 DEF Unsent, Sent, Answered
<1>16. ASSUME NEW j \in Keys, WillPlay(j) PROVE WillPlay(j)'
  <2> DEFINE b == zms[j].box
             c == zms'[j].box
             m == zms[j].mode
  <2>1. b \in Seq(Requests) /\ c \in Seq(Requests) /\ zms'[j].mode = m
    <3>1. zms[j] \in Processes /\ zms'[j] \in Processes
      BY <1>4, <1>9
    <3>2. zms'[j].mode = m
      BY <1>8, <1>9
    <3> QED BY <3>1, <3>2 DEF Processes
  <2>2. (r.key = j => c = b \o <<r>>) /\ (r.key # j => c = b)
    BY <1>6, <1>8, <1>9
  <2>3. PlaysAfter(j, b, m, queue)
    BY <1>15, <1>16 DEF WillPlay
  <2>4. WillPlay(j)' <=> PlaysAfter(j, c, m, Tail(queue))
    BY <1>15, <2>1 DEF WillPlay, PlaysAfter
  <2> HIDE DEF b, c, m
  <2> QED BY <1>1, <1>2, <2>1, <2>2, <2>3, <2>4, SentPlays DEF r
<1>17. \A result : ~Answered(result)'
  BY <1>11 DEF Answered
<1> QED BY <1>3, <1>10, <1>12, <1>13, <1>14, <1>16, <1>17 DEF SocketInv, SocketStep

\* An answer that is not "ok" came without the zms having done anything
LEMMA PhpAnswerStep ==
  ASSUME SocketInv, UNCHANGED <<queue, zms>>, queue # <<>>,
         NEW result \in {"no_socket", "transient", "failed", "timeout"},
         flight.st = IF result = "timeout" THEN "waiting" ELSE "idle",
         flight' = Answer(result, "play"), faults' \in 0..MaxFaults,
         result \in {"transient", "failed"} => result \in FaultKinds,
         result = "no_socket" => zms[Head(queue).key].st # "running"
  PROVE  SocketInv' /\ SocketStep
<1>1. flight' \in Flights /\ flight'.st = "answered" /\ flight'.result = result
  BY DEF Answer, Flights
<1>2. SocketTypeOK'
  BY <1>1 DEF SocketInv, SocketTypeOK, Flights
<1>3. BoxesInv'
  BY DEF SocketInv, BoxesInv
<1>4. ExchangeInv'
  BY <1>1 DEF ExchangeInv, Answered
<1>5. Unsent' = Unsent
  BY <1>1 DEF Unsent, Sent, Answered
<1>6. \A k \in Keys : WillPlay(k) => WillPlay(k)'
  BY <1>5 DEF WillPlay, PlaysAfter
<1>7. \A k \in Keys : MovesOn(k, zms'[k])
  BY SameProcesses
<1>8. /\ Answered("no_socket")' => zms[Head(queue).key].st # "running"
      /\ \A x \in {"", "transient", "failed"} : Answered(x)' => x \in FaultKinds
  BY <1>1 DEF Answered
<1> QED BY <1>2, <1>3, <1>4, <1>6, <1>7, <1>8 DEF SocketInv, SocketStep

\* All that happens without the page
LEMMA SocketNextStep ==
  ASSUME SocketInv, NEW img, SocketNext(img)
  PROVE  SocketInv' /\ SocketStep
<1> SocketTypeOK
  BY DEF SocketInv
<1>1. CASE PhpSend
  BY <1>1, PhpSendStep
<1>2. CASE PhpNoSocket
  <2>1. /\ queue # <<>> /\ flight.st = "idle" /\ flight' = Answer("no_socket", "play")
        /\ zms[Head(queue).key].st # "running" /\ UNCHANGED <<queue, zms>>
        /\ Fault("slow") \/ UNCHANGED faults
    BY <1>2 DEF PhpNoSocket, Requesting
  <2> QED BY <2>1, FaultType, PhpAnswerStep
<1>3. CASE PhpFails
  <2>1. PICK result \in {"transient", "failed"} :
          Fault(result) /\ flight' = Answer(result, "play")
    BY <1>3 DEF PhpFails
  <2>2. queue # <<>> /\ flight.st = "idle" /\ UNCHANGED <<queue, zms>>
    BY <1>3 DEF PhpFails, Requesting
  <2>3. result \in FaultKinds
    BY <2>1 DEF Fault
  <2> QED BY <2>1, <2>2, <2>3, FaultType, PhpAnswerStep
<1>4. CASE PhpTimeout
  <2>1. /\ queue # <<>> /\ flight.st = "waiting"
        /\ flight' = Answer("timeout", "play") /\ UNCHANGED <<queue, zms>>
        /\ Fault("busy") \/ UNCHANGED faults
    BY <1>4 DEF PhpTimeout, SocketInv, ExchangeInv
  <2> QED BY <2>1, FaultType, PhpAnswerStep
<1>5. ASSUME NEW k \in Keys, ZmsStart(k) PROVE SocketInv' /\ SocketStep
  BY <1>5, ZmsStartStep
<1>6. ASSUME NEW k \in Keys, ZmsCommand(k) PROVE SocketInv' /\ SocketStep
  BY <1>6, ZmsCommandStep
<1>7. ASSUME NEW k \in Keys, ZmsBrokenPipe(k, img) PROVE SocketInv' /\ SocketStep
  <2>1. zms' = [zms EXCEPT ![k] = Gone] /\ UNCHANGED <<queue, flight, faults>>
    BY <1>7 DEF ZmsBrokenPipe
  <2> QED BY <2>1, FaultType, EndStep
<1>8. ASSUME NEW k \in Keys, ZmsDies(k) PROVE SocketInv' /\ SocketStep
  <2>1. zms' = [zms EXCEPT ![k] = Gone] /\ UNCHANGED <<queue, flight>> /\ Fault("dies")
    BY <1>8 DEF ZmsDies
  <2> QED BY <2>1, FaultType, EndStep
<1> QED BY <1>1, <1>2, <1>3, <1>4, <1>5, <1>6, <1>7, <1>8 DEF SocketNext

-----------------------------------------------------------------------------
(* What a page does to the relay.                                          *)

\* The web server starts a zms for a connkey: it has been told nothing yet
LEMMA RequestedStep ==
  ASSUME SocketInv, NEW key \in Keys, NEW rate \in Rates, ZmsRequested(key, rate)
  PROVE  /\ zms' \in [Keys -> Processes] /\ BoxesInv'
         /\ zms'[key].st = "starting" /\ zms'[key].box = <<>> /\ zms'[key].mode = "play"
         /\ \A k \in Keys : k # key => zms'[k] = zms[k]
<1> DEFINE z == [Gone EXCEPT !.st = "starting", !.rate = rate]
<1>1. z \in Processes /\ z.st = "starting" /\ z.box = <<>> /\ z.mode = "play" /\ Len(z.box) = 0
  BY GoneType DEF Gone
<1>2. zms' = [zms EXCEPT ![key] = z] /\ zms \in [Keys -> Processes]
  BY SocketTypes DEF ZmsRequested, SocketInv
<1> HIDE DEF z
<1>3. /\ zms' \in [Keys -> Processes] /\ zms'[key] = z
      /\ \A k \in Keys : k # key => zms'[k] = zms[k]
  BY <1>1, <1>2
<1>4. BoxesInv'
  BY <1>1, <1>3 DEF SocketInv, BoxesInv
<1> QED BY <1>1, <1>3, <1>4

\* New requests do not disturb the exchange in progress
LEMMA EnqueueStep ==
  ASSUME SocketInv, NEW out \in Seq(Requests), queue' = queue \o out, flight' = flight,
         \A k \in Keys : Referenced(k) => zms'[k] = zms[k]
  PROVE  /\ queue' \in Seq(Requests) /\ ExchangeInv'
         /\ queue # <<>> => /\ queue' # <<>> /\ Head(queue') = Head(queue)
                            /\ Head(queue).key \in Keys /\ Referenced(Head(queue).key)
<1>1. queue \in Seq(Requests)
  BY SocketTypes DEF SocketInv
<1>2. queue' \in Seq(Requests)
  BY <1>1
<1>3. ASSUME queue # <<>>
      PROVE  /\ queue' # <<>> /\ Head(queue') = Head(queue)
             /\ Head(queue).key \in Keys /\ Referenced(Head(queue).key)
  <2>1. queue' # <<>> /\ Head(queue') = Head(queue)
    BY <1>1, <1>3
  <2>2. 1 \in 1..Len(queue) /\ Head(queue) = queue[1] /\ Head(queue).key \in Keys
    BY <1>1, <1>3, FirstRequest DEF SocketInv
  <2> QED BY <2>1, <2>2 DEF Referenced
<1>4. ExchangeInv'
  <2> SUFFICES ASSUME flight.st # "idle" PROVE ExchangeInv'
    BY DEF ExchangeInv
  <2> DEFINE r == Head(queue)
  <2>1. ExchangeInv /\ queue # <<>>
    BY DEF SocketInv, ExchangeInv
  <2>2. queue' # <<>> /\ Head(queue') = r /\ zms'[r.key] = zms[r.key]
    BY <1>3, <2>1
  <2> HIDE DEF r
  <2> QED BY <2>1, <2>2 DEF ExchangeInv, Answered, r
<1> QED BY <1>2, <1>3, <1>4

\* A QUIT whose exchange has ended is still ahead, has reached its zms, or did
\* not get through
LEMMA DequeueStep ==
  ASSUME SocketInv, NEW out \in Seq(Requests), Dequeue(out)
  PROVE  /\ queue # <<>> /\ queue' \in Seq(Requests) /\ flight' \in Flights /\ ExchangeInv'
         /\ \A k \in Keys : Quits(k, out) => Quits(k, queue')
         /\ \A k \in Keys : Quits(k, queue) =>
              \/ zms[k].st = "gone" \/ Quits(k, queue') \/ Quits(k, zms[k].box)
              \/ Head(queue).key = k /\ Head(queue).cmd = "QUIT" /\ flight.result # "ok"
<1>1. queue # <<>> /\ flight.st = "answered"
  BY DEF SocketInv, ExchangeInv, Dequeue
<1>2. queue \in Seq(Requests) /\ Tail(queue) \in Seq(Requests) /\ Head(queue).key \in Keys
  BY <1>1, FirstRequest DEF SocketInv
<1>3. flight' = Idle /\ queue' = Tail(queue) \o out
  BY DEF Dequeue
<1>4. queue' \in Seq(Requests) /\ flight' \in Flights /\ flight'.st = "idle"
  <2>1. queue' \in Seq(Requests)
    BY <1>2, <1>3
  <2>2. flight' \in Flights /\ flight'.st = "idle"
    BY <1>3 DEF Idle, Flights
  <2> QED BY <2>1, <2>2
<1>5. ExchangeInv'
  BY <1>4 DEF ExchangeInv
<1>6. \A k \in Keys : Quits(k, queue') <=> Quits(k, Tail(queue)) \/ Quits(k, out)
  BY <1>2, <1>3, QuitsConcat
<1>7. ASSUME NEW k \in Keys, Quits(k, queue)
      PROVE  \/ zms[k].st = "gone" \/ Quits(k, queue') \/ Quits(k, zms[k].box)
             \/ Head(queue).key = k /\ Head(queue).cmd = "QUIT" /\ flight.result # "ok"
  <2>1. (Head(queue).key = k /\ Head(queue).cmd = "QUIT") \/ Quits(k, Tail(queue))
    BY <1>1, <1>2, <1>7, QuitsTail
  <2>2. CASE Head(queue).key = k /\ Head(queue).cmd = "QUIT" /\ flight.result = "ok"
    BY <1>1, <2>2 DEF SocketInv, ExchangeInv, Answered
  <2> QED BY <1>6, <2>1, <2>2
<1> QED BY <1>1, <1>4, <1>5, <1>6, <1>7

\* The relay as a page first finds it
LEMMA SocketInitInv == SocketInit => SocketInv
<1> SUFFICES ASSUME SocketInit PROVE SocketInv
  OBVIOUS
<1>1. queue = <<>> /\ flight = Idle /\ zms = [k \in Keys |-> Gone] /\ faults = 0
  BY DEF SocketInit
<1>2. <<>> \in Seq(Requests) /\ 0 \in 0..MaxFaults
  BY BoundsAssumption
<1>3. [k \in Keys |-> Gone] \in [Keys -> Processes]
  BY GoneType
<1>4. SocketTypeOK
  BY <1>1, <1>2, <1>3 DEF SocketTypeOK, Processes, Idle
<1>5. ExchangeInv
  BY <1>1 DEF ExchangeInv, Idle
<1>6. Gone.st = "gone" /\ Gone.box = <<>> /\ Gone.mode = "play" /\ Len(Gone.box) = 0
  BY DEF Gone
<1>7. \A k \in Keys : zms[k] = Gone
  BY <1>1
<1>8. BoxesInv
  BY <1>6, <1>7 DEF BoxesInv
<1> QED BY <1>4, <1>5, <1>8 DEF SocketInv

\* Nothing changes
LEMMA SocketStutter ==
  ASSUME SocketInv, UNCHANGED socketVars
  PROVE  SocketInv'
<1>1. UNCHANGED <<queue, flight, zms, faults>>
  BY DEF socketVars
<1>2. SocketTypeOK'
  BY <1>1 DEF SocketInv, SocketTypeOK
<1>3. ExchangeInv'
  BY <1>1 DEF SocketInv, ExchangeInv, Answered
<1>4. BoxesInv'
  BY <1>1 DEF SocketInv, BoxesInv
<1> QED BY <1>2, <1>3, <1>4 DEF SocketInv

-----------------------------------------------------------------------------
(* Whether a zms plays once its commands are done.                         *)

\* Requests that do not halt it, or end by resuming it, keep it playing
LEMMA PlaysConcat ==
  ASSUME NEW k, NEW box, NEW mode, NEW s \in Seq(Requests), NEW out \in Seq(Requests),
         \/ EndsResumed(k, out)
         \/ PlaysAfter(k, box, mode, s) /\ NeverHalts(k, out)
  PROVE  PlaysAfter(k, box, mode, s \o out)
<1>1. /\ NeverHalts(k, s) /\ NeverHalts(k, out) => NeverHalts(k, s \o out)
      /\ EndsResumed(k, out) => EndsResumed(k, s \o out)
      /\ EndsResumed(k, s) /\ NeverHalts(k, out) => EndsResumed(k, s \o out)
  BY ResumedConcat
<1> QED BY <1>1 DEF PlaysAfter

\* A request to another zms makes no difference
LEMMA PlaysTail ==
  ASSUME NEW k, NEW box, NEW mode, NEW s \in Seq(Requests), s # <<>>,
         PlaysAfter(k, box, mode, s), Head(s).key # k
  PROVE  PlaysAfter(k, box, mode, Tail(s))
<1>1. /\ NeverHalts(k, s) => ~Halts(Head(s), k) /\ NeverHalts(k, Tail(s))
      /\ EndsResumed(k, s) => \/ EndsResumed(k, Tail(s))
                              \/ Resumes(Head(s), k) /\ NeverHalts(k, Tail(s))
  BY ResumedTail
<1> QED BY <1>1 DEF PlaysAfter, Resumes

\* What is not sent yet is part of the queue
LEMMA UnsentType ==
  ASSUME SocketInv
  PROVE  /\ Unsent \in Seq(Requests)
         /\ \A k \in Keys : NeverHalts(k, queue) => NeverHalts(k, Unsent)
<1>1. queue \in Seq(Requests)
  BY SocketTypes DEF SocketInv
<1>2. CASE Sent
  <2>1. queue # <<>> /\ Unsent = Tail(queue)
    BY <1>2 DEF Sent, Unsent, SocketInv, ExchangeInv, Answered
  <2>2. Tail(queue) \in Seq(Requests)
    BY <1>1, <2>1
  <2> QED BY <1>1, <2>1, <2>2, ResumedTail
<1>3. CASE ~Sent
  BY <1>1, <1>3 DEF Unsent
<1> QED BY <1>2, <1>3

\* A handler's requests go to the end of what is not sent
LEMMA EnqueueUnsent ==
  ASSUME SocketInv, NEW out \in Seq(Requests), queue' = queue \o out, flight' = flight
  PROVE  Unsent' = Unsent \o out
<1>1. queue \in Seq(Requests) /\ Sent' = Sent
  BY SocketTypes DEF SocketInv, Sent, Answered
<1>2. CASE Sent
  <2>1. queue # <<>> /\ Unsent = Tail(queue) /\ Unsent' = Tail(queue \o out)
    BY <1>1, <1>2 DEF Sent, Unsent, SocketInv, ExchangeInv, Answered
  <2> QED BY <1>1, <2>1
<1>3. CASE ~Sent
  BY <1>1, <1>3 DEF Unsent
<1> QED BY <1>2, <1>3

\* The queue asks nothing of a connkey that it does not mention
LEMMA UnreferencedNeverHalts ==
  ASSUME NEW k \in Keys, ~Referenced(k)
  PROVE  NeverHalts(k, queue)
  BY DEF Referenced, NeverHalts, Halts

\* The empty box of a zms in its first mode plays
LEMMA FreshPlays ==
  ASSUME NEW k, NEW s, NeverHalts(k, s)
  PROVE  PlaysAfter(k, <<>>, "play", s)
<1>1. NeverHalts(k, <<>>)
  <2>1. Len(<<>>) = 0
    OBVIOUS
  <2> QED BY <2>1 DEF NeverHalts
<1> QED BY <1>1 DEF PlaysAfter

\* With nothing left to do, a zms that will play does
LEMMA PlaysNow ==
  ASSUME SocketInv, NEW k \in Keys, WillPlay(k), queue = <<>>, zms[k].box = <<>>
  PROVE  zms[k].mode = "play"
<1>1. flight.st = "idle"
  BY DEF SocketInv, ExchangeInv
<1>2. Unsent = <<>>
  BY <1>1 DEF Unsent, Sent, Answered
<1>3. ~EndsResumed(k, <<>>)
  <2>1. Len(<<>>) = 0
    OBVIOUS
  <2> QED BY <2>1 DEF EndsResumed
<1> QED BY <1>2, <1>3 DEF WillPlay, PlaysAfter
=============================================================================
