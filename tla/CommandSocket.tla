--------------------------- MODULE CommandSocket ---------------------------
(***************************************************************************)
(* How a page talks to the zms processes that send it pictures.  Requests  *)
(* of all streams of a page go through one queue, one at a time            *)
(* (src/web/js/ajaxQueue.js); a php relays each one to the command socket  *)
(* of the zms that serves its connkey and waits for the answer             *)
(* (src/web/ajax/stream.php); zms reads its socket in a thread of its own  *)
(* (src/src/zm_stream.cpp).                                                *)
(*                                                                         *)
(* The page that uses it chooses connkeys, takes answers (Dequeue) and is  *)
(* connected to some of the processes.  Commands are told apart as far as  *)
(* they change what a zms is doing: "QUERY" also stands for the ones that  *)
(* change the picture alone (CMD_SEEK, CMD_SCALE, ...).                    *)
(***************************************************************************)
EXTENDS Integers, Sequences, FiniteSets

CONSTANTS
  Keys,        \* connkeys
  Rates,       \* playback rates of 1x and more
  MaxQueue,    \* bound: requests in the AJAX queue
  MaxFaults,   \* bound: how much goes wrong
  FaultKinds   \* what may go wrong: some of AllFaults

ASSUME KeysAssumption == Keys \subseteq Nat \ {0} /\ Keys # {}
ASSUME RatesAssumption == Rates \subseteq Nat \ {0} /\ 1 \in Rates
\* A process dies, is slow to open its socket or to answer; the php fails,
\* or the web server does
AllFaults == {"dies", "slow", "busy", "transient", "failed"}

ASSUME FaultsAssumption == FaultKinds \subseteq AllFaults
ASSUME BoundsAssumption == MaxQueue \in Nat /\ MaxFaults \in Nat

VARIABLES
  queue,    \* requests of the page; the first one is in progress unless flight is idle
  flight,   \* how far the exchange in progress has come
  zms,      \* the zms process of each connkey
  faults    \* how much has gone wrong so far

socketVars == <<queue, flight, zms, faults>>

NoKey == 0
Commands == {"QUERY", "PAUSE", "PLAY", "VARPLAY", "STOP", "QUIT"}
\* Only CMD_VARPLAY carries a rate
Requests ==
  {r \in [key : Keys, cmd : Commands, rate : Rates \cup {0}] :
     (r.cmd = "VARPLAY") <=> (r.rate \in Rates)}

Idle == [st |-> "idle", result |-> "", mode |-> "play"]
Answer(result, mode) == [st |-> "answered", result |-> result, mode |-> mode]
Gone == [st |-> "gone", rate |-> 1, mode |-> "play", box |-> <<>>]

SocketInit ==
  /\ queue = <<>>
  /\ flight = Idle
  /\ zms = [k \in Keys |-> Gone]
  /\ faults = 0

-----------------------------------------------------------------------------
(* The page's side.                                                        *)

Referenced(k) == \E i \in 1..Len(queue) : queue[i].key = k

\* genConnKey draws one of a million: one that no process or request uses
FreshKeys(current) == {k \in Keys \ {current} : zms[k].st = "gone" /\ ~Referenced(k)}
genConnKey(current) == CHOOSE k \in FreshKeys(current) : TRUE

\* The web server starts a zms for the connkey of an img's new source
ZmsRequested(key, rate) ==
  zms' = [zms EXCEPT ![key] = [Gone EXCEPT !.st = "starting", !.rate = rate]]

\* The requests of one handler go to the end of the queue
Enqueue(requests) ==
  /\ Len(queue) + Len(requests) <= MaxQueue
  /\ queue' = queue \o requests

\* The exchange has ended and its handler has run, issuing requests
Dequeue(requests) ==
  /\ flight.st = "answered" /\ flight' = Idle
  /\ Len(queue) - 1 + Len(requests) <= MaxQueue
  /\ queue' = Tail(queue) \o requests

-----------------------------------------------------------------------------
(* ajax/stream.php: one exchange with the zms behind a connkey.            *)

Fault(kind) == kind \in FaultKinds /\ faults < MaxFaults /\ faults' = faults + 1

Requesting == flight.st = "idle" /\ queue # <<>>

PhpSend ==
  /\ Requesting
  /\ LET k == Head(queue).key
     IN /\ zms[k].st = "running"
        /\ zms' = [zms EXCEPT ![k].box = Append(@, Head(queue))]
  /\ flight' = [Idle EXCEPT !.st = "waiting"]
  /\ UNCHANGED <<queue, faults>>

\* The socket does not exist, or not yet after a second of waiting
PhpNoSocket ==
  /\ Requesting
  /\ LET st == zms[Head(queue).key].st
     IN \/ st = "gone" /\ UNCHANGED faults
        \/ st = "starting" /\ Fault("slow")
  /\ flight' = Answer("no_socket", "play")
  /\ UNCHANGED <<queue, zms>>

\* The php fails, or the web server does, before the command is sent
PhpFails ==
  /\ Requesting
  /\ \E result \in {"transient", "failed"} :
        Fault(result) /\ flight' = Answer(result, "play")
  /\ UNCHANGED <<queue, zms>>

\* No answer in time: the zms is busy, or gone with the command
PhpTimeout ==
  /\ flight.st = "waiting"
  /\ \/ zms[Head(queue).key].st = "gone" /\ UNCHANGED faults
     \/ zms[Head(queue).key].st = "running" /\ Fault("busy")
  /\ flight' = Answer("timeout", "play")
  /\ UNCHANGED <<queue, zms>>

-----------------------------------------------------------------------------
(* The zms processes.                                                      *)

\* openComms
ZmsStart(k) ==
  /\ zms[k].st = "starting"
  /\ zms' = [zms EXCEPT ![k].st = "running"]
  /\ UNCHANGED <<queue, flight, faults>>

processCommand(z, command) ==
  [z EXCEPT !.box = Tail(@),
            !.mode = CASE command.cmd = "PAUSE" -> "pause"
                       [] command.cmd = "STOP" -> "stop"
                       [] command.cmd \in {"PLAY", "VARPLAY"} -> "play"
                       [] OTHER -> @,
            !.rate = CASE command.cmd = "PLAY" -> 1
                       [] command.cmd = "VARPLAY" -> command.rate
                       [] OTHER -> @]

\* checkCommandQueue: the oldest command is carried out and answered, to
\* whatever request is waiting then; a QUIT ends the process
ZmsCommand(k) ==
  /\ zms[k].st = "running" /\ zms[k].box # <<>>
  /\ LET command == Head(zms[k].box)
         z == processCommand(zms[k], command)
     IN /\ zms' = [zms EXCEPT ![k] = IF command.cmd = "QUIT" THEN Gone ELSE z]
        /\ flight' = IF flight.st = "waiting" /\ Head(queue).key = k
                     THEN Answer("ok", z.mode) ELSE flight
  /\ UNCHANGED <<queue, faults>>

\* Mutant: a paused stream writes nothing, not even a keepalive
Mutant_NoKeepalive(k, img) ==
  /\ zms[k].st \in {"starting", "running"} /\ k # img /\ zms[k].mode = "play"
  /\ zms' = [zms EXCEPT ![k] = Gone]
  /\ UNCHANGED <<queue, flight, faults>>

\* The next frame or keepalive cannot be written: no img is connected
ZmsBrokenPipe(k, img) ==
  /\ zms[k].st \in {"starting", "running"} /\ k # img
  /\ zms' = [zms EXCEPT ![k] = Gone]
  /\ UNCHANGED <<queue, flight, faults>>

ZmsDies(k) ==
  /\ zms[k].st \in {"starting", "running"} /\ Fault("dies")
  /\ zms' = [zms EXCEPT ![k] = Gone]
  /\ UNCHANGED <<queue, flight>>

\* What happens without the page, which is connected to img
SocketNext(img) ==
  \/ PhpSend
  \/ PhpNoSocket
  \/ PhpFails
  \/ PhpTimeout
  \/ \E k \in Keys :
        \/ ZmsStart(k)
        \/ ZmsCommand(k)
        \/ ZmsBrokenPipe(k, img)
        \/ ZmsDies(k)

-----------------------------------------------------------------------------
Quits(k, requests) ==
  \E i \in 1..Len(requests) : requests[i].key = k /\ requests[i].cmd = "QUIT"

\* The zms of a connkey has been told to quit, or will be
QuitPending(k) == Quits(k, queue) \/ Quits(k, zms[k].box)

SocketTypeOK ==
  /\ queue \in Seq(Requests)
  /\ flight \in [st : {"idle", "waiting", "answered"},
                 result : {"", "ok", "no_socket", "transient", "failed", "timeout"},
                 mode : {"play", "pause", "stop"}]
  /\ zms \in [Keys -> [st : {"gone", "starting", "running"}, rate : Rates,
                       mode : {"play", "pause", "stop"}, box : Seq(Requests)]]
  /\ faults \in 0..MaxFaults
=============================================================================
