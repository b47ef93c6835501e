------------------------------ MODULE Handoff ------------------------------
(***************************************************************************)
(* How packets are handed from thread to thread inside zmc: the queue's    *)
(* mutex and condition variable (zm_packetqueue.cpp), the lock of each     *)
(* packet (zm_packet.cpp), the decoder thread and the packets it leaves in *)
(* the codec (Monitor::Decode), the analysis thread (Monitor::Analyse,     *)
(* openEvent, closeEvent), the thread of each event (Event::Run), the      *)
(* thread that closes an event, and Pause and Play of the capture thread.  *)
(*                                                                         *)
(* PacketQueue has what is kept and dropped; here are locks, sleeping and  *)
(* waking.  Packets are numbered from the front of the queue, so capture   *)
(* need not be bounded: erasing from the front renumbers the others.       *)
(* Every packet is a keyframe of one video stream and the monitor encodes: *)
(* an overflow drops the first packet.                                     *)
(***************************************************************************)
EXTENDS Integers, Sequences, FiniteSetsExt

CONSTANTS
  Events,             \* event objects
  Limit,              \* MaxImageBufferCount
  Pre,                \* pre_event_count
  DecoderQueueLimit   \* packets in the codec before it is flushed

Threads == {"decoder", "analysis"} \cup Events
NoEvent == "none"
Free == "free"

ASSUME EventsAssumption == Events \cap {"decoder", "analysis", "start", NoEvent, Free} = {}
ASSUME LimitAssumption == Limit \in Nat /\ Limit >= 2
ASSUME PreAssumption == Pre \in Nat \ {0} /\ DecoderQueueLimit \in Nat

VARIABLES
  q,         \* the queued packets: their flags, and who has locked them
  it,        \* the iterators; 0 for an event that has none, Len(q) + 1 at the end
  cur,       \* the packet a thread works on, 0 if none or erased; "start" is
             \* the second one openEvent locks
  held,      \* decoder_queue: locked packets in the codec, 0 if erased
  pc,        \* where each thread is
  wait,      \* in get_packet: "block" between finding its packet locked and
             \* sleeping, with the queue's mutex, "asleep" in condition.wait
  deleting,  \* of the queue
  main,      \* where the capture thread is
  event,     \* the event being recorded
  closing    \* the event that close_event_thread deletes

vars == <<q, it, cur, held, pc, wait, deleting, main, event, closing>>

Init ==
  /\ q = <<>>
  /\ it = [t \in Threads |-> IF t \in Events THEN 0 ELSE 1]
  /\ cur = [t \in Threads \cup {"start"} |-> 0]
  /\ held = <<>>
  /\ pc = [t \in Threads |-> IF t \in Events THEN "off" ELSE "loop"]
  /\ wait = [t \in Threads |-> "no"]
  /\ deleting = FALSE
  /\ main = "run"
  /\ event = NoEvent /\ closing = NoEvent

-----------------------------------------------------------------------------
(* Locks and the condition variable.                                       *)

MutexFree == \A t \in Threads : wait[t] # "block"
NotifyAll == wait' = [t \in Threads |-> IF wait[t] = "asleep" THEN "no" ELSE wait[t]]
Terminate == main \notin {"run", "notify"}

AtEnd(t) == it[t] = Len(q) + 1
\* Mutant: a packet is taken without trying its lock
Mutant_NoTrylock(t) == ~AtEnd(t)

Available(t) == IF AtEnd(t) THEN FALSE ELSE q[it[t]].lock = Free

\* The packets in S, as far as they are queued, are changed by F
Mapped(S, F(_)) == [i \in DOMAIN q |-> IF i \in S THEN F(q[i]) ELSE q[i]]

\* A lock is released by its owner; an erased packet is nobody's concern
Unlocked(owner, S) ==
  Mapped(S, LAMBDA p : IF p.lock = owner THEN [p EXCEPT !.lock = Free] ELSE p)
Locked(owner, i) == Mapped({i}, LAMBDA p : [p EXCEPT !.lock = owner])
Go(t, next) == pc' = [pc EXCEPT ![t] = next]
Work(t, i) == cur' = [cur EXCEPT ![t] = i]

\* get_packet: t waits until the packet of iterator i is there and not
\* locked, then has it locked as cur[slot]; nothing is returned on deleting
GetPacket(t, owner, i, slot, next, none) ==
  /\ wait[t] = "no" /\ MutexFree
  /\ \/ /\ deleting
        /\ none
        /\ NotifyAll
        /\ UNCHANGED <<q, cur>>
     \/ /\ ~deleting /\ Available(i)
        /\ q' = Locked(owner, it[i])
        /\ Work(slot, it[i])
        /\ Go(t, next)
        /\ UNCHANGED <<it, wait>>
     \/ /\ ~deleting /\ ~Available(i)
        /\ wait' = [wait EXCEPT ![t] = "block"]
        /\ UNCHANGED <<q, it, cur, pc>>
  /\ UNCHANGED <<held, deleting, main, event, closing>>

\* condition.wait gives the mutex up and sleeps, in one step
Sleep(t) ==
  /\ wait[t] = "block"
  /\ wait' = [wait EXCEPT ![t] = "asleep"]
  /\ UNCHANGED <<q, it, cur, held, pc, deleting, main, event, closing>>

Incremented(t) == IF deleting \/ AtEnd(t) THEN it ELSE [it EXCEPT ![t] = @ + 1]

-----------------------------------------------------------------------------
(* The capture thread.                                                     *)

\* The first n packets of the queue are erased: iterators move to the new
\* front, and who works on one of them keeps it alive outside the queue
Erased(n, i) == IF i <= n THEN 0 ELSE i - n
Erase(n, packets) ==
  /\ q' = SubSeq(packets, n + 1, Len(packets))
  /\ it' = [t \in Threads |-> IF it[t] = 0 THEN 0 ELSE Max({1, it[t] - n})]
  /\ cur' = [t \in DOMAIN cur |-> Erased(n, cur[t])]
  /\ held' = [j \in DOMAIN held |-> Erased(n, held[j])]

\* A full queue loses its first packet
Overflow(packets) == IF Len(packets) > Limit THEN 1 ELSE 0

QueuePacket ==
  /\ main = "run" /\ MutexFree
  /\ LET packets == Append(q, [decoded |-> FALSE, analyzed |-> FALSE, lock |-> Free])
     IN Erase(Overflow(packets), packets)
  /\ main' = "notify"
  /\ UNCHANGED <<pc, wait, deleting, event, closing>>

\* The mutex is released before the others are woken
QueueNotify ==
  /\ main = "notify" /\ NotifyAll
  /\ main' = "run"
  /\ UNCHANGED <<q, it, cur, held, pc, deleting, event, closing>>

Unchanged == UNCHANGED <<q, cur, held>>

\* Pause: the threads are told to end, ...
Pause ==
  /\ main = "run" /\ main' = "stop"
  /\ Unchanged /\ UNCHANGED <<it, pc, wait, deleting, event, closing>>

\* Mutant: deleting is set without the mutex
Mutant_StopUnlocked ==
  /\ main = "stop" /\ main' = "joinDecoder"
  /\ deleting' = TRUE /\ NotifyAll
  /\ Unchanged /\ UNCHANGED <<it, pc, event, closing>>

\* ... woken, ...
Stop ==
  /\ main = "stop" /\ MutexFree /\ main' = "joinDecoder"
  /\ deleting' = TRUE /\ NotifyAll
  /\ Unchanged /\ UNCHANGED <<it, pc, event, closing>>

\* ... and waited for
Join ==
  /\ \/ main = "joinDecoder" /\ pc["decoder"] = "off" /\ main' = "joinAnalysis"
     \/ main = "joinAnalysis" /\ pc["analysis"] = "off" /\ main' = "joinClose"
     \/ main = "joinClose" /\ closing = NoEvent /\ event = NoEvent /\ main' = "clear"
  /\ Unchanged /\ UNCHANGED <<it, pc, wait, deleting, event, closing>>

\* The event that is still recording is closed
PauseClosesEvent ==
  /\ main = "joinClose" /\ closing = NoEvent /\ event # NoEvent
  /\ closing' = event /\ event' = NoEvent
  /\ Unchanged /\ UNCHANGED <<it, pc, wait, deleting, main>>

Clear ==
  /\ main = "clear" /\ MutexFree /\ main' = "paused"
  /\ Erase(Len(q), q) /\ NotifyAll
  /\ UNCHANGED <<pc, deleting, event, closing>>

Play ==
  /\ main = "paused" /\ main' = "run"
  /\ deleting' = FALSE
  /\ pc' = [pc EXCEPT !["decoder"] = "loop", !["analysis"] = "loop"]
  /\ Unchanged /\ UNCHANGED <<it, wait, event, closing>>

-----------------------------------------------------------------------------
(* The decoder thread.                                                     *)

DecoderOnly == UNCHANGED <<deleting, main, event, closing>>

\* The packets S leave the codec without an image, or with the one they got
Released(S) ==
  Mapped(S, LAMBDA p : [p EXCEPT !.decoded = TRUE, !.lock = Free])
HeldSet == {held[j] : j \in DOMAIN held}

\* flushDecoderQueue, and the same lines in Decode
Flush ==
  /\ q' = Released(HeldSet) /\ held' = <<>>
  /\ IF held = <<>> THEN UNCHANGED wait ELSE NotifyAll

DecoderExit ==
  /\ pc["decoder"] = "loop" /\ Terminate
  /\ Flush /\ Go("decoder", "off")
  /\ UNCHANGED <<it, cur>> /\ DecoderOnly

\* A frame comes out of the codec, for its j-th packet: the earlier ones
\* will get none
ReceiveFrame(j) ==
  /\ pc["decoder"] = "loop" /\ ~Terminate
  /\ q' = Released({held[k] : k \in 1 .. j - 1})
  /\ held' = SubSeq(held, j + 1, Len(held))
  /\ IF j = 1 THEN UNCHANGED wait ELSE NotifyAll
  /\ Work("decoder", held[j])
  /\ Go("decoder", "convert")
  /\ UNCHANGED it /\ DecoderOnly

\* The codec reports an error
ReceiveError ==
  /\ pc["decoder"] = "loop" /\ ~Terminate /\ held # <<>>
  /\ Go("decoder", "pause")
  /\ UNCHANGED <<q, it, cur, held, wait>> /\ DecoderOnly

\* Mutant: a codec that is full is waited for
Mutant_NoThrottle ==
  /\ pc["decoder"] = "loop" /\ ~Terminate
  /\ UNCHANGED <<q, held, wait>> \/ (held # <<>> /\ Flush)
  /\ Go("decoder", "get")
  /\ UNCHANGED <<it, cur>> /\ DecoderOnly

\* No frame yet: the next packet is needed, and a codec that holds too many
\* is flushed; it is also flushed when nobody needs the frames any more
ReceiveNothing ==
  /\ pc["decoder"] = "loop" /\ ~Terminate
  /\ \/ Len(held) <= DecoderQueueLimit /\ UNCHANGED <<q, held, wait>>
     \/ held # <<>> /\ Flush
  /\ Go("decoder", "get")
  /\ UNCHANGED <<it, cur>> /\ DecoderOnly

DecoderGet ==
  /\ pc["decoder"] = "get"
  /\ GetPacket("decoder", "decoder", "decoder", "decoder", "work",
               Go("decoder", "loop") /\ UNCHANGED it)

\* The codec takes the packet, which stays locked
SendPacket ==
  /\ pc["decoder"] = "work" /\ MutexFree
  /\ held' = Append(held, cur["decoder"])
  /\ Work("decoder", 0)
  /\ it' = Incremented("decoder")
  /\ Go("decoder", "loop")
  /\ UNCHANGED <<q, wait>> /\ DecoderOnly

\* Mutant: the packet stays locked while its sender waits to retry it
Mutant_RetryLocked ==
  /\ pc["decoder"] = "work"
  /\ Work("decoder", 0) /\ Go("decoder", "pause")
  /\ UNCHANGED <<q, it, held, wait>> /\ DecoderOnly

\* The codec is full, or refuses the packet
SendFails ==
  /\ pc["decoder"] = "work"
  /\ q' = Unlocked("decoder", {cur["decoder"]})
  /\ Work("decoder", 0) /\ Go("decoder", "pause")
  /\ UNCHANGED <<it, held, wait>> /\ DecoderOnly

\* The packet has an image already or needs none; nor do those in the codec
SkipPacket ==
  /\ pc["decoder"] = "work" /\ MutexFree
  /\ Flush
  /\ it' = Incremented("decoder")
  /\ Go("decoder", "convert")
  /\ UNCHANGED cur /\ DecoderOnly

\* The image is ready: the others are woken, and only then is the packet
\* unlocked
Convert ==
  /\ pc["decoder"] = "convert"
  /\ q' = Mapped({cur["decoder"]}, LAMBDA p : [p EXCEPT !.decoded = TRUE])
  /\ NotifyAll
  /\ Go("decoder", "unlock")
  /\ UNCHANGED <<it, cur, held>> /\ DecoderOnly

DecoderUnlock ==
  /\ pc["decoder"] = "unlock"
  /\ q' = Unlocked("decoder", {cur["decoder"]})
  /\ Work("decoder", 0)
  /\ \E next \in {"loop", "pause"} : Go("decoder", next)
  /\ UNCHANGED <<it, held, wait>> /\ DecoderOnly

\* A timed wait is over, or was cut short by a notification
Resume(t) ==
  /\ pc[t] = "pause"
  /\ Go(t, "loop")
  /\ UNCHANGED <<q, it, cur, held, wait, deleting, main, event, closing>>

Decoder ==
  \/ DecoderExit
  \/ \E j \in DOMAIN held : ReceiveFrame(j)
  \/ ReceiveError
  \/ ReceiveNothing
  \/ DecoderGet
  \/ SendPacket
  \/ SendFails
  \/ SkipPacket
  \/ Convert
  \/ DecoderUnlock
  \/ Resume("decoder")
  \/ Sleep("decoder")

-----------------------------------------------------------------------------
(* The analysis thread.                                                    *)

AnalysisOnly == UNCHANGED <<held, deleting, main>>

\* Mutant: terminate_ is only looked at after a packet was analysed
Mutant_TerminateMissed ==
  /\ pc["analysis"] = "loop"
  /\ Go("analysis", "get")
  /\ UNCHANGED <<q, it, cur, wait, event, closing>> /\ AnalysisOnly

AnalyseLoop ==
  /\ pc["analysis"] = "loop"
  /\ Go("analysis", IF Terminate THEN "off" ELSE "get")
  /\ UNCHANGED <<q, it, cur, wait, event, closing>> /\ AnalysisOnly

AnalyseGet ==
  /\ pc["analysis"] = "get"
  /\ GetPacket("analysis", "analysis", "analysis", "analysis", "work",
               Go("analysis", "pause") /\ UNCHANGED it)

\* deletePacket marks the packets it erases as decoded
IsDecoded(i) == IF i = 0 THEN TRUE ELSE q[i].decoded

AnalyseRetry ==
  /\ pc["analysis"] = "work" /\ ~IsDecoded(cur["analysis"])
  /\ q' = Unlocked("analysis", {cur["analysis"]})
  /\ Work("analysis", 0) /\ Go("analysis", "pause")
  /\ UNCHANGED <<it, wait, event, closing>> /\ AnalysisOnly

\* What the packet means for the event.  Without a signal, or with the
\* trigger off, the packet need not be decoded and an event is closed
Analyse ==
  /\ pc["analysis"] = "work"
  /\ \/ IsDecoded(cur["analysis"]) /\ Go("analysis", "clear")
     \/ IsDecoded(cur["analysis"]) /\ event = NoEvent /\ Go("analysis", "open")
     \/ event # NoEvent /\ Go("analysis", "close")
     \/ event = NoEvent /\ Go("analysis", "clear")
  /\ UNCHANGED <<q, it, cur, wait, event, closing>> /\ AnalysisOnly

\* closeEvent: the previous one has to be closed
CloseEvent ==
  /\ pc["analysis"] = "close" /\ closing = NoEvent
  /\ closing' = event /\ event' = NoEvent
  /\ \E next \in {"clear"} \cup (IF IsDecoded(cur["analysis"]) THEN {"open"} ELSE {}) :
        Go("analysis", next)
  /\ UNCHANGED <<q, it, cur, wait>> /\ AnalysisOnly

\* openEvent: a new iterator, pre_event_count packets back
OpenEvent(e) ==
  /\ pc["analysis"] = "open" /\ MutexFree /\ it[e] = 0
  /\ \E back \in {0, Pre} :
       LET start == Max({1, it["analysis"] - back})
       IN /\ it' = [it EXCEPT ![e] = start]
          /\ IF start # it["analysis"]
             THEN Go("analysis", "start") /\ UNCHANGED event
             ELSE /\ pc' = [pc EXCEPT !["analysis"] = "clear", ![e] = "loop"]
                  /\ event' = e
  /\ UNCHANGED <<q, cur, wait, closing>> /\ AnalysisOnly

Opening == {e \in Events : it[e] # 0 /\ e \notin {event, closing}}

\* The starting packet is locked while the analysed one still is
StartGet(e) ==
  /\ pc["analysis"] = "start" /\ e \in Opening
  /\ GetPacket("analysis", "analysis", e, "start", "create",
               Go("analysis", "clear") /\ it' = [it EXCEPT ![e] = 0])

StartEvent(e) ==
  /\ pc["analysis"] = "create" /\ e \in Opening
  /\ q' = Unlocked("analysis", {cur["analysis"]})
  /\ event' = e
  /\ pc' = [pc EXCEPT !["analysis"] = "opened", ![e] = "loop"]
  /\ UNCHANGED <<it, cur, wait, closing>> /\ AnalysisOnly

StartUnlock ==
  /\ pc["analysis"] = "opened"
  /\ q' = Unlocked("analysis", {cur["start"]})
  /\ Work("start", 0) /\ Go("analysis", "clear")
  /\ UNCHANGED <<it, wait, event, closing>> /\ AnalysisOnly

\* Mutant: the iterators of events are forgotten
Mutant_EventsForgotten ==
  LET a == cur["analysis"]
      pinned == {it[t] : t \in {u \in Threads \ Events : it[u] \notin {0, Len(q) + 1}}}
  IN IF deleting \/ a = 0 THEN 0
     ELSE Max({0, Min({a - Pre, a - 1} \cup {i - 1 : i \in pinned})})

\* clearPackets, for a monitor that encodes
Trimmable ==
  LET a == cur["analysis"]
      pinned == {it[t] : t \in {u \in Threads : it[u] \notin {0, Len(q) + 1}}}
  IN IF deleting \/ a = 0 THEN 0
     ELSE Max({0, Min({a - Pre, a - 1} \cup {i - 1 : i \in pinned})})

ClearPackets ==
  /\ pc["analysis"] = "clear" /\ MutexFree
  /\ Erase(Trimmable, q)
  /\ Go("analysis", "analyzed")
  /\ UNCHANGED <<wait, deleting, main, event, closing>>

SetAnalyzed ==
  /\ pc["analysis"] = "analyzed"
  /\ q' = Mapped({cur["analysis"]}, LAMBDA p : [p EXCEPT !.analyzed = TRUE])
  /\ Go("analysis", "increment")
  /\ UNCHANGED <<it, cur, wait, event, closing>> /\ AnalysisOnly

AnalyseIncrement ==
  /\ pc["analysis"] = "increment" /\ MutexFree
  /\ it' = Incremented("analysis")
  /\ Go("analysis", "unlock")
  /\ UNCHANGED <<q, cur, wait, event, closing>> /\ AnalysisOnly

AnalyseUnlock ==
  /\ pc["analysis"] = "unlock"
  /\ q' = Unlocked("analysis", {cur["analysis"]})
  /\ Work("analysis", 0) /\ Go("analysis", "loop")
  /\ UNCHANGED <<it, wait, event, closing>> /\ AnalysisOnly

Analysis ==
  \/ AnalyseLoop
  \/ AnalyseGet
  \/ AnalyseRetry
  \/ Analyse
  \/ CloseEvent
  \/ \E e \in Events : OpenEvent(e) \/ StartGet(e) \/ StartEvent(e)
  \/ StartUnlock
  \/ ClearPackets
  \/ SetAnalyzed
  \/ AnalyseIncrement
  \/ AnalyseUnlock
  \/ Resume("analysis")
  \/ Sleep("analysis")

-----------------------------------------------------------------------------
(* The thread of an event, and the one that closes it.                     *)

EventOnly == UNCHANGED <<held, wait, deleting, main, event, closing>>

EventEnds(e) ==
  /\ pc[e] = "loop" /\ closing = e
  /\ Go(e, "off")
  /\ UNCHANGED <<q, it, cur>> /\ EventOnly

\* get_packet_no_wait
EventGet(e) ==
  /\ pc[e] = "loop" /\ closing # e /\ MutexFree
  /\ IF deleting \/ ~Available(e)
     THEN Go(e, "pause") /\ UNCHANGED <<q, cur>>
     ELSE Go(e, "check") /\ Work(e, it[e]) /\ q' = Locked(e, it[e])
  /\ UNCHANGED it /\ EventOnly

\* The packet is written once decoded and analyzed; whether an erased one
\* had been analyzed is left open
Complete(p) == p.decoded /\ p.analyzed

EventRetry(e) ==
  /\ pc[e] = "check" /\ (IF cur[e] = 0 THEN TRUE ELSE ~Complete(q[cur[e]]))
  /\ q' = Unlocked(e, {cur[e]})
  /\ Work(e, 0) /\ Go(e, "pause")
  /\ UNCHANGED it /\ EventOnly

\* Mutant: a packet is written as soon as it is decoded
Mutant_WriteDecoded(e) ==
  /\ pc[e] = "check" /\ IsDecoded(cur[e])
  /\ Go(e, "write")
  /\ UNCHANGED <<q, it, cur>> /\ EventOnly

AddPacket(e) ==
  /\ pc[e] = "check" /\ (IF cur[e] = 0 THEN TRUE ELSE Complete(q[cur[e]]))
  /\ Go(e, "write")
  /\ UNCHANGED <<q, it, cur>> /\ EventOnly

EventIncrement(e) ==
  /\ pc[e] = "write" /\ MutexFree
  /\ it' = Incremented(e)
  /\ Go(e, "unlock")
  /\ UNCHANGED <<q, cur>> /\ EventOnly

EventUnlock(e) ==
  /\ pc[e] = "unlock"
  /\ q' = Unlocked(e, {cur[e]})
  /\ Work(e, 0) /\ Go(e, "loop")
  /\ UNCHANGED it /\ EventOnly

\* ~Event has joined the thread and frees its iterator
FreeIt(e) ==
  /\ closing = e /\ pc[e] = "off" /\ MutexFree
  /\ it' = [it EXCEPT ![e] = 0]
  /\ closing' = NoEvent
  /\ UNCHANGED <<q, cur, held, pc, wait, deleting, main, event>>

EventThread(e) ==
  \/ EventEnds(e)
  \/ EventGet(e)
  \/ EventRetry(e)
  \/ AddPacket(e)
  \/ EventIncrement(e)
  \/ EventUnlock(e)
  \/ FreeIt(e)
  \/ Resume(e)

Next ==
  \/ QueuePacket
  \/ QueueNotify
  \/ Pause
  \/ Stop
  \/ Join
  \/ PauseClosesEvent
  \/ Clear
  \/ Play
  \/ Decoder
  \/ Analysis
  \/ \E e \in Events : EventThread(e)

Spec == Init /\ [][Next]_vars

\* Threads are scheduled, timed waits end, the camera goes on sending.  A
\* mutex that is free again and again is obtained at last: hence the strong
\* fairness.  Nothing is assumed of the codec, nor of who gets a lock that
\* several threads try, nor that the capture is ever paused or resumed.
Fairness ==
  /\ SF_vars(QueuePacket) /\ WF_vars(QueueNotify)
  /\ SF_vars(Stop \/ Join \/ PauseClosesEvent \/ Clear)
  /\ SF_vars(Decoder) /\ SF_vars(Analysis)
  /\ \A e \in Events : SF_vars(EventThread(e))

FairSpec == Spec /\ Fairness

-----------------------------------------------------------------------------
(* Properties.                                                             *)

\* Types; no iterator points beyond the end, and at most one packet more than
\* the throttle of Decode() asks for is in the codec
TypeOK ==
  /\ q \in Seq([decoded : BOOLEAN, analyzed : BOOLEAN, lock : Threads \cup {Free}])
  /\ Len(q) <= Limit
  /\ it \in [Threads -> 0 .. Len(q) + 1]
  /\ it["decoder"] # 0 /\ it["analysis"] # 0
  /\ cur \in [Threads \cup {"start"} -> 0 .. Len(q)]
  /\ held \in Seq(0 .. Len(q)) /\ Len(held) <= DecoderQueueLimit + 1
  /\ pc \in [Threads -> {"off", "loop", "pause", "get", "work", "convert", "unlock", "close",
                          "open", "start", "create", "opened", "clear", "analyzed",
                          "increment", "check", "write"}]
  /\ wait \in [Threads -> {"no", "block", "asleep"}]
  /\ deleting \in BOOLEAN
  /\ main \in {"run", "notify", "stop", "joinDecoder", "joinAnalysis", "joinClose",
               "clear", "paused"}
  /\ event \in Events \cup {NoEvent} /\ closing \in Events \cup {NoEvent}

\* A packet is locked only while the thread that locked it works on it or has
\* it in the codec: none is left locked when a thread waits to retry, when an
\* event is opened in the middle of an analysis, or after a flush
LocksHaveHolders ==
  \A i \in DOMAIN q :
    LET t == q[i].lock
    IN t # Free => \/ i = cur[t]
                   \/ t = "decoder" /\ i \in HeldSet
                   \/ t = "analysis" /\ i = cur["start"]

\* What t works on.  The analysis gives the lock of its packet up in the middle
\* of openEvent, and looks at timestamps alone from there on
WorksOn(t) ==
  (IF t # "analysis" \/ pc[t] \in {"work", "close", "open", "start", "create"}
   THEN {cur[t]} ELSE {})
    \cup (IF t = "decoder" THEN HeldSet ELSE {})
    \cup (IF t = "analysis" THEN {cur["start"]} ELSE {})

\* A queued packet somebody works on, or the codec has, is locked by him: no two
\* threads have one at a time, and neither a flush nor the unlocking of an
\* erased packet releases the lock of another thread
WorkIsExclusive ==
  \A t \in Threads : \A i \in WorksOn(t) \ {0} : q[i].lock = t

\* Nobody sleeps through the end of a capture session: once the queue is being
\* deleted no notification is coming that a thread in get_packet could need
NobodySleepsThroughStop ==
  deleting => \A t \in Threads : wait[t] = "no"

\* The log this is: locks and sleeping left out.  moved: the events whose
\* packet was erased while they had it
Log ==
  INSTANCE RecordingLog WITH
    Readers <- Events,
    log <- [i \in DOMAIN q |-> [decoded |-> q[i].decoded, analyzed |-> q[i].analyzed]],
    next <- [e \in Events |-> it[e]],
    moved <- {e \in Events : pc[e] \in {"check", "write"} /\ cur[e] = 0}

\* An event passes no packet that is not decoded and analysed, packets are cut
\* off in front of every event alone, and their flags never go back
ImplementsRecordingLog == Log!Spec

\* Pause comes to its end: no thread it joins waits for another for ever, an
\* event that is being opened or closed included
PauseCompletes == (main = "stop") ~> (main = "paused")

\* The event has passed a packet, or lost it to an overflow
PassedOrLost(e) ==
  \/ it'[e] > it[e]
  \/ it[e] = 1 /\ Len(q) = Limit /\ main = "run" /\ main' = "notify"

\* An event that goes on recording is never held up for ever, not by a packet
\* either that the analysis was moved past and will never mark as analyzed:
\* the queue then fills up until that packet is dropped
EventMovesOn ==
  \A e \in Events : <>[](event = e /\ ~Terminate) => []<><<PassedOrLost(e)>>_vars

\* zm_monitor.cpp, at the end of Decode(): "Wake up analysis thread waiting for
\* decoded packets".  A decoded packet that nobody has locked does not find the
\* analysis asleep over it, unless a notification is on its way
DecodedWakesAnalysis ==
  (wait["analysis"] = "asleep" /\ pc["analysis"] = "get" /\ main = "run" /\ Available("analysis"))
    => ~q[it["analysis"]].decoded \/ pc["decoder"] = "convert"
=============================================================================
