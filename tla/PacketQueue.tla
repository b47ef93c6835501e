---------------------------- MODULE PacketQueue ----------------------------
(***************************************************************************)
(* The packet queue of a monitor (src/src/zm_packetqueue.cpp) and the      *)
(* threads of zmc that share it: capture pushes packets, decoder, analysis *)
(* and event threads each read through an iterator the queue keeps         *)
(* registered, analysis trims the front, capture overflows it.             *)
(*                                                                         *)
(* A critical section under PacketQueue::mutex is one action.  What a      *)
(* thread keeps in its own variables between two critical sections (the    *)
(* shared_ptr it works on, the copy of analysis_it that openEvent takes    *)
(* without the mutex) is state of the model.                               *)
(*                                                                         *)
(* pkts holds every packet ever queued, so that queue_index is a position  *)
(* in it (queue_index + 1).  Packets are only ever removed at the front,   *)
(* so pktQueue is the stretch front .. Len(pkts).                          *)
(***************************************************************************)
EXTENDS Integers, Sequences, FiniteSets, FiniteSetsExt

CONSTANTS
  Events,       \* identities of Event objects (their iterators and threads)
  Settings,     \* what Monitor::Load may read: records [pre, max, keep]
  Decoding,     \* whether the monitor has a decoder thread
  Cameras,      \* streams a camera may offer: 1 is video, 2 is video and audio
  MaxPackets    \* bound: packets captured in a behaviour

Threads == {"analysis", "decoder"}
Iterators == Threads \cup Events
None == "none"
End == 0        \* pktQueue.end()

ASSUME EventsAssumption == Events \cap (Threads \cup {None}) = {}
ASSUME SettingsAssumption ==
  /\ Settings # {}
  /\ Settings \subseteq [pre: Int, max: Int, keep: BOOLEAN]
ASSUME DecodingAssumption == Decoding \in BOOLEAN
ASSUME CamerasAssumption == Cameras \subseteq {1, 2}
ASSUME MaxPacketsAssumption == MaxPackets \in Nat

VARIABLES
  pkts,          \* every packet queued so far: "key", "delta" (video) or "audio"
  front,         \* position of pktQueue.begin()
  iterators,     \* the registered iterators
  pos,           \* where each one points
  packet_counts, \* video and audio packets in the queue
  streams,       \* streams added since the last clear(); 0: packet_counts is null
  deleting,
  cfg,           \* pre_event_video_packet_count, max_video_packet_count, keep_keyframes
  gop,           \* frames_since_last_keyframe_, max_keyframe_interval_,
                 \*   keyframe_interval_over_limit_
  clear_packets_pending_,
  first_queue_index_,
  released_before_,
  capped_before_,
  hold,          \* the packet each thread works on, 0 for none
  step,          \* where the analysis thread is in Monitor::Analyse
  snap,          \* openEvent's copy of *analysis_it
  event,         \* Monitor::event
  opening,       \* the Event whose iterator openEvent has registered
  closing        \* the Event close_event_thread is deleting

queueVars == <<pkts, front, packet_counts, gop, first_queue_index_>>
boundaryVars == <<released_before_, capped_before_>>
analysisVars == <<step, snap, opening>>
eventVars == <<event, closing>>
vars == <<queueVars, iterators, pos, streams, deleting, cfg,
          clear_packets_pending_, boundaryVars, hold, analysisVars, eventVars>>

-----------------------------------------------------------------------------
(* Reading the queue *)

Last == Len(pkts)
Empty == front > Last
IsVideo(i) == pkts[i] # "audio"
IsKey(i) == pkts[i] = "key"

Video(a, b) == {i \in a .. b : IsVideo(i)}
Audio(a, b) == {i \in a .. b : ~IsVideo(i)}
Keys(a, b) == {i \in a .. b : IsKey(i)}
VideoCount(a, b) == Cardinality(Video(a, b))
AudioCount(a, b) == Cardinality(Audio(a, b))

\* The k-th element of S counting down from its largest one
NthLast(S, k) == CHOOSE i \in S : Cardinality({j \in S : j >= i}) = k

\* min_iterator_queue_index: the registered iterators that are not at the end
Pinned == {pos[i] : i \in {j \in iterators : pos[j] # End}}
BeforeIterators(i) == \A p \in Pinned : i < p

-----------------------------------------------------------------------------
(* Operations of the queue *)

\* Mutants of BumpedTo: no iterator is moved; iterators are moved one too far
Mutant_NoBump(newFront, ps) == ps
Mutant_BumpTooFar(newFront, ps) ==
  [i \in Iterators |-> IF i \in iterators /\ ps[i] # End /\ ps[i] < newFront
                         THEN newFront + 1 ELSE ps[i]]

\* deletePacket on every packet before newFront: registered iterators that
\* point at a deleted packet are moved on to the first one that stays
BumpedTo(newFront, ps) ==
  [i \in Iterators |-> IF i \in iterators /\ ps[i] # End /\ ps[i] < newFront
                         THEN newFront ELSE ps[i]]

\* Mutants of CountsFrom: the decrement is forgotten, or done twice
Mutant_CountsKept(newFront, counts) == counts
Mutant_CountsTwice(newFront, counts) ==
  [video |-> counts.video - 2 * VideoCount(front, newFront - 1),
   audio |-> counts.audio - 2 * AudioCount(front, newFront - 1)]

\* What is left of packet_counts once the packets before newFront are gone
CountsFrom(newFront, counts) ==
  [video |-> counts.video - VideoCount(front, newFront - 1),
   audio |-> counts.audio - AudioCount(front, newFront - 1)]

\* The keyframe bookkeeping of queuePacket for a packet of this kind
GopAfter(kind) ==
  LET since == gop.since + 1 IN
  CASE kind = "audio" -> gop
    [] kind = "key"   -> [gop EXCEPT !.since = 0, !.max = IF @ = 0 THEN 1 ELSE @]
    [] kind = "delta" ->
         [since |-> since,
          max   |-> IF since > gop.max THEN since ELSE gop.max,
          over  |-> gop.over \/ (cfg.keep /\ cfg.max > 0 /\ since + 1 > cfg.max)]

\* Mutants of OverflowFront: trim to any video packet; trim one packet late
Mutant_OverflowAnywhere(counts) ==
  LET videos == Video(front + 1, Last) IN
  IF cfg.max > 0 /\ counts.video > cfg.max /\ videos # {} THEN Min(videos) ELSE front
Mutant_OverflowLate(counts) ==
  LET keys == Keys(front + 1, Last) IN
  IF cfg.max > 0 /\ counts.video > cfg.max + 1 /\ keys # {} THEN Min(keys) ELSE front

\* queuePacket, a full queue: the first video keyframe after the front and
\* before the packet just added becomes the front, if there is one
OverflowFront(counts) ==
  LET keys == Keys(front + 1, Last) IN
  IF cfg.max > 0 /\ counts.video > cfg.max /\ keys # {} THEN Min(keys) ELSE front

\* Mutant of TailCount: the packets behind the analysed one are not kept extra
Mutant_NoTail(p) == 0

\* clearPackets: the video packets queued behind the one being analysed
TailCount(p) == IF p < front THEN VideoCount(front, Last) ELSE VideoCount(p + 1, Last)

\* clearPackets when the front need not be a keyframe: drop packets while
\* enough video stays, no iterator is met and the analysed packet is not
TrimmedFront(p) ==
  LET ok(f) == /\ f # p
               /\ packet_counts.video - VideoCount(front, f - 1) > cfg.pre + TailCount(p)
               /\ BeforeIterators(f)
  IN Min({f \in front .. Last + 1 : f > Last \/ ~ok(f)})

\* clearPackets for passthrough: the keyframes its walk from the front can
\* make next_front.  The walk stops at the analysed packet, past the earliest
\* iterator, and after the video packet that leaves just enough.
NextFronts(p) ==
  {k \in Keys(front + 1, Last) :
     /\ ~(p \in front .. k)
     /\ \A q \in Pinned : k <= q
     /\ \A v \in Video(front + 1, k - 1) :
          packet_counts.video - VideoCount(front + 1, v) > cfg.pre + TailCount(p)}
NextFront(p) == IF NextFronts(p) = {} THEN front ELSE Max(NextFronts(p))

\* The keyframe intervals the same walk measures: the first from the front,
\* the others from a keyframe it counts in
IntervalsSeen(p) ==
  {LET before == Keys(front + 1, k - 1) IN
   IF before = {} THEN VideoCount(front + 1, k)
                  ELSE VideoCount(Max(before), k) : k \in NextFronts(p)}

\* Mutant of WalkBack: stops on the last packet it counts
Mutant_WalkBackShort(s, n, low) ==
  LET window == Video(low + 1, s) IN
  IF n = 0 THEN s
  ELSE IF Cardinality(window) >= n THEN NthLast(window, n) ELSE s

\* get_event_start_packet_it.  low is the oldest packet its walk back from s
\* may reach: the front, or the first packet that still has its decoded data
WalkBack(s, n, low) ==
  LET window == Video(low + 1, s) IN
  IF n = 0 THEN s
  ELSE IF Cardinality(window) >= n THEN NthLast(window, n) - 1 ELSE low

\* The walk stopped at low: the front is taken as it is, another packet is
\* left for the first keyframe up to s (start_on_keyframe)
StartAtLow(s, low) ==
  IF low = front \/ ~cfg.keep \/ Keys(low, s) = {} THEN low ELSE Min(Keys(low, s))

EventStart(s, n, boundary) ==
  LET low == Max({front, Min({s, boundary})})
      reached == WalkBack(s, n, low)
      keys == Keys(low + 1, reached)
  IN IF VideoCount(low, s) >= n /\ ~cfg.keep THEN reached
     ELSE IF VideoCount(low, s) >= n /\ keys # {} THEN Max(keys)
     ELSE StartAtLow(s, low)

\* Mutant of ReleaseBase: walks back from the newest packet
Mutant_ReleaseFromEnd == Last

\* releaseDecoded: walk back from the earliest iterator (or the newest packet)
\* over the pre-event window, as openEvent would
ReleaseBase == IF Pinned = {} THEN Last ELSE Min(Pinned)
ReleaseWindow == Video(front + 1, ReleaseBase)
PreEventStart == NthLast(ReleaseWindow, cfg.pre) - 1

\* Mutant of ReleaseBoundary: not back to a keyframe, and one packet too many
Mutant_ReleaseMidInterval == PreEventStart + 1

\* Everything before this position loses its decoded data
ReleaseBoundary ==
  LET keys == Keys(front + 1, PreEventStart) IN
  IF ~cfg.keep THEN PreEventStart
  ELSE IF keys = {} THEN front ELSE Max(keys)

\* Mutant of CapBoundary: no cap
Mutant_NoCap == 0

\* Passthrough with a limit: decoded data stays on the newest cfg.max video
\* packets, and on the pre-event window
CapBoundary ==
  LET newest == Video(front, Last)
      oldest_kept == NthLast(newest, cfg.max)
  IN IF cfg.keep /\ cfg.max > 0 /\ Cardinality(newest) >= cfg.max
       THEN IF oldest_kept < PreEventStart THEN oldest_kept ELSE PreEventStart
       ELSE 0

-----------------------------------------------------------------------------
(* Capture thread: Monitor::Load, PrimeCapture and Play, Capture, Pause *)

\* The setters clamp what the database holds
Loaded(s) ==
  [pre  |-> IF s.pre < 1 THEN 1 ELSE s.pre,
   max  |-> IF s.max < 0 THEN 0 ELSE s.max,
   keep |-> s.keep]

Init ==
  /\ pkts = <<>>
  /\ front = 1
  /\ iterators = {}
  /\ pos = [i \in Iterators |-> End]
  /\ packet_counts = [video |-> 0, audio |-> 0]
  /\ streams = 0
  /\ deleting = FALSE
  /\ \E s \in Settings : cfg = Loaded(s)
  /\ gop = [since |-> 0, max |-> 0, over |-> FALSE]
  /\ clear_packets_pending_ = FALSE
  /\ first_queue_index_ = 1
  /\ released_before_ = 0
  /\ capped_before_ = 0
  /\ hold = [i \in Iterators |-> 0]
  /\ step = "idle"
  /\ snap = 0
  /\ event = None
  /\ opening = None
  /\ closing = None

\* Reload, between Close and the next PrimeCapture
Reload(s) ==
  /\ streams = 0
  /\ cfg' = Loaded(s)
  /\ gop' = [gop EXCEPT !.over = FALSE]
  /\ UNCHANGED <<pkts, front, packet_counts, first_queue_index_, iterators, pos,
                 streams, deleting, clear_packets_pending_, boundaryVars, hold,
                 analysisVars, eventVars>>

\* PrimeCapture (and Play, which finds its iterators registered): addStream
\* for the video stream and perhaps an audio one, then get_video_it, which
\* finds the queue empty
PrimeCapture(n) ==
  /\ streams = 0
  /\ streams' = n
  /\ deleting' = FALSE
  /\ packet_counts' = [video |-> 0, audio |-> 0]
  /\ iterators' = iterators \cup {"analysis"} \cup (IF Decoding THEN {"decoder"} ELSE {})
  /\ UNCHANGED <<pkts, front, gop, first_queue_index_, pos, cfg,
                 clear_packets_pending_, boundaryVars, hold, analysisVars, eventVars>>

\* Capture queues audio only behind video or for an event; queuePacket wants
\* a keyframe first
Queueable(kind) ==
  /\ streams > 0 /\ ~deleting
  /\ kind = "audio" => streams = 2 /\ (packet_counts.video > 0 \/ event # None)
  /\ kind = "delta" => packet_counts.video > 0

QueuePacket(kind) ==
  /\ Queueable(kind)
  /\ Last < MaxPackets
  /\ LET counts == IF kind = "audio"
                     THEN [packet_counts EXCEPT !.audio = @ + 1]
                     ELSE [packet_counts EXCEPT !.video = @ + 1]
         moved == [i \in Iterators |-> IF i \in iterators /\ pos[i] = End
                                         THEN Last + 1 ELSE pos[i]]
         newFront == IF kind = "audio" THEN front ELSE OverflowFront(counts)
     IN /\ front' = newFront
        /\ packet_counts' = CountsFrom(newFront, counts)
        /\ pos' = BumpedTo(newFront, moved)
  /\ pkts' = Append(pkts, kind)
  /\ gop' = GopAfter(kind)
  /\ UNCHANGED <<first_queue_index_, iterators, streams, deleting, cfg,
                 clear_packets_pending_, boundaryVars, hold, analysisVars, eventVars>>

\* Pause stops the queue, joins the threads, closes the event and clears
Stop ==
  /\ streams > 0 /\ ~deleting
  /\ deleting' = TRUE
  /\ UNCHANGED <<queueVars, iterators, pos, streams, cfg, clear_packets_pending_,
                 boundaryVars, hold, analysisVars, eventVars>>

Joined == step = "idle" /\ \A t \in Threads : hold[t] = 0

PauseClosesEvent ==
  /\ deleting /\ Joined
  /\ event # None /\ closing = None
  /\ closing' = event
  /\ event' = None
  /\ UNCHANGED <<queueVars, iterators, pos, streams, deleting, cfg,
                 clear_packets_pending_, boundaryVars, hold, analysisVars>>

Clear ==
  /\ deleting /\ streams > 0
  /\ Joined /\ event = None /\ closing = None
  /\ front' = Last + 1
  /\ packet_counts' = CountsFrom(Last + 1, packet_counts)
  /\ pos' = [i \in Iterators |-> IF i \in iterators THEN End ELSE pos[i]]
  /\ streams' = 0
  /\ gop' = [gop EXCEPT !.max = 0, !.over = FALSE]
  /\ first_queue_index_' = Last + 1
  /\ UNCHANGED <<pkts, iterators, deleting, cfg, clear_packets_pending_,
                 boundaryVars, hold, analysisVars, eventVars>>

-----------------------------------------------------------------------------
(* The readers *)

\* increment_it(it, false): never past the end, never once stopped
Incremented(i) ==
  IF pos[i] = End \/ deleting THEN pos[i]
  ELSE IF pos[i] = Last THEN End ELSE pos[i] + 1

\* get_packet and get_packet_no_wait
CanGet(i) == i \in iterators /\ ~deleting /\ pos[i] # End /\ hold[i] = 0

\* The decoder thread, and an Event's thread while the Event lives
Readers == (IF Decoding THEN {"decoder"} ELSE {}) \cup ({event, closing} \ {None})

ReaderGet(r) ==
  /\ r \in Readers /\ CanGet(r)
  /\ hold' = [hold EXCEPT ![r] = pos[r]]
  /\ UNCHANGED <<queueVars, iterators, pos, streams, deleting, cfg,
                 clear_packets_pending_, boundaryVars, analysisVars, eventVars>>

\* The packet was dealt with: step over it
ReaderIncrement(r) ==
  /\ r \in Readers /\ hold[r] # 0
  /\ hold' = [hold EXCEPT ![r] = 0]
  /\ pos' = [pos EXCEPT ![r] = Incremented(r)]
  /\ UNCHANGED <<queueVars, iterators, streams, deleting, cfg,
                 clear_packets_pending_, boundaryVars, analysisVars, eventVars>>

\* Not decoded, not analysed, or the codec's input is full: try it again
ReaderRetry(r) ==
  /\ r \in Readers /\ hold[r] # 0
  /\ hold' = [hold EXCEPT ![r] = 0]
  /\ UNCHANGED <<queueVars, iterators, pos, streams, deleting, cfg,
                 clear_packets_pending_, boundaryVars, analysisVars, eventVars>>

\* close_event_thread: ~Event joins Event::Run and frees its iterator
FreeIt ==
  /\ closing # None /\ hold[closing] = 0
  /\ iterators' = iterators \ {closing}
  /\ pos' = [pos EXCEPT ![closing] = End]
  /\ closing' = None
  /\ UNCHANGED <<queueVars, streams, deleting, cfg, clear_packets_pending_,
                 boundaryVars, hold, analysisVars, event>>

-----------------------------------------------------------------------------
(* The analysis thread: Monitor::Analyse *)

Analysed == hold["analysis"]
AfterEvents == IF IsVideo(Analysed) THEN "clear" ELSE "increment"

AnalyseGet ==
  /\ step = "idle" /\ CanGet("analysis")
  /\ hold' = [hold EXCEPT !["analysis"] = pos["analysis"]]
  /\ step' = "analyse"
  /\ UNCHANGED <<queueVars, iterators, pos, streams, deleting, cfg,
                 clear_packets_pending_, boundaryVars, snap, opening, eventVars>>

\* The decode gate: give the packet back and come again
AnalyseRetry ==
  /\ step = "analyse" /\ Decoding /\ IsVideo(Analysed)
  /\ hold' = [hold EXCEPT !["analysis"] = 0]
  /\ step' = "idle"
  /\ UNCHANGED <<queueVars, iterators, pos, streams, deleting, cfg,
                 clear_packets_pending_, boundaryVars, snap, opening, eventVars>>

\* closeEvent, which first joins the thread closing the previous event
CloseEvent ==
  /\ step = "analyse" /\ event # None /\ closing = None
  /\ closing' = event
  /\ event' = None
  /\ UNCHANGED <<queueVars, iterators, pos, streams, deleting, cfg,
                 clear_packets_pending_, boundaryVars, hold, analysisVars>>

NoEventWork ==
  /\ step = "analyse"
  /\ step' = AfterEvents
  /\ UNCHANGED <<queueVars, iterators, pos, streams, deleting, cfg,
                 clear_packets_pending_, boundaryVars, hold, snap, opening, eventVars>>

\* openEvent evaluates *analysis_it before get_event_start_packet_it locks
ReadAnalysisIt ==
  /\ step = "analyse" /\ event = None
  /\ snap' = pos["analysis"]
  /\ step' = "open"
  /\ UNCHANGED <<queueVars, iterators, pos, streams, deleting, cfg,
                 clear_packets_pending_, boundaryVars, hold, opening, eventVars>>

\* get_event_start_packet_it registers the event's iterator.  n is 0 for a
\* continuous event, else the pre-event window
GetEventStart(e, n) ==
  /\ step = "open" /\ snap >= front
  /\ e \notin iterators
  /\ iterators' = iterators \cup {e}
  /\ pos' = [pos EXCEPT ![e] = EventStart(snap, n, released_before_)]
  /\ opening' = e
  /\ step' = "opened"
  /\ UNCHANGED <<queueVars, streams, deleting, cfg, clear_packets_pending_,
                 boundaryVars, hold, snap, eventVars>>

\* The packet snap points at was erased in between: reading it is undefined.
\* The process is gone with everything it queued, and zmdc starts it again;
\* positions go on counting.
StaleSnapshot ==
  /\ step = "open" /\ snap < front
  /\ front' = Last + 1
  /\ first_queue_index_' = Last + 1
  /\ iterators' = {}
  /\ pos' = [i \in Iterators |-> End]
  /\ packet_counts' = [video |-> 0, audio |-> 0]
  /\ streams' = 0
  /\ gop' = [since |-> 0, max |-> 0, over |-> FALSE]
  /\ clear_packets_pending_' = FALSE
  /\ released_before_' = 0
  /\ capped_before_' = 0
  /\ hold' = [i \in Iterators |-> 0]
  /\ step' = "idle"
  /\ snap' = 0
  /\ event' = None
  /\ closing' = None
  /\ UNCHANGED <<pkts, deleting, cfg, opening>>

\* openEvent locks the first packet, unless it is the analysed one, and makes
\* the Event
StartEvent ==
  /\ step = "opened"
  /\ ~deleting \/ pos[opening] = pos["analysis"]
  /\ event' = opening
  /\ opening' = None
  /\ snap' = 0
  /\ step' = AfterEvents
  /\ UNCHANGED <<queueVars, iterators, pos, streams, deleting, cfg,
                 clear_packets_pending_, boundaryVars, hold, closing>>

\* A stopped queue gives no first packet: openEvent frees the iterator again
NoStartingPacket ==
  /\ step = "opened" /\ deleting
  /\ iterators' = iterators \ {opening}
  /\ pos' = [pos EXCEPT ![opening] = End]
  /\ opening' = None
  /\ snap' = 0
  /\ step' = AfterEvents
  /\ UNCHANGED <<queueVars, streams, deleting, cfg, clear_packets_pending_,
                 boundaryVars, hold, eventVars>>

\* should_try_clear, then clearPackets
TryClear == ~cfg.keep \/ IsKey(Analysed) \/ clear_packets_pending_
ClearGuard == cfg.keep => packet_counts.video > cfg.pre /\ front # Analysed

ClearTo(newFront) ==
  /\ front' = newFront
  /\ packet_counts' = CountsFrom(newFront, packet_counts)
  /\ clear_packets_pending_' = (newFront = front)

ClearPackets ==
  /\ step = "clear"
  /\ step' = "release"
  /\ IF ~TryClear \/ deleting \/ ~ClearGuard
       THEN UNCHANGED <<front, packet_counts, gop, clear_packets_pending_>>
     ELSE IF ~cfg.keep
       THEN ClearTo(TrimmedFront(Analysed)) /\ UNCHANGED gop
     ELSE IF ~BeforeIterators(front)
       THEN /\ clear_packets_pending_' = TRUE
            /\ UNCHANGED <<front, packet_counts, gop>>
     ELSE /\ ClearTo(NextFront(Analysed))
          /\ gop' = [gop EXCEPT !.max = Max({@} \cup IntervalsSeen(Analysed))]
  /\ UNCHANGED <<pkts, first_queue_index_, iterators, pos, streams, deleting, cfg,
                 boundaryVars, hold, snap, opening, eventVars>>

ReleaseDecoded ==
  /\ step = "release"
  /\ step' = "increment"
  /\ IF deleting \/ Empty \/ Cardinality(ReleaseWindow) < cfg.pre
       THEN UNCHANGED boundaryVars
       ELSE /\ released_before_' = Max({released_before_, ReleaseBoundary})
            /\ capped_before_' = Max({capped_before_, CapBoundary})
  /\ UNCHANGED <<queueVars, iterators, pos, streams, deleting, cfg,
                 clear_packets_pending_, hold, snap, opening, eventVars>>

AnalyseIncrement ==
  /\ step = "increment"
  /\ step' = "idle"
  /\ hold' = [hold EXCEPT !["analysis"] = 0]
  /\ pos' = [pos EXCEPT !["analysis"] = Incremented("analysis")]
  /\ UNCHANGED <<queueVars, iterators, streams, deleting, cfg,
                 clear_packets_pending_, boundaryVars, snap, opening, eventVars>>

-----------------------------------------------------------------------------
Capture ==
  \/ \E s \in Settings : Reload(s)
  \/ \E n \in Cameras : PrimeCapture(n)
  \/ \E kind \in {"key", "delta", "audio"} : QueuePacket(kind)
  \/ Stop \/ PauseClosesEvent \/ Clear
Analysis ==
  \/ AnalyseGet \/ AnalyseRetry \/ CloseEvent \/ NoEventWork \/ ReadAnalysisIt
  \/ \E e \in Events : \E n \in {0, cfg.pre} : GetEventStart(e, n)
  \/ StaleSnapshot \/ StartEvent \/ NoStartingPacket
  \/ ClearPackets \/ ReleaseDecoded \/ AnalyseIncrement
Reader ==
  \/ \E r \in Iterators : ReaderGet(r) \/ ReaderIncrement(r) \/ ReaderRetry(r)
  \/ FreeIt

Next == Capture \/ Analysis \/ Reader
Spec == Init /\ [][Next]_vars

-----------------------------------------------------------------------------
(* Properties *)

\* Every variable keeps its type.
TypeOK ==
  /\ pkts \in Seq({"key", "delta", "audio"})
  /\ front \in 1 .. Last + 1
  /\ iterators \subseteq Iterators
  /\ pos \in [Iterators -> Nat]
  /\ packet_counts \in [video: Nat, audio: Nat]
  /\ streams \in 0 .. 2
  /\ deleting \in BOOLEAN
  /\ cfg \in [pre: Nat \ {0}, max: Nat, keep: BOOLEAN]
  /\ gop \in [since: Nat, max: Nat, over: BOOLEAN]
  /\ clear_packets_pending_ \in BOOLEAN
  /\ first_queue_index_ \in 1 .. Last + 1
  /\ released_before_ \in Nat
  /\ capped_before_ \in Nat
  /\ hold \in [Iterators -> Nat]
  /\ step \in {"idle", "analyse", "open", "opened", "clear", "release", "increment"}
  /\ snap \in Nat
  /\ event \in Events \cup {None}
  /\ opening \in Events \cup {None}
  /\ closing \in Events \cup {None}

\* packet_counts, kept by increments and decrements spread over queuePacket,
\* deletePacket, clearPackets and clear, is always what the queue holds.
CountsExact ==
  /\ packet_counts.video = VideoCount(front, Last)
  /\ packet_counts.audio = AudioCount(front, Last)

\* "PacketQueue must know about all iterators and manage them": whatever is
\* trimmed or overflowed, a registered iterator points at a queued packet or
\* at the end, never at an erased one.
IteratorsValid ==
  \A i \in iterators : pos[i] = End \/ pos[i] \in front .. Last

\* Passthrough: the queue starts with a video keyframe, so that an event that
\* reaches back to its front can be written.
FrontIsKeyframe == cfg.keep /\ ~Empty => IsKey(front)

\* A packet the analysis thread works on may be overflowed away under it.
\* Then analysis_it is at the front, which is what keeps the walk of
\* clearPackets, whose end is that packet, from running off the queue.
ErasedPacketIsBehindFront ==
  step # "idle" /\ Analysed < front => pos["analysis"] = front

\* A reader never meets a packet whose decoded data releaseDecoded has freed:
\* every registered iterator stays on or behind the boundary, the iterator of
\* an event that is only now being opened too.
ReadersKeepDecodedData ==
  \A i \in iterators : pos[i] # End => pos[i] >= released_before_

\* get_event_start_packet_it: "With the window unchanged the walk never gets
\* that far".  The start of an event is the one it would have if nothing had
\* been released.
ReleaseKeepsEventStart ==
  step = "open" /\ snap >= front =>
    \A n \in {0, cfg.pre} :
      EventStart(snap, n, released_before_) = EventStart(snap, n, 0)

\* An event opens with its whole pre-event window, or with all there is; in
\* passthrough it opens on a keyframe; and it never opens earlier than that
\* needs.
EventOpensOnWindow ==
  [][\A e \in Events, n \in {0, cfg.pre} :
       GetEventStart(e, n) =>
         LET start == pos'[e] IN
         /\ start \in front .. snap
         /\ VideoCount(start, snap) >= n \/ start = front
         /\ cfg.keep => IsKey(start)
         /\ \A later \in start + 1 .. snap :
              (cfg.keep => IsKey(later)) => VideoCount(later + 1, snap) < n]_vars

\* Trimming never eats into the pre-event window of the packet under analysis
\* nor removes a packet an iterator has yet to read.  Passthrough may, when it
\* drops a single keyframe from the front: clearPackets takes the next keyframe
\* as the new front before it looks at what is left.
TrimLeavesWindow ==
  [][ClearPackets /\ front' # front =>
       /\ \A i \in iterators : pos[i] # End => front' <= pos[i]
       /\ \/ VideoCount(front', Analysed) >= cfg.pre
          \/ cfg.keep /\ Video(front + 1, front' - 1) = {}]_vars

\* Passthrough: a queue above MaxImageBufferCount cannot be trimmed further.
\* All that follows its front belongs to one keyframe interval, apart from a
\* keyframe that just arrived, and such an interval has been reported.
OverLimitIsOneInterval ==
  cfg.keep /\ cfg.max > 0 /\ packet_counts.video > cfg.max =>
    /\ \A k \in Keys(front + 1, Last) : Video(k + 1, Last) = {}
    /\ Keys(front + 1, Last) = {} => gop.over

\* Passthrough: releaseDecoded bounds the decoded copies by
\* MaxImageBufferCount, or by what the slowest reader and its pre-event window
\* still need.
DecodedDataBounded ==
  [][ReleaseDecoded /\ cfg.keep /\ cfg.max > 0 /\ ~deleting =>
       LET kept == Max({released_before_', capped_before_', front}) IN
       \/ VideoCount(kept, Last) <= cfg.max
       \/ VideoCount(kept + 1, ReleaseBase) <= cfg.pre]_vars

-----------------------------------------------------------------------------
(* The inductive invariant *)

\* What the threads know of the queue: the analysis thread in the middle of
\* Analyse has its iterator on a queued packet, the one it holds if that is
\* still queued; a queue that is not empty holds video; after clear() it is empty, with
\* every iterator at its end.
ThreadsCoherent ==
  /\ step = "idle" <=> Analysed = 0
  /\ step # "idle" => /\ "analysis" \in iterators
                      /\ pos["analysis"] # End
                      /\ Analysed >= front => pos["analysis"] = Analysed
  /\ step = "open" => snap \in Analysed .. pos["analysis"]
  /\ ~Empty => packet_counts.video > 0
  /\ event # None => ~Empty
  /\ streams = 0 => Empty /\ step = "idle"
  /\ \A i \in Iterators : i \notin iterators => pos[i] = End

QueueInv ==
  /\ TypeOK
  /\ CountsExact
  /\ IteratorsValid
  /\ FrontIsKeyframe
  /\ ErasedPacketIsBehindFront
  /\ ThreadsCoherent

-----------------------------------------------------------------------------
(* What comments in the code say and the code does not do *)

\* "PacketQueue must know about all iterators and manage them": the copy of
\* analysis_it that openEvent hands over points at a queued packet.
SnapshotQueued == step = "open" => snap >= front

\* Event::Run: "process the queue no matter what so that all packets get
\* processed".  An event's thread steps only over the packet it has written.
EventStepsOverWritten ==
  [][\A e \in Events : ReaderIncrement(e) => pos[e] = hold[e] \/ pos'[e] = pos[e]]_vars

=============================================================================
