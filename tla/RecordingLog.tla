---------------------------- MODULE RecordingLog ----------------------------
(***************************************************************************)
(* What zmc promises about a packet on its way into a recording, whatever  *)
(* its threads do: the queue is a log that grows at its end and is cut at  *)
(* its front.  A packet is decoded and analysed once and stays so.  The    *)
(* analysis and every event that records read it one packet at a time;     *)
(* an event passes a packet only when it is complete.  Packets are cut off *)
(* under a reader by an overflow or at the end of a capture session alone, *)
(* and an overflow costs a reader at most the packet it was moved to.      *)
(* Handoff implements this log.                                            *)
(***************************************************************************)
EXTENDS Integers, Sequences, FiniteSets

CONSTANTS
  Readers,    \* the events
  Limit       \* packets the log holds

VARIABLES
  log,        \* the packets
  next,       \* what each event reads next; 0 for one that is not recording
  moved       \* events whose packet an overflow took while they had it

vars == <<log, next, moved>>

Packets == [decoded : BOOLEAN, analyzed : BOOLEAN]
New == [decoded |-> FALSE, analyzed |-> FALSE]
Complete(p) == p.decoded /\ p.analyzed

Init == log = <<>> /\ next = [r \in Readers |-> 0] /\ moved = {}

\* A packet is captured; a full log loses its first one, also under readers
Capture ==
  LET n == IF Len(log) + 1 > Limit THEN 1 ELSE 0
  IN /\ log' = SubSeq(Append(log, New), n + 1, Len(log) + 1)
     /\ next' = [r \in Readers |-> IF next[r] > 1 THEN next[r] - n ELSE next[r]]
     /\ moved \subseteq moved'
     /\ moved' \subseteq moved \cup {r \in Readers : n = 1 /\ next[r] = 1}

\* Packets make progress, never the other way
Progress ==
  /\ Len(log') = Len(log)
  /\ \A i \in DOMAIN log :
        /\ log'[i] \in Packets
        /\ log[i].decoded => log'[i].decoded
        /\ log[i].analyzed => log'[i].analyzed
  /\ UNCHANGED <<next, moved>>

\* Packets no event needs are cut off
Trim ==
  \E n \in 1 .. Len(log) :
    /\ \A r \in Readers : next[r] = 0 \/ next[r] > n
    /\ log' = SubSeq(log, n + 1, Len(log))
    /\ next' = [r \in Readers |-> IF next[r] = 0 THEN 0 ELSE next[r] - n]
    /\ UNCHANGED moved

Begin(r) ==
  /\ next[r] = 0
  /\ \E i \in DOMAIN log : next' = [next EXCEPT ![r] = i]
  /\ UNCHANGED <<log, moved>>

\* The packet has been written
Write(r) ==
  /\ next[r] \in DOMAIN log
  /\ Complete(log[next[r]]) \/ r \in moved
  /\ next' = [next EXCEPT ![r] = @ + 1]
  /\ moved' = moved \ {r}
  /\ UNCHANGED log

GiveUp(r) == moved' = moved \ {r} /\ UNCHANGED <<log, next>>

End(r) ==
  /\ next' = [next EXCEPT ![r] = 0] /\ moved' = moved \ {r}
  /\ UNCHANGED log

\* The capture session is over: nobody records
Reset ==
  /\ \A r \in Readers : next[r] = 0
  /\ log' = <<>> /\ UNCHANGED <<next, moved>>

Next ==
  \/ Capture
  \/ Progress
  \/ Trim
  \/ \E r \in Readers : Begin(r) \/ Write(r) \/ GiveUp(r) \/ End(r)
  \/ Reset

Spec == Init /\ [][Next]_vars
=============================================================================
