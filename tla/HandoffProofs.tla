--------------------------- MODULE HandoffProofs ---------------------------
(***************************************************************************)
(* Proofs about Handoff, for any set of events, size of the queue, length  *)
(* of the pre-event window and depth of the codec.                         *)
(***************************************************************************)
EXTENDS Handoff, IntegerSets, SequenceTheorems, TLAPS

-----------------------------------------------------------------------------
(* The inductive invariant.                                                *)

Packets == [decoded : BOOLEAN, analyzed : BOOLEAN, lock : Threads \cup {Free}]

\* The decoder has a packet only while it works on one, and room in the codec
\* for it; it has ended before the analysis is joined
DecoderInv ==
  /\ cur["decoder"] # 0 => pc["decoder"] \in {"work", "convert", "unlock"}
  /\ pc["decoder"] \in {"get", "work"} => Len(held) <= DecoderQueueLimit
  /\ main \in {"joinAnalysis", "joinClose", "clear", "paused"} => pc["decoder"] = "off"

\* Where the analysis thread has a packet in work that it has not passed yet
AtPacket == {"work", "close", "open", "start", "create", "opened", "clear", "analyzed",
             "increment"}

\* The analysis thread has its packets where it needs them, its iterator is
\* on a packet until it moves on, and no event is recording while it opens one
AnalysisInv ==
  /\ cur["analysis"] # 0 => pc["analysis"] \in AtPacket \cup {"unlock"}
  /\ cur["start"] # 0 => pc["analysis"] \in {"create", "opened"}
  /\ pc["analysis"] \in AtPacket => it["analysis"] <= Len(q)
  /\ pc["analysis"] \in {"open", "start", "create"} => event = NoEvent
  /\ main \in {"joinClose", "clear", "paused"} => pc["analysis"] = "off"
  /\ main \in {"clear", "paused"} => event = NoEvent /\ closing = NoEvent

\* The events that have an iterator are the one that records, the one being
\* closed and the one being opened, three different ones
RolesInv ==
  /\ \A e \in Events :
        /\ e \in {event, closing} => it[e] # 0
        /\ it[e] # 0 => e \in {event, closing} \/ pc["analysis"] \in {"start", "create"}
        /\ pc[e] # "off" => e \in {event, closing}
  /\ event = closing => event = NoEvent
  /\ \A d, e \in Opening : d = e

\* An event that has a packet has it at its iterator, or has been moved off it
EventsInv ==
  \A e \in Events :
    /\ cur[e] # 0 => pc[e] \in {"check", "write", "unlock"}
    /\ pc[e] \in {"check", "write"} => it[e] \in 1 .. Len(q) /\ cur[e] \in {0, it[e]}
    /\ (pc[e] = "write" /\ cur[e] # 0) => Complete(q[cur[e]])

\* What a thread has in hand it has locked: WorkIsExclusive, thread by thread.
\* No packet is in the codec twice, or there and in the decoder's hand; the two
\* packets of openEvent differ
HandsInv ==
  /\ cur["decoder"] # 0 => q[cur["decoder"]].lock = "decoder"
  /\ \A j \in DOMAIN held : held[j] # 0 => q[held[j]].lock = "decoder"
  /\ \A j, k \in DOMAIN held : j # k /\ held[j] # 0 => held[j] # held[k]
  /\ \A j \in DOMAIN held : held[j] # 0 => held[j] # cur["decoder"]
  /\ \A e \in Events : cur[e] # 0 => q[cur[e]].lock = e
  /\ cur["start"] # 0 => q[cur["start"]].lock = "analysis"
  /\ (cur["analysis"] # 0 /\ pc["analysis"] \in {"work", "close", "open", "start", "create"})
       => q[cur["analysis"]].lock = "analysis"
  /\ (cur["start"] # 0 /\ pc["analysis"] = "create") => cur["start"] # cur["analysis"]

HandoffInv ==
  /\ TypeOK /\ LocksHaveHolders /\ HandsInv /\ NobodySleepsThroughStop
  /\ DecoderInv /\ AnalysisInv /\ RolesInv /\ EventsInv

-----------------------------------------------------------------------------
(* The packets.                                                            *)

\* The names of the threads.
LEMMA ThreadNames ==
  /\ "decoder" \in Threads /\ "analysis" \in Threads /\ Events \subseteq Threads
  /\ \A e \in Events : e # "decoder" /\ e # "analysis" /\ e # "start" /\ e # NoEvent /\ e # Free
  /\ "start" \notin Threads /\ Free \notin Threads
  /\ \A t \in Threads : t = "decoder" \/ t = "analysis" \/ t \in Events
BY EventsAssumption DEF Threads, NoEvent, Free

\* A queue whose packets are changed in place stays a queue of that length.
LEMMA ChangedQueue ==
  ASSUME q \in Seq(Packets), NEW r, r = [i \in DOMAIN q |-> r[i]],
         \A i \in DOMAIN q : r[i] \in Packets
  PROVE  r \in Seq(Packets) /\ Len(r) = Len(q) /\ DOMAIN r = DOMAIN q
<1>1. Len(q) \in Nat /\ DOMAIN q = 1 .. Len(q)
  OBVIOUS
<1>2. r \in [1 .. Len(q) -> Packets]
  BY <1>1
<1> QED
  BY <1>1, <1>2

\* Unlocking releases the owner's locks in S and nothing else.
LEMMA UnlockedFacts ==
  ASSUME q \in Seq(Packets), NEW owner, NEW S
  PROVE  /\ Unlocked(owner, S) \in Seq(Packets)
         /\ Len(Unlocked(owner, S)) = Len(q) /\ DOMAIN Unlocked(owner, S) = DOMAIN q
         /\ \A i \in DOMAIN q :
              /\ Unlocked(owner, S)[i].decoded = q[i].decoded
              /\ Unlocked(owner, S)[i].analyzed = q[i].analyzed
              /\ Unlocked(owner, S)[i].lock =
                   IF i \in S /\ q[i].lock = owner THEN Free ELSE q[i].lock
<1> DEFINE r == Unlocked(owner, S)
<1>1. r = [i \in DOMAIN q |-> IF i \in S THEN (IF q[i].lock = owner
                                               THEN [q[i] EXCEPT !.lock = Free] ELSE q[i])
                              ELSE q[i]]
  BY DEF Unlocked, Mapped
<1>2. \A i \in DOMAIN q : q[i] \in Packets
  OBVIOUS
<1>3. \A i \in DOMAIN q : r[i] = IF i \in S /\ q[i].lock = owner
                                 THEN [q[i] EXCEPT !.lock = Free] ELSE q[i]
  BY <1>1
<1>4. r = [i \in DOMAIN q |-> r[i]]
  BY <1>1
<1> HIDE DEF r
<1>5. \A i \in DOMAIN q : /\ r[i] \in Packets
                          /\ r[i].decoded = q[i].decoded /\ r[i].analyzed = q[i].analyzed
                          /\ r[i].lock = IF i \in S /\ q[i].lock = owner
                                         THEN Free ELSE q[i].lock
  BY <1>2, <1>3 DEF Packets
<1>6. r \in Seq(Packets) /\ Len(r) = Len(q) /\ DOMAIN r = DOMAIN q
  BY <1>4, <1>5, ChangedQueue
<1> QED
  BY <1>5, <1>6 DEF r

\* Locking gives one packet to its new owner.
LEMMA LockedFacts ==
  ASSUME q \in Seq(Packets), NEW owner \in Threads, NEW k
  PROVE  /\ Locked(owner, k) \in Seq(Packets)
         /\ Len(Locked(owner, k)) = Len(q) /\ DOMAIN Locked(owner, k) = DOMAIN q
         /\ \A i \in DOMAIN q :
              /\ Locked(owner, k)[i].decoded = q[i].decoded
              /\ Locked(owner, k)[i].analyzed = q[i].analyzed
              /\ Locked(owner, k)[i].lock = IF i = k THEN owner ELSE q[i].lock
<1> DEFINE r == Locked(owner, k)
<1>1. r = [i \in DOMAIN q |-> IF i \in {k} THEN [q[i] EXCEPT !.lock = owner] ELSE q[i]]
  BY DEF Locked, Mapped
<1>2. \A i \in DOMAIN q : q[i] \in Packets
  OBVIOUS
<1>3. \A i \in DOMAIN q : r[i] = IF i = k THEN [q[i] EXCEPT !.lock = owner] ELSE q[i]
  BY <1>1
<1>4. r = [i \in DOMAIN q |-> r[i]]
  BY <1>1
<1> HIDE DEF r
<1>5. \A i \in DOMAIN q : /\ r[i] \in Packets
                          /\ r[i].decoded = q[i].decoded /\ r[i].analyzed = q[i].analyzed
                          /\ r[i].lock = IF i = k THEN owner ELSE q[i].lock
  BY <1>2, <1>3 DEF Packets
<1>6. r \in Seq(Packets) /\ Len(r) = Len(q) /\ DOMAIN r = DOMAIN q
  BY <1>4, <1>5, ChangedQueue
<1> QED
  BY <1>5, <1>6 DEF r

\* What leaves the codec is decoded and unlocked.
LEMMA ReleasedFacts ==
  ASSUME q \in Seq(Packets), NEW S
  PROVE  /\ Released(S) \in Seq(Packets)
         /\ Len(Released(S)) = Len(q) /\ DOMAIN Released(S) = DOMAIN q
         /\ \A i \in DOMAIN q :
              /\ Released(S)[i].decoded = (i \in S \/ q[i].decoded)
              /\ Released(S)[i].analyzed = q[i].analyzed
              /\ Released(S)[i].lock = IF i \in S THEN Free ELSE q[i].lock
<1> DEFINE r == Released(S)
<1>1. r = [i \in DOMAIN q |-> IF i \in S THEN [q[i] EXCEPT !.decoded = TRUE, !.lock = Free]
                              ELSE q[i]]
  BY DEF Released, Mapped
<1>2. \A i \in DOMAIN q : q[i] \in Packets
  OBVIOUS
<1>3. \A i \in DOMAIN q : r[i] = IF i \in S THEN [q[i] EXCEPT !.decoded = TRUE, !.lock = Free]
                                 ELSE q[i]
  BY <1>1
<1>4. r = [i \in DOMAIN q |-> r[i]]
  BY <1>1
<1> HIDE DEF r
<1>5. \A i \in DOMAIN q : /\ r[i] \in Packets
                          /\ r[i].decoded = (i \in S \/ q[i].decoded)
                          /\ r[i].analyzed = q[i].analyzed
                          /\ r[i].lock = IF i \in S THEN Free ELSE q[i].lock
  BY <1>2, <1>3 DEF Packets
<1>6. r \in Seq(Packets) /\ Len(r) = Len(q) /\ DOMAIN r = DOMAIN q
  BY <1>4, <1>5, ChangedQueue
<1> QED
  BY <1>5, <1>6 DEF r

\* The image of one packet is ready, or it has been analysed.
LEMMA ProgressFacts ==
  ASSUME q \in Seq(Packets), NEW k, NEW r,
         \/ r = Mapped({k}, LAMBDA p : [p EXCEPT !.decoded = TRUE])
         \/ r = Mapped({k}, LAMBDA p : [p EXCEPT !.analyzed = TRUE])
  PROVE  /\ r \in Seq(Packets) /\ Len(r) = Len(q) /\ DOMAIN r = DOMAIN q
         /\ \A i \in DOMAIN q : /\ q[i].decoded => r[i].decoded
                                /\ q[i].analyzed => r[i].analyzed
                                /\ r[i].lock = q[i].lock
<1>1. \/ r = [i \in DOMAIN q |-> IF i \in {k} THEN [q[i] EXCEPT !.decoded = TRUE] ELSE q[i]]
      \/ r = [i \in DOMAIN q |-> IF i \in {k} THEN [q[i] EXCEPT !.analyzed = TRUE] ELSE q[i]]
  BY DEF Mapped
<1>2. \A i \in DOMAIN q : q[i] \in Packets
  OBVIOUS
<1>3. \A i \in DOMAIN q : \/ r[i] = q[i]
                          \/ r[i] = [q[i] EXCEPT !.decoded = TRUE]
                          \/ r[i] = [q[i] EXCEPT !.analyzed = TRUE]
  BY <1>1
<1>4. r = [i \in DOMAIN q |-> r[i]]
  BY <1>1
<1>5. \A i \in DOMAIN q : /\ r[i] \in Packets
                          /\ q[i].decoded => r[i].decoded
                          /\ q[i].analyzed => r[i].analyzed
                          /\ r[i].lock = q[i].lock
  BY <1>2, <1>3, ZenonT(60) DEF Packets
<1>6. r \in Seq(Packets) /\ Len(r) = Len(q) /\ DOMAIN r = DOMAIN q
  BY <1>4, <1>5, ChangedQueue
<1> QED
  BY <1>5, <1>6

-----------------------------------------------------------------------------
(* Erasing from the front.                                                 *)

\* Where everything is after n packets were erased from the front of packets,
\* which is the queue or the queue with one packet more.
LEMMA EraseFacts ==
  ASSUME TypeOK, NEW packets \in Seq(Packets), NEW n \in 0 .. Len(packets), Erase(n, packets)
  PROVE  /\ q' \in Seq(Packets) /\ Len(q') = Len(packets) - n
         /\ \A i \in DOMAIN q' : i + n \in DOMAIN packets /\ q'[i] = packets[i + n]
         /\ DOMAIN it' = Threads /\ DOMAIN cur' = Threads \cup {"start"}
         /\ \A t \in Threads :
              it'[t] = IF it[t] = 0 THEN 0 ELSE IF it[t] <= n THEN 1 ELSE it[t] - n
         /\ \A t \in Threads \cup {"start"} :
              cur'[t] = IF cur[t] <= n THEN 0 ELSE cur[t] - n
         /\ Len(held') = Len(held) /\ DOMAIN held' = DOMAIN held
         /\ \A j \in DOMAIN held : held'[j] = IF held[j] <= n THEN 0 ELSE held[j] - n
<1>1. q \in Seq(Packets) /\ it \in [Threads -> 0 .. Len(q) + 1]
      /\ cur \in [Threads \cup {"start"} -> 0 .. Len(q)] /\ held \in Seq(0 .. Len(q))
  BY DEF TypeOK, Packets
<1>2. Len(packets) \in Nat /\ Len(q) \in Nat /\ n \in Nat
  BY <1>1
<1>3. q' \in Seq(Packets) /\ Len(q') = Len(packets) - n
      /\ \A i \in 1 .. Len(packets) - n : q'[i] = packets[i + n]
  <2>1. q' = SubSeq(packets, n + 1, Len(packets))
    BY DEF Erase
  <2>2. \A i \in n + 1 .. Len(packets) : packets[i] \in Packets
    BY <1>2
  <2> QED
    BY <1>2, <2>1, <2>2, SubSeqProperties
<1>4. \A i \in DOMAIN q' : i + n \in DOMAIN packets /\ q'[i] = packets[i + n]
  BY <1>2, <1>3
<1>5. DOMAIN it' = Threads /\
      \A t \in Threads : it'[t] = IF it[t] = 0 THEN 0 ELSE IF it[t] <= n THEN 1 ELSE it[t] - n
  <2>1. it' = [t \in Threads |-> IF it[t] = 0 THEN 0 ELSE Max({1, it[t] - n})]
    BY DEF Erase
  <2>2. \A t \in Threads : Max({1, it[t] - n}) = IF 1 >= it[t] - n THEN 1 ELSE it[t] - n
    <3>1. TAKE t \in Threads
    <3>2. it[t] - n \in Int
      BY <1>1, <1>2
    <3> QED
      BY <3>2, MaxOfPair
  <2>3. \A t \in Threads : it[t] \in Int
    BY <1>1
  <2>4. \A t \in Threads : it'[t] = IF it[t] = 0 THEN 0 ELSE Max({1, it[t] - n})
    BY <2>1
  <2>5. \A t \in Threads : (1 >= it[t] - n) <=> (it[t] <= n + 1)
    BY <1>2, <2>3
  <2>6. \A t \in Threads : it[t] = n + 1 => it[t] - n = 1
    BY <1>2, <2>3
  <2>7. \A t \in Threads : it[t] <= n + 1 <=> it[t] <= n \/ it[t] = n + 1
    BY <1>2, <2>3
  <2>8. DOMAIN it' = Threads
    BY <2>1
  <2> QED
    BY <2>2, <2>4, <2>5, <2>6, <2>7, <2>8
<1>6. DOMAIN cur' = Threads \cup {"start"} /\
      \A t \in Threads \cup {"start"} : cur'[t] = IF cur[t] <= n THEN 0 ELSE cur[t] - n
  BY <1>1 DEF Erase, Erased
<1>7. Len(held') = Len(held) /\ DOMAIN held' = DOMAIN held
      /\ \A j \in DOMAIN held : held'[j] = IF held[j] <= n THEN 0 ELSE held[j] - n
  <2>1. held' = [j \in DOMAIN held |-> Erased(n, held[j])] /\ DOMAIN held = 1 .. Len(held)
        /\ Len(held) \in Nat
    BY <1>1 DEF Erase
  <2> QED
    BY <2>1 DEF Erased
<1> QED
  BY <1>3, <1>4, <1>5, <1>6, <1>7

\* Erasing moves what a thread works on along with its packet: whoever has a
\* queued packet in hand has it after that, locked or not as it was.
LEMMA EraseKeepsHands ==
  ASSUME HandoffInv, NEW packets \in Seq(Packets), NEW n \in 0 .. Len(packets),
         Erase(n, packets), Len(q) <= Len(packets),
         \A i \in DOMAIN q : packets[i] = q[i],
         \A i \in DOMAIN packets : i \notin DOMAIN q => packets[i].lock = Free,
         pc' = pc \/ pc'["analysis"] = "analyzed"
  PROVE  LocksHaveHolders' /\ HandsInv'
<1>1. q \in Seq(Packets) /\ it \in [Threads -> 0 .. Len(q) + 1]
      /\ cur \in [Threads \cup {"start"} -> 0 .. Len(q)] /\ held \in Seq(0 .. Len(q))
      /\ Len(packets) \in Nat /\ n \in Nat
  BY DEF HandoffInv, TypeOK, Packets
<1>2. /\ Len(q') = Len(packets) - n /\ DOMAIN q' = 1 .. Len(q')
      /\ \A i \in DOMAIN q' : i + n \in DOMAIN packets /\ q'[i] = packets[i + n]
      /\ \A t \in Threads \cup {"start"} :
              cur'[t] = IF cur[t] <= n THEN 0 ELSE cur[t] - n
      /\ DOMAIN held' = DOMAIN held
      /\ \A j \in DOMAIN held : held'[j] = IF held[j] <= n THEN 0 ELSE held[j] - n
  <2>1. TypeOK
    BY DEF HandoffInv
  <2>2. q' \in Seq(Packets)
    BY <2>1, EraseFacts
  <2>3. DOMAIN q' = 1 .. Len(q')
    BY <2>2
  <2> QED
    BY <2>1, <2>3, EraseFacts
<1>3. \A i \in DOMAIN q' : i + n \in DOMAIN q \/ q'[i].lock = Free
  BY <1>1, <1>2
<1>4. \A i \in DOMAIN q' : i + n \in DOMAIN q => q'[i] = q[i + n]
  BY <1>1, <1>2
<1>5. LocksHaveHolders'
  <2> SUFFICES ASSUME NEW i \in DOMAIN q', q'[i].lock # Free
               PROVE  \/ i = cur'[q'[i].lock]
                      \/ q'[i].lock = "decoder" /\ \E j \in DOMAIN held' : i = held'[j]
                      \/ q'[i].lock = "analysis" /\ i = cur'["start"]
    BY DEF LocksHaveHolders, HeldSet
  <2> DEFINE k == i + n
             t == q[k].lock
  <2>1. k \in DOMAIN q /\ q'[i] = q[k] /\ k > n /\ k \in Nat /\ i = k - n /\ q'[i].lock = t
    BY <1>1, <1>2, <1>3, <1>4
  <2>2. t \in Threads /\ t # Free
    <3>1. q[k] \in Packets
      BY <1>1, <2>1
    <3> QED
      BY <2>1, <3>1 DEF Packets
  <2>3. \/ k = cur[t]
        \/ t = "decoder" /\ \E j \in DOMAIN held : k = held[j]
        \/ t = "analysis" /\ k = cur["start"]
    BY <2>1, <2>2 DEF HandoffInv, LocksHaveHolders, HeldSet
  <2> HIDE DEF k, t
  <2>4. CASE k = cur[t]
    <3>1. cur'[t] = k - n
      BY <1>2, <2>1, <2>2, <2>4
    <3> QED
      BY <2>1, <3>1
  <2>5. CASE t = "decoder" /\ \E j \in DOMAIN held : k = held[j]
    <3>1. PICK j \in DOMAIN held : k = held[j]
      BY <2>5
    <3>2. held'[j] = k - n
      BY <1>2, <2>1, <3>1
    <3> QED
      BY <1>2, <2>1, <2>5, <3>2
  <2>6. CASE t = "analysis" /\ k = cur["start"]
    <3>1. cur'["start"] = k - n
      BY <1>2, <2>1, <2>6
    <3> QED
      BY <2>1, <2>6, <3>1
  <2> QED
    BY <2>3, <2>4, <2>5, <2>6
<1>6. \A i \in 0 .. Len(q) : i > n => i - n \in DOMAIN q' /\ q'[i - n] = q[i]
  <2> SUFFICES ASSUME NEW i \in 0 .. Len(q), i > n PROVE i - n \in DOMAIN q' /\ q'[i - n] = q[i]
    OBVIOUS
  <2>1. i - n \in DOMAIN q' /\ (i - n) + n = i /\ i \in DOMAIN q
    BY <1>1, <1>2
  <2> QED
    BY <1>4, <2>1
<1>7. HandsInv'
  <2>1. HandsInv
    BY DEF HandoffInv
  <2>2. \A t \in Threads \cup {"start"} :
           cur'[t] # 0 => cur[t] # 0 /\ cur'[t] = cur[t] - n /\ q'[cur'[t]] = q[cur[t]]
    BY <1>1, <1>2, <1>6
  <2>3. \A j \in DOMAIN held : held[j] \in 0 .. Len(q)
    BY <1>1
  <2>4. \A j \in DOMAIN held' :
           held'[j] # 0 => held[j] # 0 /\ held'[j] = held[j] - n /\ q'[held'[j]] = q[held[j]]
    BY <1>1, <1>2, <1>6, <2>3, SMTT(60)
  <2>5. cur'["decoder"] # 0 => q'[cur'["decoder"]].lock = "decoder"
    BY <2>1, <2>2, ThreadNames DEF HandsInv
  <2>6. \A j \in DOMAIN held' : held'[j] # 0 => q'[held'[j]].lock = "decoder"
    BY <1>2, <2>1, <2>4 DEF HandsInv
  <2>7. \A j, k \in DOMAIN held' : j # k /\ held'[j] # 0 => held'[j] # held'[k]
    <3> SUFFICES ASSUME NEW j \in DOMAIN held, NEW k \in DOMAIN held, j # k, held'[j] # 0,
                        held'[j] = held'[k]
                 PROVE  FALSE
      BY <1>2
    <3>1. held[j] # 0 /\ held[j] = held[k]
      BY <1>1, <1>2, <2>3, <2>4
    <3> QED
      BY <2>1, <3>1 DEF HandsInv
  <2>8. \A j \in DOMAIN held' : held'[j] # 0 => held'[j] # cur'["decoder"]
    <3> SUFFICES ASSUME NEW j \in DOMAIN held, held'[j] # 0, held'[j] = cur'["decoder"]
                 PROVE  FALSE
      BY <1>2
    <3>1. held[j] # 0 /\ held[j] = cur["decoder"]
      BY <1>1, <1>2, <2>2, <2>3, <2>4, ThreadNames, SMTT(60)
    <3> QED
      BY <2>1, <3>1 DEF HandsInv
  <2>9. \A e \in Events : cur'[e] # 0 => q'[cur'[e]].lock = e
    BY <2>1, <2>2, ThreadNames DEF HandsInv
  <2>10. cur'["start"] # 0 => q'[cur'["start"]].lock = "analysis"
    BY <2>1, <2>2 DEF HandsInv
  <2>11. (cur'["analysis"] # 0 /\ pc'["analysis"] \in {"work", "close", "open", "start", "create"})
           => q'[cur'["analysis"]].lock = "analysis"
    BY <2>1, <2>2, ThreadNames DEF HandsInv
  <2>12. (cur'["start"] # 0 /\ pc'["analysis"] = "create") => cur'["start"] # cur'["analysis"]
    <3> SUFFICES ASSUME cur'["start"] # 0, pc'["analysis"] = "create",
                        cur'["start"] = cur'["analysis"]
                 PROVE  FALSE
      OBVIOUS
    <3>1. cur["start"] # 0 /\ cur["start"] = cur["analysis"] /\ pc["analysis"] = "create"
      BY <1>1, <1>2, <2>2, ThreadNames
    <3> QED
      BY <2>1, <3>1 DEF HandsInv
  <2> QED
    BY <2>5, <2>6, <2>7, <2>8, <2>9, <2>10, <2>11, <2>12 DEF HandsInv
<1> QED
  BY <1>5, <1>7

-----------------------------------------------------------------------------
(* Steps that leave queue, iterators and packets alone.                    *)

\* Locks and hands depend on the packets, on who works on them and on where
\* the analysis is.
LEMMA QuietHands ==
  ASSUME HandoffInv, UNCHANGED <<q, cur, held>>,
         pc'["analysis"] \in {"work", "close", "open", "start", "create"}
           => pc["analysis"] \in {"work", "close", "open", "start", "create"},
         pc'["analysis"] = "create" => pc["analysis"] = "create"
  PROVE  LocksHaveHolders' /\ HandsInv'
<1>1. LocksHaveHolders'
  BY DEF HandoffInv, LocksHaveHolders, HeldSet
<1>2. HandsInv'
  BY DEF HandoffInv, HandsInv
<1> QED
  BY <1>1, <1>2

\* A session that is ending: the capture thread tells, wakes and joins the
\* other threads.
LEMMA CaptureQuietInv ==
  ASSUME HandoffInv, QueueNotify \/ Pause \/ Stop \/ Join
  PROVE  HandoffInv'
<1>1. UNCHANGED <<q, it, cur, held, pc, event, closing>>
  BY DEF QueueNotify, Pause, Stop, Join, Unchanged
<1>2. TypeOK'
  <2>1. wait' = wait \/ wait' = [t \in Threads |-> IF wait[t] = "asleep" THEN "no" ELSE wait[t]]
    BY DEF QueueNotify, Pause, Stop, Join, NotifyAll
  <2>2. wait' \in [Threads -> {"no", "block", "asleep"}]
    BY <2>1 DEF HandoffInv, TypeOK
  <2>3. deleting' \in BOOLEAN
    BY DEF HandoffInv, TypeOK, QueueNotify, Pause, Stop, Join
  <2>4. main' \in {"run", "notify", "stop", "joinDecoder", "joinAnalysis", "joinClose",
                   "clear", "paused"}
    BY DEF HandoffInv, TypeOK, QueueNotify, Pause, Stop, Join
  <2> QED
    BY <1>1, <2>2, <2>3, <2>4 DEF HandoffInv, TypeOK
<1>3. LocksHaveHolders' /\ HandsInv'
  BY <1>1, QuietHands
<1>4. NobodySleepsThroughStop'
  BY ZenonT(60) DEF HandoffInv, TypeOK, NobodySleepsThroughStop, QueueNotify, Pause, Stop, Join,
     NotifyAll, MutexFree
<1>5. DecoderInv'
  BY <1>1 DEF HandoffInv, DecoderInv, QueueNotify, Pause, Stop, Join
<1>6. AnalysisInv'
  BY <1>1 DEF HandoffInv, AnalysisInv, QueueNotify, Pause, Stop, Join
<1>7. RolesInv'
  BY <1>1 DEF HandoffInv, RolesInv, Opening
<1>8. EventsInv'
  BY <1>1 DEF HandoffInv, EventsInv, Complete
<1> QED
  BY <1>2, <1>3, <1>4, <1>5, <1>6, <1>7, <1>8 DEF HandoffInv

\* Pause closes the event that records, Play starts the threads again.
LEMMA SessionInv ==
  ASSUME HandoffInv, PauseClosesEvent \/ Play
  PROVE  HandoffInv'
<1>1. UNCHANGED <<q, it, cur, held, wait>>
  BY DEF PauseClosesEvent, Play, Unchanged
<1>2. pc' = pc \/ pc' = [pc EXCEPT !["decoder"] = "loop", !["analysis"] = "loop"]
  BY DEF PauseClosesEvent, Play
<1>3. \A e \in Events : pc'[e] = pc[e]
  BY <1>2, ThreadNames DEF HandoffInv, TypeOK
<1>4. pc'["analysis"] = pc["analysis"] \/ pc'["analysis"] = "loop"
  BY <1>2, ThreadNames DEF HandoffInv, TypeOK
<1>5. TypeOK'
  <2>1. pc' \in [Threads -> {"off", "loop", "pause", "get", "work", "convert", "unlock", "close",
                          "open", "start", "create", "opened", "clear", "analyzed",
                          "increment", "check", "write"}]
    BY <1>2 DEF HandoffInv, TypeOK
  <2> QED
    BY <1>1, <2>1 DEF HandoffInv, TypeOK, PauseClosesEvent, Play
<1>6. LocksHaveHolders' /\ HandsInv'
  BY <1>1, <1>4, QuietHands
<1>7. NobodySleepsThroughStop'
  BY <1>1 DEF HandoffInv, NobodySleepsThroughStop, PauseClosesEvent, Play
<1>8. DecoderInv'
  <2>1. CASE PauseClosesEvent
    BY <1>1, <2>1 DEF HandoffInv, DecoderInv, PauseClosesEvent
  <2>2. CASE Play
    BY <1>1, <2>2, ThreadNames DEF HandoffInv, DecoderInv, TypeOK, Play
  <2> QED
    BY <2>1, <2>2
<1>9. AnalysisInv'
  <2>1. CASE PauseClosesEvent
    BY <1>1, <2>1 DEF HandoffInv, AnalysisInv, PauseClosesEvent, AtPacket
  <2>2. CASE Play
    BY <1>1, <2>2, ThreadNames DEF HandoffInv, AnalysisInv, TypeOK, Play, AtPacket
  <2> QED
    BY <2>1, <2>2
<1>10. RolesInv'
  <2>1. CASE PauseClosesEvent
    <3>1. pc' = pc /\ pc["analysis"] = "off"
      BY <2>1 DEF HandoffInv, AnalysisInv, PauseClosesEvent
    <3> QED
      BY <1>1, <2>1, <3>1, ThreadNames DEF HandoffInv, RolesInv, TypeOK, PauseClosesEvent, Opening
  <2>2. CASE Play
    <3>1. pc["analysis"] = "off" /\ UNCHANGED <<event, closing>>
      BY <2>2 DEF HandoffInv, AnalysisInv, Play
    <3> QED
      BY <1>1, <1>3, <3>1, <2>2, ThreadNames DEF HandoffInv, RolesInv, Opening
  <2> QED
    BY <2>1, <2>2
<1>11. EventsInv'
  BY <1>1, <1>3 DEF HandoffInv, EventsInv, Complete
<1> QED
  BY <1>5, <1>6, <1>7, <1>8, <1>9, <1>10, <1>11 DEF HandoffInv

-----------------------------------------------------------------------------
(* Steps that erase packets.                                               *)

\* The queue, the iterators and the packets in hand after erasing.
LEMMA EraseTypes ==
  ASSUME HandoffInv, NEW packets \in Seq(Packets), NEW n \in 0 .. Len(packets),
         Erase(n, packets), Len(q) <= Len(packets)
  PROVE  /\ q' \in Seq(Packets)
         /\ it' \in [Threads -> 0 .. Len(q') + 1]
         /\ it'["decoder"] # 0 /\ it'["analysis"] # 0
         /\ cur' \in [Threads \cup {"start"} -> 0 .. Len(q')]
         /\ held' \in Seq(0 .. Len(q')) /\ Len(held') <= DecoderQueueLimit + 1
<1>1. TypeOK
  BY DEF HandoffInv
<1>2. /\ it \in [Threads -> 0 .. Len(q) + 1] /\ it["decoder"] # 0 /\ it["analysis"] # 0
      /\ cur \in [Threads \cup {"start"} -> 0 .. Len(q)]
      /\ held \in Seq(0 .. Len(q)) /\ Len(held) <= DecoderQueueLimit + 1
      /\ Len(packets) \in Nat /\ n \in Nat /\ Len(q) \in Nat
  BY <1>1 DEF TypeOK
<1>3. q' \in Seq(Packets) /\ Len(q') = Len(packets) - n
  BY <1>1, EraseFacts
<1>4. it' \in [Threads -> 0 .. Len(q') + 1] /\ it'["decoder"] # 0 /\ it'["analysis"] # 0
  <2>1. it' = [t \in Threads |-> IF it[t] = 0 THEN 0 ELSE Max({1, it[t] - n})]
    BY DEF Erase
  <2>2. \A t \in Threads :
           it'[t] = IF it[t] = 0 THEN 0 ELSE IF it[t] <= n THEN 1 ELSE it[t] - n
    BY <1>1, EraseFacts
  <2>3. \A t \in Threads : it'[t] \in 0 .. Len(q') + 1 /\ (it[t] # 0 => it'[t] # 0)
    BY <1>2, <1>3, <2>2
  <2> QED
    BY <1>2, <2>1, <2>3, ThreadNames
<1>5. cur' \in [Threads \cup {"start"} -> 0 .. Len(q')]
  <2>1. cur' = [t \in DOMAIN cur |-> Erased(n, cur[t])]
    BY DEF Erase
  <2>2. \A t \in Threads \cup {"start"} : cur'[t] = IF cur[t] <= n THEN 0 ELSE cur[t] - n
    BY <1>1, EraseFacts
  <2>3. \A t \in Threads \cup {"start"} : cur'[t] \in 0 .. Len(q')
    BY <1>2, <1>3, <2>2
  <2> QED
    BY <1>2, <2>1, <2>3
<1>6. held' \in Seq(0 .. Len(q')) /\ Len(held') <= DecoderQueueLimit + 1
  <2>1. held' = [j \in 1 .. Len(held) |-> Erased(n, held[j])] /\ Len(held) \in Nat
    BY <1>2 DEF Erase
  <2>2. \A j \in 1 .. Len(held) : Erased(n, held[j]) \in 0 .. Len(q')
    BY <1>2, <1>3 DEF Erased
  <2>3. held' \in [1 .. Len(held) -> 0 .. Len(q')]
    BY <2>1, <2>2
  <2>4. held' \in Seq(0 .. Len(q'))
    BY <2>1, <2>3
  <2>5. Len(held') = Len(held)
    BY <1>1, EraseFacts
  <2> QED
    BY <1>2, <2>4, <2>5
<1> QED
  BY <1>3, <1>4, <1>5, <1>6

\* As long as a packet is left, erasing leaves an event at its packet, or on the
\* new first one if its packet is gone.
LEMMA EraseKeepsEvents ==
  ASSUME HandoffInv, NEW packets \in Seq(Packets), NEW n \in 0 .. Len(packets),
         Erase(n, packets), Len(q) <= Len(packets),
         \A i \in DOMAIN q : packets[i] = q[i],
         \A e \in Events : pc'[e] = pc[e],
         n < Len(packets) \/ \A e \in Events : pc[e] = "off"
  PROVE  EventsInv'
<1>1. TypeOK /\ EventsInv
  BY DEF HandoffInv
<1>2. /\ it \in [Threads -> 0 .. Len(q) + 1]
      /\ cur \in [Threads \cup {"start"} -> 0 .. Len(q)]
      /\ Len(packets) \in Nat /\ n \in Nat /\ Len(q) \in Nat
      /\ q \in Seq(Packets)
  BY <1>1 DEF TypeOK, Packets
<1>3. q' \in Seq(Packets) /\ Len(q') = Len(packets) - n
  BY <1>1, EraseFacts
<1>4. \A i \in DOMAIN q' : i + n \in DOMAIN packets /\ q'[i] = packets[i + n]
  BY <1>1, EraseFacts
<1> SUFFICES ASSUME NEW e \in Events
             PROVE  /\ cur'[e] # 0 => pc'[e] \in {"check", "write", "unlock"}
                    /\ pc'[e] \in {"check", "write"} =>
                         it'[e] \in 1 .. Len(q') /\ cur'[e] \in {0, it'[e]}
                    /\ (pc'[e] = "write" /\ cur'[e] # 0) => Complete(q'[cur'[e]])
  BY DEF EventsInv, Complete
<1>5. /\ it'[e] = IF it[e] = 0 THEN 0 ELSE IF it[e] <= n THEN 1 ELSE it[e] - n
      /\ cur'[e] = IF cur[e] <= n THEN 0 ELSE cur[e] - n
      /\ it[e] \in 0 .. Len(q) + 1 /\ cur[e] \in 0 .. Len(q)
  BY <1>1, <1>2, EraseFacts, ThreadNames
<1>6. cur'[e] # 0 => pc'[e] \in {"check", "write", "unlock"}
  BY <1>1, <1>2, <1>5 DEF EventsInv
<1>7. pc'[e] \in {"check", "write"} => it'[e] \in 1 .. Len(q') /\ cur'[e] \in {0, it'[e]}
  <2> SUFFICES ASSUME pc[e] \in {"check", "write"}
               PROVE  it'[e] \in 1 .. Len(q') /\ cur'[e] \in {0, it'[e]}
    OBVIOUS
  <2>1. it[e] \in 1 .. Len(q) /\ cur[e] \in {0, it[e]} /\ n < Len(packets)
    BY <1>1 DEF EventsInv
  <2> QED
    BY <1>2, <1>3, <1>5, <2>1
<1>8. (pc'[e] = "write" /\ cur'[e] # 0) => Complete(q'[cur'[e]])
  <2> SUFFICES ASSUME pc[e] = "write", cur'[e] # 0
               PROVE  Complete(q'[cur'[e]])
    OBVIOUS
  <2>0. cur[e] > n /\ cur'[e] = cur[e] - n /\ cur[e] \in 1 .. Len(q)
    BY <1>2, <1>5
  <2>1. cur[e] # 0 /\ cur[e] \in DOMAIN q /\ cur'[e] + n = cur[e]
        /\ cur'[e] \in 1 .. Len(q')
    BY <1>2, <1>3, <2>0
  <2>2. cur'[e] \in DOMAIN q'
    BY <1>3, <2>1
  <2>3. q'[cur'[e]] = q[cur[e]]
    BY <1>4, <2>1, <2>2
  <2> QED
    BY <1>1, <2>1, <2>3 DEF EventsInv
<1> QED
  BY <1>6, <1>7, <1>8

\* An iterator that is in use stays in use, one that is not does not.
LEMMA EraseKeepsRoles ==
  ASSUME HandoffInv, NEW packets \in Seq(Packets), NEW n \in 0 .. Len(packets),
         Erase(n, packets), UNCHANGED <<event, closing>>,
         \A e \in Events : pc'[e] = pc[e],
         pc["analysis"] \in {"start", "create"} => pc'["analysis"] = pc["analysis"]
  PROVE  RolesInv'
<1>1. TypeOK /\ RolesInv
  BY DEF HandoffInv
<1>2. \A e \in Events : it[e] \in Nat
  BY <1>1, ThreadNames DEF TypeOK
<1>3. \A e \in Events : it'[e] = IF it[e] = 0 THEN 0 ELSE IF it[e] <= n THEN 1 ELSE it[e] - n
  BY <1>1, EraseFacts, ThreadNames
<1>4. \A e \in Events : it'[e] = 0 <=> it[e] = 0
  BY <1>2, <1>3
<1> QED
  BY <1>1, <1>4 DEF RolesInv, Opening

\* clearPackets stops before the packet being analysed and before the packet of
\* every iterator.
LEMMA TrimmableFacts ==
  ASSUME TypeOK
  PROVE  /\ Trimmable \in Nat
         /\ Trimmable # 0 => /\ Trimmable < cur["analysis"] /\ Trimmable < Len(q)
                             /\ \A t \in Threads : it[t] # 0 => Trimmable < it[t]
<1> DEFINE a == cur["analysis"]
           pinned == {it[t] : t \in {u \in Threads : it[u] \notin {0, Len(q) + 1}}}
           S == {a - Pre, a - 1} \cup {i - 1 : i \in pinned}
<1>1. Trimmable = IF deleting \/ a = 0 THEN 0 ELSE Max({0, Min(S)})
  BY DEF Trimmable
<1>2. /\ a \in 0 .. Len(q) /\ Len(q) \in Nat /\ Pre \in Nat
      /\ it \in [Threads -> 0 .. Len(q) + 1]
  BY PreAssumption, ThreadNames DEF TypeOK
<1>3. CASE deleting \/ a = 0
  BY <1>1, <1>3
<1>4. CASE ~(deleting \/ a = 0)
  <2>1. pinned \subseteq Nat
    BY <1>2
  <2>2. S \subseteq Int /\ S # {}
    <3>1. a - Pre \in Int /\ a - 1 \in Int
      BY <1>2
    <3> HIDE DEF pinned, a
    <3>2. \A i \in pinned : i - 1 \in Int
      BY <2>1
    <3> QED
      BY <3>1, <3>2
  <2>3. -Pre \in Int /\ -1 \in Int /\ -Pre - 1 \in Int /\ \A i \in S : -Pre - 1 <= i
    BY <1>2, <2>1
  <2> HIDE DEF S
  <2>4. Min(S) \in S /\ \A j \in S : Min(S) <= j
    BY <2>2, <2>3, MinOfIntegers
  <2>5. Min(S) \in Int
    BY <2>2, <2>4
  <2>6. Max({0, Min(S)}) = IF 0 >= Min(S) THEN 0 ELSE Min(S)
    BY <2>5, MaxOfPair
  <2>7. Trimmable = IF 0 >= Min(S) THEN 0 ELSE Min(S)
    BY <1>1, <1>4, <2>6
  <2> DEFINE m == Min(S)
  <2>8. m \in Int /\ \A j \in S : m <= j
    BY <2>4, <2>5
  <2>9. Trimmable = IF 0 >= m THEN 0 ELSE m
    BY <2>7
  <2> HIDE DEF m
  <2>10. m <= a - 1
    BY <2>8 DEF S
  <2>11. \A t \in Threads : it[t] # 0 => m < it[t]
    <3> SUFFICES ASSUME NEW t \in Threads, it[t] # 0 PROVE m < it[t]
      OBVIOUS
    <3>1. CASE it[t] = Len(q) + 1
      BY <1>2, <2>8, <2>10, <3>1
    <3>2. CASE it[t] # Len(q) + 1
      <4>1. it[t] \in pinned
        BY <3>2
      <4>2. it[t] - 1 \in S
        BY <4>1 DEF S
      <4> QED
        BY <1>2, <2>8, <4>2
    <3> QED
      BY <3>1, <3>2
  <2>12. m < a /\ m < Len(q)
    BY <1>2, <2>8, <2>10
  <2>13. Trimmable \in Nat
    BY <2>8, <2>9
  <2> QED
    BY <2>8, <2>9, <2>11, <2>12, <2>13
<1> QED
  BY <1>3, <1>4

\* Capturing a packet: the front one is lost when the queue is full.
LEMMA QueuePacketInv ==
  ASSUME HandoffInv, QueuePacket
  PROVE  HandoffInv'
<1> DEFINE new == [decoded |-> FALSE, analyzed |-> FALSE, lock |-> Free]
           packets == Append(q, new)
           n == Overflow(packets)
<1>1. q \in Seq(Packets) /\ Len(q) \in Nat /\ Len(q) <= Limit /\ TypeOK
  BY DEF HandoffInv, TypeOK, Packets
<1>2. new \in Packets /\ new.lock = Free
  BY DEF Packets
<1> HIDE DEF new
<1>3. /\ packets \in Seq(Packets) /\ Len(packets) = Len(q) + 1
      /\ \A i \in DOMAIN q : packets[i] = q[i]
      /\ packets[Len(q) + 1] = new
  BY <1>1, <1>2
<1>4. n = IF Len(packets) > Limit THEN 1 ELSE 0
  BY DEF Overflow
<1>5. Erase(n, packets)
  BY DEF QueuePacket, new
<1>6. main = "run" /\ main' = "notify" /\ UNCHANGED <<pc, wait, deleting, event, closing>>
  BY DEF QueuePacket
<1> HIDE DEF packets, n
<1>7. /\ n \in 0 .. Len(packets) /\ n < Len(packets) /\ Len(q) <= Len(packets)
      /\ Len(packets) - n <= Limit /\ Len(packets) - n >= Len(q) - n
  BY <1>1, <1>3, <1>4, LimitAssumption
<1>8. \A i \in DOMAIN packets : i \notin DOMAIN q => packets[i].lock = Free
  <2>1. DOMAIN q = 1 .. Len(q) /\ DOMAIN packets = 1 .. Len(q) + 1
    BY <1>1, <1>3
  <2>2. \A i \in DOMAIN packets : i \notin DOMAIN q => i = Len(q) + 1
    BY <1>1, <2>1
  <2> QED
    BY <1>2, <1>3, <2>2
<1>9. LocksHaveHolders' /\ HandsInv'
  BY <1>3, <1>5, <1>6, <1>7, <1>8, EraseKeepsHands
<1>10. RolesInv'
  BY <1>3, <1>5, <1>6, <1>7, EraseKeepsRoles
<1>11. EventsInv'
  BY <1>3, <1>5, <1>6, <1>7, EraseKeepsEvents
<1>12. TypeOK'
  <2>1. Len(q') = Len(packets) - n
    BY <1>1, <1>3, <1>5, <1>7, EraseFacts
  <2>2. /\ q' \in Seq(Packets)
        /\ it' \in [Threads -> 0 .. Len(q') + 1]
        /\ it'["decoder"] # 0 /\ it'["analysis"] # 0
        /\ cur' \in [Threads \cup {"start"} -> 0 .. Len(q')]
        /\ held' \in Seq(0 .. Len(q')) /\ Len(held') <= DecoderQueueLimit + 1
    BY <1>3, <1>5, <1>7, EraseTypes
  <2>3. Len(q') <= Limit
    BY <1>7, <2>1
  <2> QED
    BY <1>1, <1>6, <2>2, <2>3 DEF TypeOK, Packets
<1>13. NobodySleepsThroughStop'
  BY <1>6 DEF HandoffInv, NobodySleepsThroughStop
<1>14. /\ \A t \in Threads \cup {"start"} : cur'[t] = IF cur[t] <= n THEN 0 ELSE cur[t] - n
       /\ \A t \in Threads :
            it'[t] = IF it[t] = 0 THEN 0 ELSE IF it[t] <= n THEN 1 ELSE it[t] - n
       /\ Len(held') = Len(held) /\ Len(q') = Len(packets) - n
  BY <1>1, <1>3, <1>5, <1>7, EraseFacts
<1>15. \A t \in Threads \cup {"start"} : cur'[t] # 0 => cur[t] # 0
  <2>1. \A t \in Threads \cup {"start"} : cur[t] \in Nat
    BY <1>1 DEF TypeOK
  <2> QED
    BY <1>7, <1>14, <2>1
<1>16. DecoderInv'
  BY <1>6, <1>14, <1>15, ThreadNames DEF HandoffInv, DecoderInv
<1>17. AnalysisInv'
  <2>1. it["analysis"] <= Len(q) => it'["analysis"] <= Len(q')
    <3>1. it["analysis"] \in Nat /\ n \in Nat
      BY <1>1, <1>7, ThreadNames DEF TypeOK
    <3>2. it'["analysis"] = IF it["analysis"] = 0 THEN 0
                            ELSE IF it["analysis"] <= n THEN 1 ELSE it["analysis"] - n
      BY <1>14, ThreadNames
    <3> QED
      BY <1>1, <1>3, <1>7, <1>14, <3>1, <3>2
  <2> QED
    BY <1>6, <1>15, <2>1, ThreadNames DEF HandoffInv, AnalysisInv
<1> QED
  BY <1>9, <1>10, <1>11, <1>12, <1>13, <1>16, <1>17 DEF HandoffInv

\* The end of a session: nobody has a packet, and all of them go.
LEMMA ClearInv ==
  ASSUME HandoffInv, Clear
  PROVE  HandoffInv'
<1>1. q \in Seq(Packets) /\ Len(q) \in Nat /\ TypeOK
  BY DEF HandoffInv, TypeOK, Packets
<1>2. /\ main = "clear" /\ main' = "paused" /\ Erase(Len(q), q)
      /\ UNCHANGED <<pc, deleting, event, closing>>
      /\ wait' = [t \in Threads |-> IF wait[t] = "asleep" THEN "no" ELSE wait[t]]
  BY DEF Clear, NotifyAll
<1>3. \A e \in Events : pc[e] = "off"
  BY <1>2, ThreadNames DEF HandoffInv, AnalysisInv, RolesInv
<1>4. Len(q) \in 0 .. Len(q) /\ Len(q) <= Len(q)
  BY <1>1
<1>5. LocksHaveHolders' /\ HandsInv'
  BY <1>1, <1>2, <1>4, EraseKeepsHands
<1>6. RolesInv'
  BY <1>1, <1>2, <1>4, EraseKeepsRoles
<1>7. EventsInv'
  BY <1>1, <1>2, <1>3, <1>4, EraseKeepsEvents
<1>8. Len(q') = Len(q) - Len(q) /\ Len(held') = Len(held)
      /\ \A t \in Threads \cup {"start"} :
             cur'[t] = IF cur[t] <= Len(q) THEN 0 ELSE cur[t] - Len(q)
  BY <1>1, <1>2, <1>4, EraseFacts
<1>9. TypeOK'
  <2>1. /\ q' \in Seq(Packets)
        /\ it' \in [Threads -> 0 .. Len(q') + 1]
        /\ it'["decoder"] # 0 /\ it'["analysis"] # 0
        /\ cur' \in [Threads \cup {"start"} -> 0 .. Len(q')]
        /\ held' \in Seq(0 .. Len(q')) /\ Len(held') <= DecoderQueueLimit + 1
    BY <1>1, <1>2, <1>4, EraseTypes
  <2>2. Len(q') <= Limit
    BY <1>1, <1>8, LimitAssumption
  <2>3. wait' \in [Threads -> {"no", "block", "asleep"}]
    BY <1>1, <1>2 DEF TypeOK
  <2> QED
    BY <1>1, <1>2, <2>1, <2>2, <2>3 DEF TypeOK, Packets
<1>10. NobodySleepsThroughStop'
  BY <1>2 DEF HandoffInv, NobodySleepsThroughStop
<1>11. \A t \in Threads \cup {"start"} : cur'[t] = 0
  <2>1. \A t \in Threads \cup {"start"} : cur[t] <= Len(q)
    BY <1>1 DEF TypeOK
  <2> QED
    BY <1>8, <2>1
<1>12. DecoderInv'
  BY <1>2, <1>8, <1>11, ThreadNames DEF HandoffInv, DecoderInv
<1>13. AnalysisInv'
  BY <1>2, <1>11, ThreadNames DEF HandoffInv, AnalysisInv, AtPacket
<1> QED
  BY <1>5, <1>6, <1>7, <1>9, <1>10, <1>12, <1>13 DEF HandoffInv

\* clearPackets leaves the packet being analysed, and what comes after it.
LEMMA ClearPacketsInv ==
  ASSUME HandoffInv, ClearPackets
  PROVE  HandoffInv'
<1> DEFINE n == Trimmable
<1>1. q \in Seq(Packets) /\ Len(q) \in Nat /\ Len(q) <= Limit /\ TypeOK
  BY DEF HandoffInv, TypeOK, Packets
<1>2. /\ pc["analysis"] = "clear" /\ Erase(n, q)
      /\ pc' = [pc EXCEPT !["analysis"] = "analyzed"]
      /\ UNCHANGED <<wait, deleting, main, event, closing>>
  BY DEF ClearPackets, Go
<1>3. n \in Nat /\ (n # 0 => n < Len(q))
  BY <1>1, TrimmableFacts
<1> HIDE DEF n
<1>4. it["analysis"] <= Len(q) /\ it["analysis"] \in Nat \ {0}
  BY <1>1, <1>2, ThreadNames DEF HandoffInv, AnalysisInv, AtPacket, TypeOK
<1>5. n < Len(q) /\ n \in 0 .. Len(q) /\ Len(q) <= Len(q)
  BY <1>1, <1>3, <1>4
<1>6. pc'["analysis"] = "analyzed" /\ \A t \in Threads \ {"analysis"} : pc'[t] = pc[t]
  BY <1>1, <1>2, ThreadNames DEF TypeOK
<1>7. LocksHaveHolders' /\ HandsInv'
  BY <1>1, <1>2, <1>5, <1>6, EraseKeepsHands
<1>8. \A e \in Events : pc'[e] = pc[e]
  BY <1>6, ThreadNames
<1>9. RolesInv'
  BY <1>1, <1>2, <1>5, <1>8, EraseKeepsRoles
<1>10. EventsInv'
  BY <1>1, <1>2, <1>5, <1>8, EraseKeepsEvents
<1>11. /\ \A t \in Threads \cup {"start"} : cur'[t] = IF cur[t] <= n THEN 0 ELSE cur[t] - n
       /\ \A t \in Threads :
            it'[t] = IF it[t] = 0 THEN 0 ELSE IF it[t] <= n THEN 1 ELSE it[t] - n
       /\ Len(held') = Len(held) /\ Len(q') = Len(q) - n
  BY <1>1, <1>2, <1>5, EraseFacts
<1>12. TypeOK'
  <2>1. /\ q' \in Seq(Packets)
        /\ it' \in [Threads -> 0 .. Len(q') + 1]
        /\ it'["decoder"] # 0 /\ it'["analysis"] # 0
        /\ cur' \in [Threads \cup {"start"} -> 0 .. Len(q')]
        /\ held' \in Seq(0 .. Len(q')) /\ Len(held') <= DecoderQueueLimit + 1
    BY <1>1, <1>2, <1>5, EraseTypes
  <2>2. Len(q') <= Limit
    BY <1>1, <1>5, <1>11, LimitAssumption
  <2>3. pc' \in [Threads -> {"off", "loop", "pause", "get", "work", "convert", "unlock", "close",
                          "open", "start", "create", "opened", "clear", "analyzed",
                          "increment", "check", "write"}]
    BY <1>1, <1>2 DEF TypeOK
  <2> QED
    BY <1>1, <1>2, <2>1, <2>2, <2>3 DEF TypeOK, Packets
<1>13. NobodySleepsThroughStop'
  BY <1>2 DEF HandoffInv, NobodySleepsThroughStop
<1>14. \A t \in Threads \cup {"start"} : cur'[t] # 0 => cur[t] # 0
  <2>1. \A t \in Threads \cup {"start"} : cur[t] \in Nat
    BY <1>1 DEF TypeOK
  <2> QED
    BY <1>5, <1>11, <2>1
<1>15. DecoderInv'
  BY <1>2, <1>6, <1>11, <1>14, ThreadNames DEF HandoffInv, DecoderInv
<1>16. AnalysisInv'
  <2>1. it'["analysis"] = IF it["analysis"] <= n THEN 1 ELSE it["analysis"] - n
    BY <1>4, <1>11, ThreadNames
  <2>2. it'["analysis"] <= Len(q')
    BY <1>1, <1>4, <1>5, <1>11, <2>1
  <2> QED
    BY <1>2, <1>6, <1>14, <2>2, ThreadNames DEF HandoffInv, AnalysisInv, AtPacket
<1> QED
  BY <1>7, <1>9, <1>10, <1>12, <1>13, <1>15, <1>16 DEF HandoffInv

-----------------------------------------------------------------------------
(* Frames: what a step cannot disturb.                                     *)

\* Flags that only go up keep an event at its packet.
LEMMA EventsKept ==
  ASSUME HandoffInv, Len(q') = Len(q), DOMAIN q' = DOMAIN q,
         \A i \in DOMAIN q : /\ q[i].decoded => q'[i].decoded
                             /\ q[i].analyzed => q'[i].analyzed,
         \A e \in Events : it'[e] = it[e] /\ cur'[e] = cur[e] /\ pc'[e] = pc[e]
  PROVE  EventsInv'
<1>1. \A e \in Events : cur[e] # 0 => cur[e] \in DOMAIN q
  BY ThreadNames DEF HandoffInv, TypeOK
<1> QED
  BY <1>1 DEF HandoffInv, EventsInv, Complete

\* The roles of the events do not change unless an iterator or a thread of
\* theirs does.
LEMMA RolesKept ==
  ASSUME HandoffInv, UNCHANGED <<event, closing>>,
         \A e \in Events : it'[e] = it[e] /\ pc'[e] = pc[e],
         pc["analysis"] \in {"start", "create"} => pc'["analysis"] \in {"start", "create"}
  PROVE  RolesInv'
BY DEF HandoffInv, RolesInv, Opening

\* Being woken, or not, is fine at any time.
LEMMA WaitKept ==
  ASSUME HandoffInv, deleting' = deleting, wait' = wait \/ NotifyAll
  PROVE  wait' \in [Threads -> {"no", "block", "asleep"}] /\ NobodySleepsThroughStop'
<1>1. wait' = wait \/ wait' = [t \in Threads |-> IF wait[t] = "asleep" THEN "no" ELSE wait[t]]
  BY DEF NotifyAll
<1>2. wait \in [Threads -> {"no", "block", "asleep"}]
  BY DEF HandoffInv, TypeOK
<1>3. wait' \in [Threads -> {"no", "block", "asleep"}]
  BY <1>1, <1>2
<1>4. NobodySleepsThroughStop'
  BY <1>1, <1>2 DEF HandoffInv, NobodySleepsThroughStop
<1> QED
  BY <1>3, <1>4

\* Where an iterator is after increment_it.
LEMMA IncrementedFacts ==
  ASSUME TypeOK, NEW t \in Threads, it[t] # 0
  PROVE  /\ Incremented(t) \in [Threads -> 0 .. Len(q) + 1]
         /\ \A u \in Threads : Incremented(t)[u] # it[u] => u = t
         /\ Incremented(t)[t] = IF deleting \/ it[t] = Len(q) + 1 THEN it[t] ELSE it[t] + 1
         /\ Incremented(t)[t] # 0
<1>1. it \in [Threads -> 0 .. Len(q) + 1] /\ Len(q) \in Nat
  BY DEF TypeOK
<1>2. Incremented(t) = IF deleting \/ it[t] = Len(q) + 1 THEN it
                       ELSE [it EXCEPT ![t] = it[t] + 1]
  BY DEF Incremented, AtEnd
<1> QED
  BY <1>1, <1>2

\* A step of the decoder moves its own thread, iterator and packet alone; the
\* packets it changes make progress.
LEMMA DecoderFrame ==
  ASSUME HandoffInv, DecoderOnly,
         NEW next \in {"off", "loop", "pause", "get", "work", "convert", "unlock"},
         pc' = [pc EXCEPT !["decoder"] = next],
         wait' \in [Threads -> {"no", "block", "asleep"}], NobodySleepsThroughStop',
         q' \in Seq(Packets), Len(q') = Len(q), DOMAIN q' = DOMAIN q,
         \A i \in DOMAIN q : /\ q[i].decoded => q'[i].decoded
                             /\ q[i].analyzed => q'[i].analyzed,
         it' = it \/ it' = Incremented("decoder"),
         NEW x \in 0 .. Len(q),
         cur' = cur \/ cur' = [cur EXCEPT !["decoder"] = x],
         held' \in Seq(0 .. Len(q)), Len(held') <= DecoderQueueLimit + 1
  PROVE  /\ TypeOK' /\ AnalysisInv' /\ RolesInv' /\ EventsInv'
         /\ pc'["decoder"] = next /\ pc'["analysis"] = pc["analysis"]
         /\ \A t \in Threads \cup {"start"} : t # "decoder" => cur'[t] = cur[t]
         /\ cur'["decoder"] \in {cur["decoder"], x}
<1>1. TypeOK
  BY DEF HandoffInv
<1>2. it' \in [Threads -> 0 .. Len(q') + 1] /\ it'["decoder"] # 0
      /\ \A t \in Threads \ {"decoder"} : it'[t] = it[t]
  <2>1. CASE it' = it
    BY <1>1, <2>1 DEF TypeOK
  <2>2. CASE it' = Incremented("decoder")
    <3>1. it["decoder"] # 0 /\ "decoder" \in Threads
      BY <1>1, ThreadNames DEF TypeOK
    <3> QED
      BY <1>1, <2>2, <3>1, IncrementedFacts
  <2> QED
    BY <2>1, <2>2
<1>3. cur' \in [Threads \cup {"start"} -> 0 .. Len(q')]
      /\ (\A t \in Threads \cup {"start"} : t # "decoder" => cur'[t] = cur[t])
      /\ cur'["decoder"] \in {cur["decoder"], x}
  <2>1. cur \in [Threads \cup {"start"} -> 0 .. Len(q)] /\ "decoder" \in Threads
    BY <1>1, ThreadNames DEF TypeOK
  <2>2. CASE cur' = cur
    BY <2>1, <2>2
  <2>3. CASE cur' = [cur EXCEPT !["decoder"] = x]
    BY <2>1, <2>3
  <2> QED
    BY <2>2, <2>3
<1>4. pc' \in [Threads -> {"off", "loop", "pause", "get", "work", "convert", "unlock", "close",
                          "open", "start", "create", "opened", "clear", "analyzed",
                          "increment", "check", "write"}]
      /\ (\A t \in Threads \ {"decoder"} : pc'[t] = pc[t]) /\ pc'["decoder"] = next
  BY <1>1, ThreadNames DEF TypeOK
<1>5. TypeOK'
  <2>1. it'["analysis"] # 0
    BY <1>1, <1>2, ThreadNames DEF TypeOK
  <2> QED
    BY <1>1, <1>2, <1>3, <1>4, <2>1 DEF TypeOK, DecoderOnly, Packets
<1>6. /\ pc'["analysis"] = pc["analysis"] /\ it'["analysis"] = it["analysis"]
      /\ cur'["analysis"] = cur["analysis"] /\ cur'["start"] = cur["start"]
      /\ \A e \in Events : it'[e] = it[e] /\ cur'[e] = cur[e] /\ pc'[e] = pc[e]
  BY <1>2, <1>3, <1>4, ThreadNames
<1>7. AnalysisInv'
  BY <1>6 DEF HandoffInv, AnalysisInv, DecoderOnly
<1>8. RolesInv'
  BY <1>6, RolesKept DEF DecoderOnly
<1>9. EventsInv'
  BY <1>6, EventsKept
<1> QED
  BY <1>3, <1>4, <1>5, <1>6, <1>7, <1>8, <1>9

-----------------------------------------------------------------------------
(* The decoder thread.                                                     *)

\* A flush releases the packets in the codec, and no packet that somebody
\* else has.
LEMMA FlushFacts ==
  ASSUME HandoffInv, Flush, deleting' = deleting, cur' = cur, pc'["analysis"] = pc["analysis"]
  PROVE  /\ wait' \in [Threads -> {"no", "block", "asleep"}] /\ NobodySleepsThroughStop'
         /\ q' \in Seq(Packets) /\ Len(q') = Len(q) /\ DOMAIN q' = DOMAIN q
         /\ \A i \in DOMAIN q : /\ q[i].decoded => q'[i].decoded
                                /\ q[i].analyzed => q'[i].analyzed
         /\ held' \in Seq(0 .. Len(q)) /\ Len(held') = 0
         /\ LocksHaveHolders' /\ HandsInv'
<1>1. q \in Seq(Packets) /\ DOMAIN q = 1 .. Len(q) /\ Len(q) \in Nat
      /\ cur \in [Threads \cup {"start"} -> 0 .. Len(q)] /\ held \in Seq(0 .. Len(q))
  BY DEF HandoffInv, TypeOK, Packets
<1>2. q' = Released(HeldSet) /\ held' = <<>> /\ (wait' = wait \/ NotifyAll)
  BY DEF Flush
<1>3. wait' \in [Threads -> {"no", "block", "asleep"}] /\ NobodySleepsThroughStop'
  BY <1>2, WaitKept
<1>4. /\ q' \in Seq(Packets) /\ Len(q') = Len(q) /\ DOMAIN q' = DOMAIN q
      /\ \A i \in DOMAIN q : /\ q'[i].decoded = (i \in HeldSet \/ q[i].decoded)
                             /\ q'[i].analyzed = q[i].analyzed
                             /\ q'[i].lock = IF i \in HeldSet THEN Free ELSE q[i].lock
  BY <1>1, <1>2, ReleasedFacts
<1>5. held' \in Seq(0 .. Len(q)) /\ Len(held') = 0 /\ DOMAIN held' = {}
  BY <1>2
<1>6. LocksHaveHolders'
  <2> SUFFICES ASSUME NEW i \in DOMAIN q', q'[i].lock # Free
               PROVE  i = cur'[q'[i].lock] \/ (q'[i].lock = "analysis" /\ i = cur'["start"])
    BY DEF LocksHaveHolders
  <2>1. i \in DOMAIN q /\ i \notin HeldSet /\ q'[i].lock = q[i].lock
    BY <1>4
  <2> QED
    BY <2>1 DEF HandoffInv, LocksHaveHolders
<1>7. HandsInv'
  <2>1. HandsInv
    BY DEF HandoffInv
  <2>2. \A t \in Threads \cup {"start"} : cur[t] # 0 => cur[t] \in DOMAIN q
    BY <1>1
  <2>3. \A i \in HeldSet : i # 0 => q[i].lock = "decoder" /\ i # cur["decoder"]
    BY <2>1 DEF HandsInv, HeldSet
  <2>4. \A t \in Threads \cup {"start"} :
           cur[t] # 0 /\ (t = "decoder" \/ q[cur[t]].lock # "decoder")
             => q'[cur[t]].lock = q[cur[t]].lock
    BY <1>4, <2>2, <2>3
  <2> QED
    BY <1>5, <2>1, <2>4, ThreadNames DEF HandsInv
<1> QED
  BY <1>3, <1>4, <1>5, <1>6, <1>7

\* The decoder ends, or finds no frame and flushes a codec that holds too many.
LEMMA DecoderFlushInv ==
  ASSUME HandoffInv, DecoderExit \/ (ReceiveNothing /\ Flush) \/ SkipPacket
  PROVE  HandoffInv'
<1>1. /\ Flush /\ cur' = cur /\ DecoderOnly
      /\ it' = it \/ it' = Incremented("decoder")
      /\ \E next \in {"off", "get", "convert"} : pc' = [pc EXCEPT !["decoder"] = next]
  BY DEF DecoderExit, ReceiveNothing, SkipPacket, Go
<1>2. PICK next \in {"off", "get", "convert"} : pc' = [pc EXCEPT !["decoder"] = next]
  BY <1>1
<1>3. pc'["analysis"] = pc["analysis"] /\ deleting' = deleting
  BY <1>1, <1>2, ThreadNames DEF HandoffInv, TypeOK, DecoderOnly
<1>4. /\ wait' \in [Threads -> {"no", "block", "asleep"}] /\ NobodySleepsThroughStop'
      /\ q' \in Seq(Packets) /\ Len(q') = Len(q) /\ DOMAIN q' = DOMAIN q
      /\ \A i \in DOMAIN q : /\ q[i].decoded => q'[i].decoded
                             /\ q[i].analyzed => q'[i].analyzed
      /\ held' \in Seq(0 .. Len(q)) /\ Len(held') = 0
      /\ LocksHaveHolders' /\ HandsInv'
  BY <1>1, <1>3, FlushFacts
<1>5. 0 \in 0 .. Len(q) /\ Len(held') <= DecoderQueueLimit + 1 /\ Len(held') <= DecoderQueueLimit
  BY <1>4, PreAssumption DEF HandoffInv, TypeOK
<1>6. TypeOK' /\ AnalysisInv' /\ RolesInv' /\ EventsInv' /\ pc'["decoder"] = next
  BY <1>1, <1>2, <1>4, <1>5, DecoderFrame
<1>7. DecoderInv'
  <2>1. main' = main
    BY <1>1 DEF DecoderOnly
  <2>2. CASE DecoderExit
    BY <1>1, <1>5, <1>6, <2>1, <2>2, ThreadNames DEF HandoffInv, TypeOK, DecoderInv, DecoderExit, Go
  <2>3. CASE ReceiveNothing
    BY <1>1, <1>5, <1>6, <2>1, <2>3, ThreadNames
       DEF HandoffInv, TypeOK, DecoderInv, ReceiveNothing, Go, Terminate
  <2>4. CASE SkipPacket
    BY <1>1, <1>5, <1>6, <2>1, <2>4, ThreadNames DEF HandoffInv, TypeOK, DecoderInv, SkipPacket, Go
  <2> QED
    BY <2>2, <2>3, <2>4
<1> QED
  BY <1>4, <1>6, <1>7 DEF HandoffInv

\* Going to sleep takes the mutex, which a queue being deleted has not given.
LEMMA SleepInv ==
  ASSUME HandoffInv, NEW t \in Threads, Sleep(t)
  PROVE  HandoffInv'
<1>1. /\ wait[t] = "block" /\ wait' = [wait EXCEPT ![t] = "asleep"]
      /\ UNCHANGED <<q, it, cur, held, pc, deleting, main, event, closing>>
  BY DEF Sleep
<1>2. TypeOK'
  <2>1. wait' \in [Threads -> {"no", "block", "asleep"}]
    BY <1>1 DEF HandoffInv, TypeOK
  <2> QED
    BY <1>1, <2>1 DEF HandoffInv, TypeOK
<1>3. NobodySleepsThroughStop'
  BY <1>1 DEF HandoffInv, NobodySleepsThroughStop
<1>4. LocksHaveHolders' /\ HandsInv'
  BY <1>1, QuietHands
<1>5. DecoderInv' /\ AnalysisInv' /\ RolesInv' /\ EventsInv'
  BY <1>1 DEF HandoffInv, DecoderInv, AnalysisInv, RolesInv, EventsInv, Opening, Complete
<1> QED
  BY <1>2, <1>3, <1>4, <1>5 DEF HandoffInv

\* A timed wait is over.
LEMMA ResumeInv ==
  ASSUME HandoffInv, NEW t \in Threads, Resume(t)
  PROVE  HandoffInv'
<1>1. /\ pc[t] = "pause" /\ pc' = [pc EXCEPT ![t] = "loop"]
      /\ UNCHANGED <<q, it, cur, held, wait, deleting, main, event, closing>>
  BY DEF Resume, Go
<1>2. TypeOK'
  <2>1. pc' \in [Threads -> {"off", "loop", "pause", "get", "work", "convert", "unlock", "close",
                          "open", "start", "create", "opened", "clear", "analyzed",
                          "increment", "check", "write"}]
    BY <1>1 DEF HandoffInv, TypeOK
  <2> QED
    BY <1>1, <2>1 DEF HandoffInv, TypeOK
<1>3. \A u \in Threads : pc'[u] = IF u = t THEN "loop" ELSE pc[u]
  BY <1>1 DEF HandoffInv, TypeOK
<1>4. NobodySleepsThroughStop'
  BY <1>1 DEF HandoffInv, NobodySleepsThroughStop
<1>5. LocksHaveHolders' /\ HandsInv'
  BY <1>1, <1>3, ThreadNames, QuietHands
<1>6. DecoderInv'
  BY <1>1, <1>3, ThreadNames DEF HandoffInv, DecoderInv
<1>7. AnalysisInv'
  BY <1>1, <1>3, ThreadNames DEF HandoffInv, AnalysisInv, AtPacket
<1>8. RolesInv'
  BY <1>1, <1>3, ThreadNames DEF HandoffInv, RolesInv, Opening
<1>9. EventsInv'
  BY <1>1, <1>3, ThreadNames DEF HandoffInv, EventsInv, Complete
<1> QED
  BY <1>2, <1>4, <1>5, <1>6, <1>7, <1>8, <1>9 DEF HandoffInv

\* The codec reports an error, or has no frame yet and room for a packet.
LEMMA DecoderQuietInv ==
  ASSUME HandoffInv,
         ReceiveError \/ (ReceiveNothing /\ Len(held) <= DecoderQueueLimit
                            /\ UNCHANGED <<q, held, wait>>)
  PROVE  HandoffInv'
<1>1. pc["decoder"] = "loop" /\ ~Terminate /\ DecoderOnly /\ UNCHANGED <<q, it, cur, held, wait>>
  BY DEF ReceiveError, ReceiveNothing
<1>2. PICK next \in {"pause", "get"} :
         /\ pc' = [pc EXCEPT !["decoder"] = next]
         /\ next = "get" => Len(held) <= DecoderQueueLimit
  BY DEF ReceiveError, ReceiveNothing, Go
<1>3. deleting' = deleting
  BY <1>1 DEF DecoderOnly
<1>4. wait' \in [Threads -> {"no", "block", "asleep"}] /\ NobodySleepsThroughStop'
  BY <1>1, <1>3, WaitKept
<1>5. /\ q' \in Seq(Packets) /\ Len(q') = Len(q) /\ DOMAIN q' = DOMAIN q
      /\ 0 \in 0 .. Len(q)
      /\ held' \in Seq(0 .. Len(q)) /\ Len(held') <= DecoderQueueLimit + 1
  BY <1>1 DEF HandoffInv, TypeOK, Packets
<1>6. TypeOK' /\ AnalysisInv' /\ RolesInv' /\ EventsInv' /\ pc'["decoder"] = next
      /\ pc'["analysis"] = pc["analysis"]
  BY <1>1, <1>2, <1>4, <1>5, DecoderFrame
<1>7. LocksHaveHolders' /\ HandsInv'
  BY <1>1, <1>6, QuietHands
<1>8. DecoderInv'
  BY <1>1, <1>2, <1>6 DEF HandoffInv, DecoderInv, DecoderOnly, Terminate
<1> QED
  BY <1>4, <1>6, <1>7, <1>8 DEF HandoffInv

\* A frame comes out of the codec: its packet is in the decoder's hand, the
\* earlier ones are released.
LEMMA ReceiveFrameInv ==
  ASSUME HandoffInv, NEW j \in DOMAIN held, ReceiveFrame(j)
  PROVE  HandoffInv'
<1> DEFINE S == {held[k] : k \in 1 .. j - 1}
<1>1. q \in Seq(Packets) /\ DOMAIN q = 1 .. Len(q) /\ Len(q) \in Nat
      /\ cur \in [Threads \cup {"start"} -> 0 .. Len(q)] /\ held \in Seq(0 .. Len(q))
      /\ Len(held) \in Nat /\ Len(held) <= DecoderQueueLimit + 1
      /\ DOMAIN held = 1 .. Len(held) /\ HandsInv
      /\ \A k \in DOMAIN held : held[k] \in 0 .. Len(q)
  BY DEF HandoffInv, TypeOK, Packets
<1>2. /\ pc["decoder"] = "loop" /\ ~Terminate /\ DecoderOnly /\ it' = it
      /\ q' = Released(S) /\ held' = SubSeq(held, j + 1, Len(held))
      /\ wait' = wait \/ NotifyAll
      /\ cur' = [cur EXCEPT !["decoder"] = held[j]]
      /\ pc' = [pc EXCEPT !["decoder"] = "convert"]
  BY DEF ReceiveFrame, Work, Go
<1> HIDE DEF S
<1>3. cur["decoder"] = 0
  BY <1>2 DEF HandoffInv, DecoderInv
<1>4. /\ q' \in Seq(Packets) /\ Len(q') = Len(q) /\ DOMAIN q' = DOMAIN q
      /\ \A i \in DOMAIN q : /\ q'[i].decoded = (i \in S \/ q[i].decoded)
                             /\ q'[i].analyzed = q[i].analyzed
                             /\ q'[i].lock = IF i \in S THEN Free ELSE q[i].lock
  BY <1>1, <1>2, ReleasedFacts
<1>5. /\ held' \in Seq(0 .. Len(q)) /\ Len(held') = Len(held) - j
      /\ DOMAIN held' = 1 .. Len(held) - j
      /\ \A k \in 1 .. Len(held) - j : k + j \in DOMAIN held /\ held'[k] = held[k + j]
  <2>1. \A i \in j + 1 .. Len(held) : held[i] \in 0 .. Len(q)
    BY <1>1
  <2>2. j \in Nat /\ j <= Len(held)
    BY <1>1
  <2>3. /\ held' \in Seq(0 .. Len(q)) /\ Len(held') = Len(held) - j
        /\ \A k \in 1 .. Len(held) - j : held'[k] = held[k + j]
    <3> DEFINE m == j + 1
               n == Len(held)
    <3>1. m \in Int /\ n \in Int /\ (\A i \in m .. n : held[i] \in 0 .. Len(q))
          /\ (m <= n \/ Len(held) - j = 0) /\ n - m + 1 = Len(held) - j
          /\ \A k \in 1 .. Len(held) - j : m + k - 1 = k + j
      BY <1>1, <2>1, <2>2, SMTT(60)
    <3>2. held' = SubSeq(held, m, n)
      BY <1>2
    <3> HIDE DEF m, n
    <3>3. /\ held' \in Seq(0 .. Len(q)) /\ Len(held') = (IF m <= n THEN n - m + 1 ELSE 0)
          /\ \A i \in 1 .. n - m + 1 : held'[i] = held[m + i - 1]
      BY <3>1, <3>2, SubSeqProperties
    <3> QED
      BY <3>1, <3>3
  <2>4. DOMAIN held' = 1 .. Len(held) - j
    BY <2>3
  <2> QED
    BY <1>1, <2>2, <2>3, <2>4, SMTT(60)
<1>6. j \in Nat \ {0} /\ j <= Len(held) /\ held[j] \in 0 .. Len(q)
  BY <1>1
<1>7. wait' \in [Threads -> {"no", "block", "asleep"}] /\ NobodySleepsThroughStop'
  BY <1>2, WaitKept DEF DecoderOnly
<1>8. /\ TypeOK' /\ AnalysisInv' /\ RolesInv' /\ EventsInv'
      /\ pc'["decoder"] = "convert" /\ pc'["analysis"] = pc["analysis"]
      /\ \A t \in Threads \cup {"start"} : t # "decoder" => cur'[t] = cur[t]
  <2>1. Len(held') <= DecoderQueueLimit + 1
    BY <1>1, <1>5, <1>6, PreAssumption
  <2> QED
    BY <1>2, <1>4, <1>5, <1>6, <1>7, <2>1, DecoderFrame
<1>9. cur'["decoder"] = held[j]
  BY <1>1, <1>2, ThreadNames
<1>10. LocksHaveHolders'
  <2> SUFFICES ASSUME NEW i \in DOMAIN q', q'[i].lock # Free
               PROVE  \/ i = cur'[q'[i].lock]
                      \/ q'[i].lock = "decoder" /\ \E k \in DOMAIN held' : i = held'[k]
                      \/ q'[i].lock = "analysis" /\ i = cur'["start"]
    BY DEF LocksHaveHolders, HeldSet
  <2>1. i \in DOMAIN q /\ i \notin S /\ q'[i].lock = q[i].lock
    BY <1>4
  <2>2. q[i].lock \in Threads
    <3>1. q[i] \in Packets
      BY <1>1, <2>1
    <3> QED
      BY <2>1, <3>1 DEF Packets
  <2>3. \/ i = cur[q[i].lock]
        \/ q[i].lock = "decoder" /\ \E k \in DOMAIN held : i = held[k]
        \/ q[i].lock = "analysis" /\ i = cur["start"]
    BY <2>1 DEF HandoffInv, LocksHaveHolders, HeldSet
  <2>4. i # 0
    BY <1>1, <2>1
  <2>5. CASE i = cur[q[i].lock]
    BY <1>3, <1>8, <2>1, <2>2, <2>4, <2>5
  <2>6. CASE q[i].lock = "analysis" /\ i = cur["start"]
    BY <1>8, <2>1, <2>6, ThreadNames
  <2>7. CASE q[i].lock = "decoder" /\ \E k \in DOMAIN held : i = held[k]
    <3>1. PICK k \in DOMAIN held : i = held[k]
      BY <2>7
    <3>2. k \in Nat /\ ~(k \in 1 .. j - 1)
      BY <1>1, <2>1, <3>1 DEF S
    <3>3. CASE k = j
      BY <1>9, <2>1, <2>7, <3>1, <3>3
    <3>4. CASE k # j
      <4>1. k - j \in 1 .. Len(held) - j /\ (k - j) + j = k
        BY <1>1, <1>6, <3>1, <3>2, <3>4
      <4>2. held'[k - j] = held[k]
        BY <1>5, <4>1
      <4> QED
        BY <1>5, <2>1, <2>7, <3>1, <4>1, <4>2
    <3> QED
      BY <3>3, <3>4
  <2> QED
    BY <2>3, <2>5, <2>6, <2>7
<1>11. HandsInv'
  <2>1. \A i \in DOMAIN q : i \notin S => q'[i].lock = q[i].lock
    BY <1>4
  <2>2. \A k \in DOMAIN held : k \notin 1 .. j - 1 /\ held[k] # 0 => held[k] \notin S
    <3> SUFFICES ASSUME NEW k \in DOMAIN held, k \notin 1 .. j - 1, held[k] # 0,
                        NEW m \in 1 .. j - 1, held[k] = held[m]
                 PROVE  FALSE
      BY DEF S
    <3>1. m \in DOMAIN held /\ m # k
      BY <1>1, <1>6
    <3> QED
      BY <1>1, <3>1 DEF HandsInv
  <2>3. \A i \in S : i # 0 => q[i].lock = "decoder"
    <3>1. \A k \in 1 .. j - 1 : k \in DOMAIN held
      BY <1>1, <1>6
    <3> QED
      BY <1>1, <3>1 DEF HandsInv, S
  <2>4. \A t \in Threads \cup {"start"} : cur[t] # 0 => cur[t] \in DOMAIN q
    BY <1>1
  <2>5. \A k \in DOMAIN held : held[k] # 0 => held[k] \in DOMAIN q
    BY <1>1
  <2>6. j \notin 1 .. j - 1 /\ \A k \in 1 .. Len(held) - j : k + j \notin 1 .. j - 1 /\ k + j # j
    BY <1>1, <1>6
  <2>7. cur'["decoder"] # 0 => q'[cur'["decoder"]].lock = "decoder"
    BY <1>1, <1>9, <2>1, <2>2, <2>5, <2>6 DEF HandsInv
  <2>8. \A k \in DOMAIN held' : held'[k] # 0 => q'[held'[k]].lock = "decoder"
    <3> SUFFICES ASSUME NEW k \in 1 .. Len(held) - j, held'[k] # 0
                 PROVE  q'[held'[k]].lock = "decoder"
      BY <1>5
    <3>1. k + j \in DOMAIN held /\ held'[k] = held[k + j] /\ k + j \notin 1 .. j - 1
      BY <1>5, <2>6
    <3> QED
      BY <1>1, <2>1, <2>2, <2>5, <3>1, SMTT(60) DEF HandsInv
  <2>9. \A k, m \in DOMAIN held' : k # m /\ held'[k] # 0 => held'[k] # held'[m]
    <3> SUFFICES ASSUME NEW k \in 1 .. Len(held) - j, NEW m \in 1 .. Len(held) - j,
                        k # m, held'[k] # 0
                 PROVE  held'[k] # held'[m]
      BY <1>5
    <3>1. k + j \in DOMAIN held /\ m + j \in DOMAIN held /\ k + j # m + j
          /\ held'[k] = held[k + j] /\ held'[m] = held[m + j]
      BY <1>5, <1>6
    <3> QED
      BY <1>1, <3>1 DEF HandsInv
  <2>10. \A k \in DOMAIN held' : held'[k] # 0 => held'[k] # cur'["decoder"]
    <3> SUFFICES ASSUME NEW k \in 1 .. Len(held) - j, held'[k] # 0
                 PROVE  held'[k] # held[j]
      BY <1>5, <1>9
    <3>1. k + j \in DOMAIN held /\ k + j # j /\ held'[k] = held[k + j]
      BY <1>5, <2>6
    <3> QED
      BY <1>1, <3>1 DEF HandsInv
  <2>11. \A t \in Threads \cup {"start"} :
           t # "decoder" /\ cur[t] # 0 /\ q[cur[t]].lock # "decoder"
             => q'[cur'[t]].lock = q[cur[t]].lock
    BY <1>8, <2>1, <2>3, <2>4
  <2>12. \A e \in Events : cur'[e] # 0 => q'[cur'[e]].lock = e
    BY <1>1, <1>8, <2>11, ThreadNames DEF HandsInv
  <2>13. cur'["start"] # 0 => q'[cur'["start"]].lock = "analysis"
    BY <1>1, <1>8, <2>11, ThreadNames DEF HandsInv
  <2>14. (cur'["analysis"] # 0 /\ pc'["analysis"] \in {"work", "close", "open", "start", "create"})
           => q'[cur'["analysis"]].lock = "analysis"
    BY <1>1, <1>8, <2>11, ThreadNames DEF HandsInv
  <2>15. (cur'["start"] # 0 /\ pc'["analysis"] = "create") => cur'["start"] # cur'["analysis"]
    BY <1>1, <1>8, ThreadNames DEF HandsInv
  <2> QED
    BY <2>7, <2>8, <2>9, <2>10, <2>12, <2>13, <2>14, <2>15 DEF HandsInv
<1>12. DecoderInv'
  BY <1>2, <1>8 DEF HandoffInv, DecoderInv, DecoderOnly, Terminate
<1> QED
  BY <1>7, <1>8, <1>10, <1>11, <1>12 DEF HandoffInv

-----------------------------------------------------------------------------
(* Taking a packet and giving it back.                                     *)

\* An unlocked packet is in nobody's hand: who takes it is its only owner.
LEMMA TakeFacts ==
  ASSUME HandoffInv, NEW t \in Threads, it[t] # 0, Available(t),
         NEW owner \in Threads, NEW slot \in Threads \cup {"start"},
         slot = owner \/ (slot = "start" /\ owner = "analysis"),
         cur[slot] = 0, q' = Locked(owner, it[t]), cur' = [cur EXCEPT ![slot] = it[t]],
         held' = held,
         pc'["analysis"] \in {"work", "close", "open", "start", "create"}
           => \/ pc["analysis"] \in {"work", "close", "open", "start", "create"}
              \/ slot = "analysis",
         pc'["analysis"] = "create" =>
           slot # "analysis" /\ pc["analysis"] \in {"start", "create"}
  PROVE  /\ q' \in Seq(Packets) /\ Len(q') = Len(q) /\ DOMAIN q' = DOMAIN q
         /\ \A i \in DOMAIN q : q'[i].decoded = q[i].decoded /\ q'[i].analyzed = q[i].analyzed
         /\ it[t] \in 1 .. Len(q)
         /\ \A u \in Threads \cup {"start"} : cur'[u] = IF u = slot THEN it[t] ELSE cur[u]
         /\ LocksHaveHolders' /\ HandsInv'
<1> DEFINE k == it[t]
<1>1. q \in Seq(Packets) /\ DOMAIN q = 1 .. Len(q) /\ Len(q) \in Nat
      /\ cur \in [Threads \cup {"start"} -> 0 .. Len(q)] /\ held \in Seq(0 .. Len(q))
      /\ HandsInv
  BY DEF HandoffInv, TypeOK, Packets
<1>2. k \in 1 .. Len(q) /\ k \in DOMAIN q /\ k # 0 /\ q[k].lock = Free
  BY <1>1 DEF HandoffInv, TypeOK, Available, AtEnd
<1>3. q' = Locked(owner, k) /\ cur' = [cur EXCEPT ![slot] = k]
  OBVIOUS
<1> HIDE DEF k
<1>4. /\ q' \in Seq(Packets) /\ Len(q') = Len(q) /\ DOMAIN q' = DOMAIN q
      /\ \A i \in DOMAIN q : /\ q'[i].decoded = q[i].decoded
                             /\ q'[i].analyzed = q[i].analyzed
                             /\ q'[i].lock = IF i = k THEN owner ELSE q[i].lock
  BY <1>1, <1>3, LockedFacts
<1>5. \A u \in Threads \cup {"start"} : cur'[u] = IF u = slot THEN k ELSE cur[u]
  BY <1>1, <1>3
<1>6. LocksHaveHolders'
  <2> SUFFICES ASSUME NEW i \in DOMAIN q', q'[i].lock # Free
               PROVE  \/ i = cur'[q'[i].lock]
                      \/ q'[i].lock = "decoder" /\ i \in HeldSet
                      \/ q'[i].lock = "analysis" /\ i = cur'["start"]
    BY DEF LocksHaveHolders, HeldSet
  <2>1. CASE i = k
    BY <1>4, <1>5, <2>1
  <2>2. CASE i # k
    <3>1. i \in DOMAIN q /\ q'[i].lock = q[i].lock /\ q[i] \in Packets /\ i # 0
      BY <1>1, <1>4, <2>2
    <3>2. q[i].lock \in Threads
      BY <3>1 DEF Packets
    <3>3. \/ i = cur[q[i].lock]
          \/ q[i].lock = "decoder" /\ i \in HeldSet
          \/ q[i].lock = "analysis" /\ i = cur["start"]
      BY <3>1 DEF HandoffInv, LocksHaveHolders
    <3> QED
      BY <1>5, <3>1, <3>2, <3>3
  <2> QED
    BY <2>1, <2>2
<1>7. HandsInv'
  <2>1. \A u \in Threads \cup {"start"} : cur[u] # 0 => cur[u] \in DOMAIN q
    BY <1>1
  <2>2. \A j \in DOMAIN held : held[j] # 0 => held[j] \in DOMAIN q
    BY <1>1
  <2>3. \A i \in DOMAIN q : i = k => q[i].lock = Free
    BY <1>2
  <2>4. cur'["decoder"] # 0 => q'[cur'["decoder"]].lock = "decoder"
    BY <1>1, <1>2, <1>4, <1>5, <2>1, <2>3, ThreadNames DEF HandsInv, Free
  <2>5. \A j \in DOMAIN held : held[j] # 0 => held[j] # k
    BY <1>1, <2>2, <2>3 DEF HandsInv, Free
  <2>6. \A j \in DOMAIN held' : held'[j] # 0 => q'[held'[j]].lock = "decoder"
    BY <1>1, <1>4, <2>2, <2>5 DEF HandsInv
  <2>7. \A j, m \in DOMAIN held' : j # m /\ held'[j] # 0 => held'[j] # held'[m]
    BY <1>1 DEF HandsInv
  <2>8. \A j \in DOMAIN held' : held'[j] # 0 => held'[j] # cur'["decoder"]
    BY <1>1, <1>5, <2>5, ThreadNames DEF HandsInv
  <2>9. \A e \in Events : cur'[e] # 0 => q'[cur'[e]].lock = e
    BY <1>1, <1>2, <1>4, <1>5, <2>1, <2>3, ThreadNames DEF HandsInv
  <2>10. cur["start"] # 0 => cur["start"] # k
    BY <1>1, <2>1, <2>3 DEF HandsInv, Free
  <2>11. cur'["start"] # 0 => q'[cur'["start"]].lock = "analysis"
    BY <1>1, <1>2, <1>4, <1>5, <2>1, <2>10, ThreadNames DEF HandsInv
  <2>12. (cur["analysis"] # 0 /\ pc["analysis"] \in {"work", "close", "open", "start", "create"})
            => cur["analysis"] # k /\ q[cur["analysis"]].lock = "analysis"
    BY <1>1, <2>1, <2>3, ThreadNames DEF HandsInv, Free
  <2>13. (cur'["analysis"] # 0 /\ pc'["analysis"] \in {"work", "close", "open", "start", "create"})
           => q'[cur'["analysis"]].lock = "analysis"
    <3>1. CASE slot = "analysis"
      BY <1>2, <1>4, <1>5, <3>1, ThreadNames
    <3>2. CASE slot # "analysis"
      BY <1>4, <1>5, <2>1, <2>12, <3>2, ThreadNames
    <3> QED
      BY <3>1, <3>2
  <2>14. (cur'["start"] # 0 /\ pc'["analysis"] = "create") => cur'["start"] # cur'["analysis"]
    <3> SUFFICES ASSUME cur'["start"] # 0, pc'["analysis"] = "create"
                 PROVE  cur'["start"] # cur'["analysis"]
      OBVIOUS
    <3>1. slot # "analysis" /\ pc["analysis"] \in {"start", "create"}
          /\ cur'["analysis"] = cur["analysis"]
      BY <1>5, ThreadNames
    <3>2. CASE slot = "start"
      BY <1>2, <1>5, <2>12, <3>1, <3>2
    <3>3. CASE slot # "start"
      <4>1. cur["start"] # 0 => pc["analysis"] = "create"
        BY <3>1 DEF HandoffInv, AnalysisInv
      <4> QED
        BY <1>1, <1>5, <3>1, <3>3, <4>1 DEF HandsInv
    <3> QED
      BY <3>2, <3>3
  <2> QED
    BY <2>4, <2>6, <2>7, <2>8, <2>9, <2>11, <2>13, <2>14 DEF HandsInv
<1> QED
  BY <1>2, <1>4, <1>5, <1>6, <1>7 DEF k

\* Giving a packet back releases the owner's lock of it; whatever else has been
\* locked stays locked.
LEMMA GiveFacts ==
  ASSUME HandoffInv, NEW owner \in Threads, NEW slot \in Threads \cup {"start"},
         slot = owner \/ (slot = "start" /\ owner = "analysis"),
         q' = Unlocked(owner, {cur[slot]}), cur' = [cur EXCEPT ![slot] = 0],
         held' = held,
         pc'["analysis"] \in {"work", "close", "open", "start", "create"}
           => owner # "analysis" /\ pc'["analysis"] = pc["analysis"],
         slot = "analysis" => cur["start"] = 0
  PROVE  /\ q' \in Seq(Packets) /\ Len(q') = Len(q) /\ DOMAIN q' = DOMAIN q
         /\ \A i \in DOMAIN q : q'[i].decoded = q[i].decoded /\ q'[i].analyzed = q[i].analyzed
         /\ \A u \in Threads \cup {"start"} : cur'[u] = IF u = slot THEN 0 ELSE cur[u]
         /\ LocksHaveHolders' /\ HandsInv'
<1> DEFINE k == cur[slot]
<1>1. q \in Seq(Packets) /\ DOMAIN q = 1 .. Len(q) /\ Len(q) \in Nat
      /\ cur \in [Threads \cup {"start"} -> 0 .. Len(q)] /\ held \in Seq(0 .. Len(q))
      /\ HandsInv
  BY DEF HandoffInv, TypeOK, Packets
<1>2. q' = Unlocked(owner, {k}) /\ k = cur[slot]
  OBVIOUS
<1> HIDE DEF k
<1>3. /\ q' \in Seq(Packets) /\ Len(q') = Len(q) /\ DOMAIN q' = DOMAIN q
      /\ \A i \in DOMAIN q : /\ q'[i].decoded = q[i].decoded
                             /\ q'[i].analyzed = q[i].analyzed
                             /\ q'[i].lock = IF i = k /\ q[i].lock = owner
                                             THEN Free ELSE q[i].lock
  <2>1. \A i : i \in {k} <=> i = k
    OBVIOUS
  <2> QED
    BY <1>1, <1>2, <2>1, UnlockedFacts
<1>4. \A u \in Threads \cup {"start"} : cur'[u] = IF u = slot THEN 0 ELSE cur[u]
  BY <1>1
<1>5. LocksHaveHolders'
  <2> SUFFICES ASSUME NEW i \in DOMAIN q', q'[i].lock # Free
               PROVE  \/ i = cur'[q'[i].lock]
                      \/ q'[i].lock = "decoder" /\ i \in HeldSet
                      \/ q'[i].lock = "analysis" /\ i = cur'["start"]
    BY DEF LocksHaveHolders, HeldSet
  <2>1. i \in DOMAIN q /\ q'[i].lock = q[i].lock /\ q[i] \in Packets
        /\ ~(i = cur[slot] /\ q[i].lock = owner)
    <3>1. i \in DOMAIN q /\ q[i] \in Packets
      BY <1>1, <1>3
    <3> QED
      BY <1>2, <1>3, <3>1
  <2>2. q[i].lock \in Threads
    BY <2>1 DEF Packets
  <2>3. \/ i = cur[q[i].lock]
        \/ q[i].lock = "decoder" /\ i \in HeldSet
        \/ q[i].lock = "analysis" /\ i = cur["start"]
    BY <2>1 DEF HandoffInv, LocksHaveHolders
  <2> QED
    BY <1>4, <2>1, <2>2, <2>3, ThreadNames
<1>6. HandsInv'
  <2>1. \A u \in Threads \cup {"start"} : cur[u] # 0 => cur[u] \in DOMAIN q
    BY <1>1
  <2>2. \A j \in DOMAIN held : held[j] # 0 => held[j] \in DOMAIN q
    BY <1>1
  <2>3. cur'["decoder"] # 0 => q'[cur'["decoder"]].lock = "decoder"
    BY <1>1, <1>3, <1>4, <2>1, ThreadNames DEF HandsInv
  <2>4. \A j \in DOMAIN held : held[j] # 0 /\ held[j] = k => owner # "decoder"
    BY <1>1, <1>2 DEF HandsInv
  <2>5. \A j \in DOMAIN held' : held'[j] # 0 => q'[held'[j]].lock = "decoder"
    <3> SUFFICES ASSUME NEW j \in DOMAIN held, held[j] # 0
                 PROVE  q'[held[j]].lock = "decoder"
      OBVIOUS
    <3>1. q[held[j]].lock = "decoder" /\ held[j] \in DOMAIN q
      BY <1>1, <2>2 DEF HandsInv
    <3> QED
      BY <1>3, <2>4, <3>1
  <2>6. \A j, m \in DOMAIN held' : j # m /\ held'[j] # 0 => held'[j] # held'[m]
    BY <1>1 DEF HandsInv
  <2>7. \A j \in DOMAIN held' : held'[j] # 0 => held'[j] # cur'["decoder"]
    BY <1>1, <1>4, ThreadNames DEF HandsInv
  <2>8. \A e \in Events : cur'[e] # 0 => q'[cur'[e]].lock = e
    <3> SUFFICES ASSUME NEW e \in Events, cur'[e] # 0
                 PROVE  q'[cur'[e]].lock = e
      OBVIOUS
    <3>1. e \in Threads /\ e # slot /\ cur'[e] = cur[e] /\ cur[e] # 0 /\ cur[e] \in DOMAIN q
      BY <1>4, <2>1, ThreadNames
    <3>2. q[cur[e]].lock = e /\ owner # e
      BY <1>1, <3>1, ThreadNames DEF HandsInv
    <3> QED
      BY <1>3, <3>1, <3>2
  <2>9. cur'["start"] # 0 => q'[cur'["start"]].lock = "analysis"
    <3> SUFFICES ASSUME cur'["start"] # 0
                 PROVE  q'[cur'["start"]].lock = "analysis"
      OBVIOUS
    <3>1. slot # "start" /\ cur'["start"] = cur["start"] /\ cur["start"] # 0
          /\ cur["start"] \in DOMAIN q
      BY <1>4, <2>1
    <3>2. q[cur["start"]].lock = "analysis" /\ owner # "analysis"
      BY <1>1, <3>1 DEF HandsInv
    <3> QED
      BY <1>3, <3>1, <3>2
  <2>10. (cur'["analysis"] # 0 /\ pc'["analysis"] \in {"work", "close", "open", "start", "create"})
           => q'[cur'["analysis"]].lock = "analysis"
    BY <1>1, <1>3, <1>4, <2>1, ThreadNames DEF HandsInv
  <2>11. (cur'["start"] # 0 /\ pc'["analysis"] = "create") => cur'["start"] # cur'["analysis"]
    BY <1>1, <1>4, ThreadNames DEF HandsInv
  <2> QED
    BY <2>3, <2>5, <2>6, <2>7, <2>8, <2>9, <2>10, <2>11 DEF HandsInv
<1> QED
  BY <1>3, <1>4, <1>5, <1>6

\* get_packet finds the packet locked, or none: the thread will sleep.
LEMMA BlockInv ==
  ASSUME HandoffInv, NEW t \in Threads, ~deleting, wait' = [wait EXCEPT ![t] = "block"],
         UNCHANGED <<q, it, cur, held, pc, deleting, main, event, closing>>
  PROVE  HandoffInv'
<1>1. TypeOK'
  <2>1. wait' \in [Threads -> {"no", "block", "asleep"}]
    BY DEF HandoffInv, TypeOK
  <2> QED
    BY <2>1 DEF HandoffInv, TypeOK
<1>2. NobodySleepsThroughStop'
  BY DEF NobodySleepsThroughStop
<1>3. LocksHaveHolders' /\ HandsInv'
  BY QuietHands
<1>4. DecoderInv' /\ AnalysisInv' /\ RolesInv' /\ EventsInv'
  BY DEF HandoffInv, DecoderInv, AnalysisInv, RolesInv, EventsInv, Opening, Complete
<1> QED
  BY <1>1, <1>2, <1>3, <1>4 DEF HandoffInv

\* The decoder takes its next packet, goes back, or will sleep.
LEMMA DecoderGetInv ==
  ASSUME HandoffInv, DecoderGet
  PROVE  HandoffInv'
<1>1. pc["decoder"] = "get" /\ UNCHANGED <<held, deleting, main, event, closing>>
      /\ cur["decoder"] = 0 /\ Len(held) <= DecoderQueueLimit /\ "decoder" \in Threads
      /\ it["decoder"] # 0 /\ DecoderOnly
  BY ThreadNames DEF DecoderGet, GetPacket, HandoffInv, DecoderInv, TypeOK, DecoderOnly
<1>2. /\ q \in Seq(Packets) /\ Len(q) \in Nat /\ 0 \in 0 .. Len(q)
      /\ held' \in Seq(0 .. Len(q)) /\ Len(held') <= DecoderQueueLimit + 1
      /\ Len(held') <= DecoderQueueLimit /\ main' = main
  BY <1>1 DEF HandoffInv, TypeOK, Packets
<1>3. CASE deleting /\ Go("decoder", "loop") /\ UNCHANGED <<q, it, cur>> /\ NotifyAll
  <2>1. pc' = [pc EXCEPT !["decoder"] = "loop"]
    BY <1>3 DEF Go
  <2>2. wait' \in [Threads -> {"no", "block", "asleep"}] /\ NobodySleepsThroughStop'
    BY <1>1, <1>3, WaitKept
  <2>3. TypeOK' /\ AnalysisInv' /\ RolesInv' /\ EventsInv' /\ pc'["decoder"] = "loop"
        /\ pc'["analysis"] = pc["analysis"]
    BY <1>1, <1>2, <1>3, <2>1, <2>2, DecoderFrame
  <2>4. LocksHaveHolders' /\ HandsInv'
    BY <1>1, <1>3, <2>3, QuietHands
  <2>5. DecoderInv'
    BY <1>1, <1>2, <1>3, <2>3 DEF HandoffInv, DecoderInv
  <2> QED
    BY <2>2, <2>3, <2>4, <2>5 DEF HandoffInv
<1>4. CASE /\ ~deleting /\ Available("decoder") /\ q' = Locked("decoder", it["decoder"])
           /\ Work("decoder", it["decoder"]) /\ Go("decoder", "work") /\ UNCHANGED <<it, wait>>
  <2>1. pc' = [pc EXCEPT !["decoder"] = "work"]
        /\ cur' = [cur EXCEPT !["decoder"] = it["decoder"]]
    BY <1>4 DEF Go, Work
  <2>2. wait' \in [Threads -> {"no", "block", "asleep"}] /\ NobodySleepsThroughStop'
    BY <1>1, <1>4, WaitKept
  <2>3. pc'["analysis"] = pc["analysis"]
    BY <2>1, ThreadNames DEF HandoffInv, TypeOK
  <2>4. /\ q' \in Seq(Packets) /\ Len(q') = Len(q) /\ DOMAIN q' = DOMAIN q
        /\ \A i \in DOMAIN q : q'[i].decoded = q[i].decoded /\ q'[i].analyzed = q[i].analyzed
        /\ it["decoder"] \in 1 .. Len(q)
        /\ LocksHaveHolders' /\ HandsInv'
    BY <1>1, <1>4, <2>1, <2>3, TakeFacts
  <2>5. it["decoder"] \in 0 .. Len(q)
    BY <1>2, <2>4
  <2>6. TypeOK' /\ AnalysisInv' /\ RolesInv' /\ EventsInv' /\ pc'["decoder"] = "work"
    BY <1>1, <1>2, <1>4, <2>1, <2>2, <2>4, <2>5, DecoderFrame
  <2>7. DecoderInv'
    BY <1>1, <1>2, <2>6 DEF HandoffInv, DecoderInv
  <2> QED
    BY <2>2, <2>4, <2>6, <2>7 DEF HandoffInv
<1>5. CASE ~deleting /\ wait' = [wait EXCEPT !["decoder"] = "block"] /\ UNCHANGED <<q, it, cur, pc>>
  BY <1>1, <1>5, BlockInv
<1> QED
  BY <1>3, <1>4, <1>5 DEF DecoderGet, GetPacket

\* The codec takes the packet: the lock goes along with it.
LEMMA SendPacketInv ==
  ASSUME HandoffInv, SendPacket
  PROVE  HandoffInv'
<1> DEFINE c == cur["decoder"]
<1>1. q \in Seq(Packets) /\ Len(q) \in Nat /\ DOMAIN q = 1 .. Len(q)
      /\ cur \in [Threads \cup {"start"} -> 0 .. Len(q)] /\ held \in Seq(0 .. Len(q))
      /\ Len(held) \in Nat /\ DOMAIN held = 1 .. Len(held) /\ HandsInv
      /\ c \in 0 .. Len(q)
  BY ThreadNames DEF HandoffInv, TypeOK, Packets
<1>2. /\ pc["decoder"] = "work" /\ held' = Append(held, c) /\ DecoderOnly
      /\ cur' = [cur EXCEPT !["decoder"] = 0] /\ it' = Incremented("decoder")
      /\ pc' = [pc EXCEPT !["decoder"] = "loop"] /\ UNCHANGED <<q, wait>>
  BY DEF SendPacket, Go, Work
<1> HIDE DEF c
<1>3. /\ held' \in Seq(0 .. Len(q)) /\ Len(held') = Len(held) + 1
      /\ DOMAIN held' = 1 .. Len(held) + 1
      /\ (\A j \in 1 .. Len(held) : held'[j] = held[j]) /\ held'[Len(held) + 1] = c
  BY <1>1, <1>2
<1>4. Len(held) <= DecoderQueueLimit /\ Len(held') <= DecoderQueueLimit + 1
  BY <1>1, <1>2, <1>3, PreAssumption DEF HandoffInv, DecoderInv
<1>5. wait' \in [Threads -> {"no", "block", "asleep"}] /\ NobodySleepsThroughStop'
  BY <1>2, WaitKept DEF DecoderOnly
<1>6. 0 \in 0 .. Len(q)
  BY <1>1
<1>7. /\ TypeOK' /\ AnalysisInv' /\ RolesInv' /\ EventsInv' /\ pc'["decoder"] = "loop"
      /\ pc'["analysis"] = pc["analysis"]
      /\ \A t \in Threads \cup {"start"} : t # "decoder" => cur'[t] = cur[t]
  BY <1>1, <1>2, <1>3, <1>4, <1>5, <1>6, DecoderFrame
<1>8. cur'["decoder"] = 0
  BY <1>1, <1>2, ThreadNames
<1>9. LocksHaveHolders'
  <2> SUFFICES ASSUME NEW i \in DOMAIN q, q[i].lock # Free
               PROVE  \/ i = cur'[q[i].lock]
                      \/ q[i].lock = "decoder" /\ \E j \in DOMAIN held' : i = held'[j]
                      \/ q[i].lock = "analysis" /\ i = cur'["start"]
    BY <1>2 DEF LocksHaveHolders, HeldSet
  <2>1. q[i] \in Packets
    BY <1>1
  <2>2. q[i].lock \in Threads
    BY <2>1 DEF Packets
  <2>3. \/ i = cur[q[i].lock]
        \/ q[i].lock = "decoder" /\ \E j \in DOMAIN held : i = held[j]
        \/ q[i].lock = "analysis" /\ i = cur["start"]
    BY DEF HandoffInv, LocksHaveHolders, HeldSet
  <2>4. CASE q[i].lock = "decoder" /\ i = cur["decoder"]
    <3>1. Len(held) + 1 \in DOMAIN held' /\ held'[Len(held) + 1] = i
      BY <1>1, <1>3, <2>4 DEF c
    <3> QED
      BY <2>4, <3>1
  <2>5. CASE q[i].lock # "decoder" /\ i = cur[q[i].lock]
    BY <1>7, <2>2, <2>5
  <2>6. CASE q[i].lock = "decoder" /\ \E j \in DOMAIN held : i = held[j]
    <3>1. PICK j \in DOMAIN held : i = held[j]
      BY <2>6
    <3>2. j \in DOMAIN held' /\ held'[j] = i
      BY <1>1, <1>3, <3>1
    <3> QED
      BY <2>6, <3>2
  <2>7. CASE q[i].lock = "analysis" /\ i = cur["start"]
    BY <1>7, <2>7, ThreadNames
  <2> QED
    BY <2>3, <2>4, <2>5, <2>6, <2>7
<1>10. HandsInv'
  <2>1. \A j \in DOMAIN held' : j # Len(held) + 1 => j \in DOMAIN held /\ held'[j] = held[j]
    BY <1>1, <1>3
  <2>2. \A j \in DOMAIN held' : held'[j] # 0 => q'[held'[j]].lock = "decoder"
    <3> SUFFICES ASSUME NEW j \in DOMAIN held', held'[j] # 0
                 PROVE  q[held'[j]].lock = "decoder"
      BY <1>2
    <3>1. CASE j = Len(held) + 1
      BY <1>1, <1>3, <3>1 DEF HandsInv, c
    <3>2. CASE j # Len(held) + 1
      BY <1>1, <2>1, <3>2 DEF HandsInv
    <3> QED
      BY <3>1, <3>2
  <2>3. \A j, k \in DOMAIN held' : j # k /\ held'[j] # 0 => held'[j] # held'[k]
    <3> SUFFICES ASSUME NEW j \in DOMAIN held', NEW k \in DOMAIN held', j # k, held'[j] # 0
                 PROVE  held'[j] # held'[k]
      OBVIOUS
    <3>1. \A m \in DOMAIN held : held[m] # 0 => held[m] # c
      BY <1>1 DEF HandsInv, c
    <3>2. CASE j # Len(held) + 1 /\ k # Len(held) + 1
      BY <1>1, <2>1, <3>2 DEF HandsInv
    <3>3. CASE j # Len(held) + 1 /\ k = Len(held) + 1
      BY <1>3, <2>1, <3>1, <3>3
    <3>4. CASE j = Len(held) + 1
      BY <1>3, <2>1, <3>1, <3>4
    <3> QED
      BY <3>2, <3>3, <3>4
  <2>4. \A j \in DOMAIN held' : held'[j] # 0 => held'[j] # cur'["decoder"]
    BY <1>8
  <2>5. \A e \in Events : cur'[e] # 0 => q'[cur'[e]].lock = e
    BY <1>1, <1>2, <1>7, ThreadNames DEF HandsInv
  <2>6. /\ cur'["start"] # 0 => q'[cur'["start"]].lock = "analysis"
        /\ (cur'["analysis"] # 0 /\ pc'["analysis"] \in {"work", "close", "open", "start", "create"})
             => q'[cur'["analysis"]].lock = "analysis"
        /\ (cur'["start"] # 0 /\ pc'["analysis"] = "create") => cur'["start"] # cur'["analysis"]
    BY <1>1, <1>2, <1>7, ThreadNames DEF HandsInv
  <2> QED
    BY <1>8, <2>2, <2>3, <2>4, <2>5, <2>6 DEF HandsInv
<1>11. DecoderInv'
  BY <1>2, <1>7, <1>8 DEF HandoffInv, DecoderInv, DecoderOnly
<1> QED
  BY <1>5, <1>7, <1>9, <1>10, <1>11 DEF HandoffInv

\* The decoder gives its packet back, sent or not.
LEMMA DecoderGiveInv ==
  ASSUME HandoffInv, SendFails \/ DecoderUnlock
  PROVE  HandoffInv'
<1>1. /\ pc["decoder"] \in {"work", "unlock"} /\ DecoderOnly
      /\ q' = Unlocked("decoder", {cur["decoder"]})
      /\ cur' = [cur EXCEPT !["decoder"] = 0] /\ UNCHANGED <<it, held, wait>>
  BY DEF SendFails, DecoderUnlock, Work
<1>2. PICK next \in {"loop", "pause"} : pc' = [pc EXCEPT !["decoder"] = next]
  BY DEF SendFails, DecoderUnlock, Go
<1>3. pc'["analysis"] = pc["analysis"] /\ "decoder" \in Threads
  BY <1>2, ThreadNames DEF HandoffInv, TypeOK
<1>4. /\ q' \in Seq(Packets) /\ Len(q') = Len(q) /\ DOMAIN q' = DOMAIN q
      /\ \A i \in DOMAIN q : q'[i].decoded = q[i].decoded /\ q'[i].analyzed = q[i].analyzed
      /\ cur'["decoder"] = 0
      /\ LocksHaveHolders' /\ HandsInv'
  <2> DEFINE d == "decoder"
  <2>1. /\ d \in Threads /\ d \in Threads \cup {"start"} /\ d # "analysis"
        /\ q' = Unlocked(d, {cur[d]}) /\ cur' = [cur EXCEPT ![d] = 0]
    BY <1>1, <1>3
  <2> HIDE DEF d
  <2>2. /\ q' \in Seq(Packets) /\ Len(q') = Len(q) /\ DOMAIN q' = DOMAIN q
        /\ \A i \in DOMAIN q : q'[i].decoded = q[i].decoded /\ q'[i].analyzed = q[i].analyzed
        /\ \A u \in Threads \cup {"start"} : cur'[u] = IF u = d THEN 0 ELSE cur[u]
        /\ LocksHaveHolders' /\ HandsInv'
    BY <1>1, <1>3, <2>1, GiveFacts
  <2> QED
    BY <2>1, <2>2 DEF d
<1>5. wait' \in [Threads -> {"no", "block", "asleep"}] /\ NobodySleepsThroughStop'
  BY <1>1, WaitKept DEF DecoderOnly
<1>6. /\ 0 \in 0 .. Len(q)
      /\ held' \in Seq(0 .. Len(q)) /\ Len(held') <= DecoderQueueLimit + 1
  BY <1>1 DEF HandoffInv, TypeOK
<1>7. TypeOK' /\ AnalysisInv' /\ RolesInv' /\ EventsInv' /\ pc'["decoder"] = next
  BY <1>1, <1>2, <1>4, <1>5, <1>6, DecoderFrame
<1>8. DecoderInv'
  BY <1>1, <1>4, <1>7 DEF HandoffInv, DecoderInv, DecoderOnly
<1> QED
  BY <1>4, <1>5, <1>7, <1>8 DEF HandoffInv

\* Flags change, locks do not.
LEMMA ProgressHands ==
  ASSUME HandoffInv, DOMAIN q' = DOMAIN q, \A i \in DOMAIN q : q'[i].lock = q[i].lock,
         UNCHANGED <<cur, held>>,
         pc'["analysis"] \in {"work", "close", "open", "start", "create"}
           => pc'["analysis"] = pc["analysis"]
  PROVE  LocksHaveHolders' /\ HandsInv'
<1>1. /\ \A t \in Threads \cup {"start"} : cur[t] # 0 => cur[t] \in DOMAIN q
      /\ \A j \in DOMAIN held : held[j] # 0 => held[j] \in DOMAIN q
  <2>1. Len(q) \in Nat /\ DOMAIN q = 1 .. Len(q) /\ held \in Seq(0 .. Len(q))
        /\ cur \in [Threads \cup {"start"} -> 0 .. Len(q)]
    BY DEF HandoffInv, TypeOK
  <2> QED
    BY <2>1
<1>2. LocksHaveHolders'
  <2>1. HeldSet' = HeldSet
    BY DEF HeldSet
  <2> QED
    BY <2>1 DEF HandoffInv, LocksHaveHolders
<1>3. HandsInv'
  <2>1. \A t \in Threads \cup {"start"} : cur[t] # 0 => q'[cur[t]].lock = q[cur[t]].lock
    BY <1>1
  <2>2. \A j \in DOMAIN held : held[j] # 0 => q'[held[j]].lock = q[held[j]].lock
    BY <1>1
  <2> QED
    BY <2>1, <2>2, ThreadNames DEF HandoffInv, HandsInv
<1> QED
  BY <1>2, <1>3

\* The image of a packet is ready.
LEMMA ConvertInv ==
  ASSUME HandoffInv, Convert
  PROVE  HandoffInv'
<1>1. /\ pc["decoder"] = "convert" /\ DecoderOnly /\ NotifyAll
      /\ q' = Mapped({cur["decoder"]}, LAMBDA p : [p EXCEPT !.decoded = TRUE])
      /\ pc' = [pc EXCEPT !["decoder"] = "unlock"] /\ UNCHANGED <<it, cur, held>>
  BY DEF Convert, Go
<1>2. q \in Seq(Packets)
  BY DEF HandoffInv, TypeOK, Packets
<1>3. /\ q' \in Seq(Packets) /\ Len(q') = Len(q) /\ DOMAIN q' = DOMAIN q
      /\ \A i \in DOMAIN q : /\ q[i].decoded => q'[i].decoded
                             /\ q[i].analyzed => q'[i].analyzed
                             /\ q'[i].lock = q[i].lock
  BY <1>1, <1>2, ProgressFacts
<1>4. wait' \in [Threads -> {"no", "block", "asleep"}] /\ NobodySleepsThroughStop'
  BY <1>1, WaitKept DEF DecoderOnly
<1>5. /\ 0 \in 0 .. Len(q)
      /\ held' \in Seq(0 .. Len(q)) /\ Len(held') <= DecoderQueueLimit + 1
  BY <1>1 DEF HandoffInv, TypeOK
<1>6. TypeOK' /\ AnalysisInv' /\ RolesInv' /\ EventsInv' /\ pc'["decoder"] = "unlock"
      /\ pc'["analysis"] = pc["analysis"]
  BY <1>1, <1>3, <1>4, <1>5, DecoderFrame
<1>7. LocksHaveHolders' /\ HandsInv'
  BY <1>1, <1>3, <1>6, ProgressHands
<1>8. DecoderInv'
  BY <1>1, <1>6 DEF HandoffInv, DecoderInv, DecoderOnly
<1> QED
  BY <1>4, <1>6, <1>7, <1>8 DEF HandoffInv

\* Every step of the decoder keeps the invariant.
LEMMA DecoderStepInv ==
  ASSUME HandoffInv, Decoder
  PROVE  HandoffInv'
<1>1. CASE DecoderExit \/ SkipPacket \/ (ReceiveNothing /\ Flush)
  BY <1>1, DecoderFlushInv
<1>2. CASE \E j \in DOMAIN held : ReceiveFrame(j)
  BY <1>2, ReceiveFrameInv
<1>3. CASE ReceiveError \/ (ReceiveNothing /\ Len(held) <= DecoderQueueLimit
                              /\ UNCHANGED <<q, held, wait>>)
  BY <1>3, DecoderQuietInv
<1>4. CASE DecoderGet
  BY <1>4, DecoderGetInv
<1>5. CASE SendPacket
  BY <1>5, SendPacketInv
<1>6. CASE SendFails \/ DecoderUnlock
  BY <1>6, DecoderGiveInv
<1>7. CASE Convert
  BY <1>7, ConvertInv
<1>8. CASE Resume("decoder") \/ Sleep("decoder")
  BY <1>8, ResumeInv, SleepInv, ThreadNames
<1> QED
  BY <1>1, <1>2, <1>3, <1>4, <1>5, <1>6, <1>7, <1>8 DEF Decoder, ReceiveNothing

-----------------------------------------------------------------------------
(* The analysis thread.                                                    *)

\* A step of the analysis thread that starts no thread of an event leaves the
\* decoder and the packets of the events alone.
LEMMA AnalysisFrame ==
  ASSUME HandoffInv, AnalysisOnly,
         NEW next \in {"off", "loop", "pause", "get", "work", "unlock", "close", "open", "start",
                       "create", "opened", "clear", "analyzed", "increment"},
         pc' = [pc EXCEPT !["analysis"] = next],
         wait' \in [Threads -> {"no", "block", "asleep"}],
         q' \in Seq(Packets), Len(q') = Len(q), DOMAIN q' = DOMAIN q,
         \A i \in DOMAIN q : /\ q[i].decoded => q'[i].decoded
                             /\ q[i].analyzed => q'[i].analyzed,
         it' = it \/ it' = Incremented("analysis"),
         cur' \in [Threads \cup {"start"} -> 0 .. Len(q)],
         \A t \in Threads \ {"analysis"} : cur'[t] = cur[t],
         event' \in Events \cup {NoEvent}, closing' \in Events \cup {NoEvent}
  PROVE  /\ TypeOK' /\ DecoderInv' /\ EventsInv' /\ pc'["analysis"] = next
         /\ \A e \in Events : it'[e] = it[e] /\ pc'[e] = pc[e]
<1>1. TypeOK
  BY DEF HandoffInv
<1>2. it' \in [Threads -> 0 .. Len(q') + 1] /\ it'["analysis"] # 0
      /\ \A t \in Threads \ {"analysis"} : it'[t] = it[t]
  <2>1. CASE it' = it
    BY <1>1, <2>1 DEF TypeOK
  <2>2. CASE it' = Incremented("analysis")
    <3>1. it["analysis"] # 0 /\ "analysis" \in Threads
      BY <1>1, ThreadNames DEF TypeOK
    <3> QED
      BY <1>1, <2>2, <3>1, IncrementedFacts
  <2> QED
    BY <2>1, <2>2
<1>3. pc' \in [Threads -> {"off", "loop", "pause", "get", "work", "convert", "unlock", "close",
                          "open", "start", "create", "opened", "clear", "analyzed",
                          "increment", "check", "write"}]
      /\ (\A t \in Threads \ {"analysis"} : pc'[t] = pc[t]) /\ pc'["analysis"] = next
  BY <1>1, ThreadNames DEF TypeOK
<1>4. TypeOK'
  <2>1. it'["decoder"] # 0
    BY <1>1, <1>2, ThreadNames DEF TypeOK
  <2> QED
    BY <1>1, <1>2, <1>3, <2>1 DEF TypeOK, AnalysisOnly, Packets
<1>5. /\ pc'["decoder"] = pc["decoder"] /\ cur'["decoder"] = cur["decoder"]
      /\ \A e \in Events : it'[e] = it[e] /\ cur'[e] = cur[e] /\ pc'[e] = pc[e]
  BY <1>2, <1>3, ThreadNames
<1>6. DecoderInv'
  BY <1>5 DEF HandoffInv, DecoderInv, AnalysisOnly
<1>7. EventsInv'
  BY <1>5, EventsKept
<1> QED
  BY <1>3, <1>4, <1>5, <1>6, <1>7

\* The analysis looks for work, or decides what a packet means; closing an
\* event hands it over to the thread that closes.
LEMMA AnalysisQuietInv ==
  ASSUME HandoffInv, AnalyseLoop \/ Analyse \/ CloseEvent
  PROVE  HandoffInv'
<1>1. AnalysisOnly /\ UNCHANGED <<q, it, cur, wait, held, deleting, main>>
  BY DEF AnalyseLoop, Analyse, CloseEvent, AnalysisOnly
<1>2. PICK next \in {"off", "get", "clear", "open", "close"} :
         /\ pc' = [pc EXCEPT !["analysis"] = next]
         /\ pc["analysis"] \in {"loop", "work", "close"}
         /\ pc["analysis"] = "loop" => next \in {"off", "get"} /\ (next = "get" => ~Terminate)
         /\ pc["analysis"] # "loop" => next \in {"clear", "open", "close"}
         /\ next = "open" => event' = NoEvent
  <2>1. CASE AnalyseLoop
    BY <2>1 DEF AnalyseLoop, Go
  <2>2. CASE Analyse
    BY <2>2 DEF Analyse, Go
  <2>3. CASE CloseEvent
    <3>1. PICK n \in {"clear", "open"} : pc' = [pc EXCEPT !["analysis"] = n]
      BY <2>3 DEF CloseEvent, Go
    <3> QED
      BY <2>3, <3>1 DEF CloseEvent
  <2> QED
    BY <2>1, <2>2, <2>3
<1>3. /\ q' \in Seq(Packets) /\ Len(q') = Len(q) /\ DOMAIN q' = DOMAIN q
      /\ cur' \in [Threads \cup {"start"} -> 0 .. Len(q)]
      /\ event' \in Events \cup {NoEvent} /\ closing' \in Events \cup {NoEvent}
  BY <1>1 DEF HandoffInv, TypeOK, Packets, AnalyseLoop, Analyse, CloseEvent
<1>4. wait' \in [Threads -> {"no", "block", "asleep"}] /\ NobodySleepsThroughStop'
  BY <1>1, WaitKept
<1>5. /\ TypeOK' /\ DecoderInv' /\ EventsInv' /\ pc'["analysis"] = next
      /\ \A e \in Events : it'[e] = it[e] /\ pc'[e] = pc[e]
  BY <1>1, <1>2, <1>3, <1>4, AnalysisFrame
<1>7. LocksHaveHolders' /\ HandsInv'
  BY <1>1, <1>2, <1>5, QuietHands
<1>8. \/ event' = event /\ closing' = closing
      \/ closing = NoEvent /\ closing' = event /\ event' = NoEvent
  BY DEF AnalyseLoop, Analyse, CloseEvent
<1>9. AnalysisInv'
  BY <1>1, <1>2, <1>5, <1>8 DEF HandoffInv, AnalysisInv, AtPacket, Terminate
<1>10. RolesInv'
  <2>1. \A e \in Events : it[e] # 0 => e \in {event, closing}
    BY <1>2 DEF HandoffInv, RolesInv
  <2>2. {event', closing'} \cap Events = {event, closing} \cap Events
    BY <1>8, ThreadNames
  <2>3. \A e \in Events : e \in {event', closing'} <=> e \in {event, closing}
    BY <2>2
  <2>4. event' = closing' => event' = NoEvent
    BY <1>8 DEF HandoffInv, RolesInv
  <2> QED
    BY <1>1, <1>5, <2>1, <2>3, <2>4 DEF HandoffInv, RolesInv, Opening
<1> QED
  BY <1>4, <1>5, <1>7, <1>9, <1>10 DEF HandoffInv

\* The analysis takes its next packet, goes back, or will sleep.
LEMMA AnalyseGetInv ==
  ASSUME HandoffInv, AnalyseGet
  PROVE  HandoffInv'
<1>1. pc["analysis"] = "get" /\ UNCHANGED <<held, deleting, main, event, closing>>
      /\ cur["analysis"] = 0 /\ cur["start"] = 0 /\ "analysis" \in Threads
      /\ it["analysis"] # 0 /\ AnalysisOnly
  BY ThreadNames DEF AnalyseGet, GetPacket, HandoffInv, AnalysisInv, AtPacket, TypeOK, AnalysisOnly
<1>2. /\ q \in Seq(Packets) /\ Len(q) \in Nat /\ 0 \in 0 .. Len(q)
      /\ cur \in [Threads \cup {"start"} -> 0 .. Len(q)]
      /\ event' \in Events \cup {NoEvent} /\ closing' \in Events \cup {NoEvent}
  BY <1>1 DEF HandoffInv, TypeOK, Packets
<1>3. CASE deleting /\ Go("analysis", "pause") /\ UNCHANGED <<q, it, cur>> /\ NotifyAll
  <2>1. pc' = [pc EXCEPT !["analysis"] = "pause"]
    BY <1>3 DEF Go
  <2>2. wait' \in [Threads -> {"no", "block", "asleep"}] /\ NobodySleepsThroughStop'
    BY <1>1, <1>3, WaitKept
  <2>3. /\ TypeOK' /\ DecoderInv' /\ EventsInv' /\ pc'["analysis"] = "pause"
        /\ \A e \in Events : it'[e] = it[e] /\ pc'[e] = pc[e]
    BY <1>1, <1>2, <1>3, <2>1, <2>2, AnalysisFrame
  <2>4. LocksHaveHolders' /\ HandsInv'
    BY <1>1, <1>3, <2>3, QuietHands
  <2>5. AnalysisInv'
    BY <1>1, <1>3, <2>3 DEF HandoffInv, AnalysisInv, AtPacket
  <2>6. RolesInv'
    BY <1>1, <2>3, RolesKept
  <2> QED
    BY <2>2, <2>3, <2>4, <2>5, <2>6 DEF HandoffInv
<1>4. CASE /\ ~deleting /\ Available("analysis") /\ q' = Locked("analysis", it["analysis"])
           /\ Work("analysis", it["analysis"]) /\ Go("analysis", "work") /\ UNCHANGED <<it, wait>>
  <2>1. pc' = [pc EXCEPT !["analysis"] = "work"]
        /\ cur' = [cur EXCEPT !["analysis"] = it["analysis"]]
    BY <1>4 DEF Go, Work
  <2>2. wait' \in [Threads -> {"no", "block", "asleep"}] /\ NobodySleepsThroughStop'
    BY <1>1, <1>4, WaitKept
  <2>3. pc'["analysis"] = "work"
    BY <2>1, ThreadNames DEF HandoffInv, TypeOK
  <2>4. /\ q' \in Seq(Packets) /\ Len(q') = Len(q) /\ DOMAIN q' = DOMAIN q
        /\ \A i \in DOMAIN q : q'[i].decoded = q[i].decoded /\ q'[i].analyzed = q[i].analyzed
        /\ it["analysis"] \in 1 .. Len(q)
        /\ \A u \in Threads \cup {"start"} :
             cur'[u] = IF u = "analysis" THEN it["analysis"] ELSE cur[u]
        /\ LocksHaveHolders' /\ HandsInv'
    <3> DEFINE a == "analysis"
    <3>1. /\ a \in Threads /\ a \in Threads \cup {"start"} /\ it[a] # 0 /\ Available(a)
          /\ q' = Locked(a, it[a]) /\ cur' = [cur EXCEPT ![a] = it[a]] /\ cur[a] = 0
          /\ a = "analysis"
      BY <1>1, <1>4, <2>1
    <3> HIDE DEF a
    <3>2. /\ q' \in Seq(Packets) /\ Len(q') = Len(q) /\ DOMAIN q' = DOMAIN q
          /\ \A i \in DOMAIN q : q'[i].decoded = q[i].decoded /\ q'[i].analyzed = q[i].analyzed
          /\ it[a] \in 1 .. Len(q)
          /\ \A u \in Threads \cup {"start"} : cur'[u] = IF u = a THEN it[a] ELSE cur[u]
          /\ LocksHaveHolders' /\ HandsInv'
      BY <1>1, <2>3, <3>1, TakeFacts
    <3> QED
      BY <3>2 DEF a
  <2>5. cur' \in [Threads \cup {"start"} -> 0 .. Len(q)]
    <3>1. it["analysis"] \in 0 .. Len(q)
      BY <1>2, <2>4
    <3> QED
      BY <1>2, <2>1, <3>1
  <2>6. /\ TypeOK' /\ DecoderInv' /\ EventsInv'
        /\ \A e \in Events : it'[e] = it[e] /\ pc'[e] = pc[e]
    BY <1>1, <1>2, <1>4, <2>1, <2>2, <2>4, <2>5, AnalysisFrame
  <2>7. AnalysisInv'
    <3>1. cur'["start"] = 0 /\ it'["analysis"] <= Len(q')
      BY <1>1, <1>2, <1>4, <2>4, ThreadNames
    <3> QED
      BY <1>1, <2>3, <3>1 DEF HandoffInv, AnalysisInv, AtPacket
  <2>8. RolesInv'
    BY <1>1, <2>6, RolesKept
  <2> QED
    BY <2>2, <2>4, <2>6, <2>7, <2>8 DEF HandoffInv
<1>5. CASE ~deleting /\ wait' = [wait EXCEPT !["analysis"] = "block"] /\ UNCHANGED <<q, it, cur, pc>>
  BY <1>1, <1>5, BlockInv
<1> QED
  BY <1>3, <1>4, <1>5 DEF AnalyseGet, GetPacket

\* The analysis gives a packet back: the one it analyses or the one an event
\* starts with.
LEMMA AnalysisGiveInv ==
  ASSUME HandoffInv, AnalyseRetry \/ AnalyseUnlock \/ StartUnlock
  PROVE  HandoffInv'
<1>1. /\ AnalysisOnly /\ UNCHANGED <<it, wait, event, closing, held, deleting, main>>
      /\ pc["analysis"] \in {"work", "unlock", "opened"}
  BY DEF AnalyseRetry, AnalyseUnlock, StartUnlock, AnalysisOnly
<1>2. PICK slot \in {"analysis", "start"} :
         /\ q' = Unlocked("analysis", {cur[slot]}) /\ cur' = [cur EXCEPT ![slot] = 0]
         /\ slot = "start" <=> pc["analysis"] = "opened"
  BY DEF AnalyseRetry, AnalyseUnlock, StartUnlock, Work
<1>3. PICK next \in {"loop", "pause", "clear"} :
         /\ pc' = [pc EXCEPT !["analysis"] = next]
         /\ next = "clear" <=> pc["analysis"] = "opened"
  BY DEF AnalyseRetry, AnalyseUnlock, StartUnlock, Go
<1>4. pc'["analysis"] = next /\ slot \in Threads \cup {"start"} /\ "analysis" \in Threads
  BY <1>3, ThreadNames DEF HandoffInv, TypeOK
<1>5. slot = "analysis" => cur["start"] = 0
  BY <1>1, <1>2 DEF HandoffInv, AnalysisInv
<1>6. /\ q' \in Seq(Packets) /\ Len(q') = Len(q) /\ DOMAIN q' = DOMAIN q
      /\ \A i \in DOMAIN q : q'[i].decoded = q[i].decoded /\ q'[i].analyzed = q[i].analyzed
      /\ \A u \in Threads \cup {"start"} : cur'[u] = IF u = slot THEN 0 ELSE cur[u]
      /\ LocksHaveHolders' /\ HandsInv'
  <2> DEFINE a == "analysis"
  <2>1. a \in Threads /\ (slot = a \/ (slot = "start" /\ a = "analysis"))
        /\ q' = Unlocked(a, {cur[slot]})
        /\ pc'["analysis"] \notin {"work", "close", "open", "start", "create"}
    BY <1>2, <1>3, <1>4
  <2> HIDE DEF a
  <2> QED
    BY <1>1, <1>2, <1>4, <1>5, <2>1, GiveFacts
<1>7. wait' \in [Threads -> {"no", "block", "asleep"}] /\ NobodySleepsThroughStop'
  BY <1>1, WaitKept
<1>8. /\ cur' \in [Threads \cup {"start"} -> 0 .. Len(q)]
      /\ event' \in Events \cup {NoEvent} /\ closing' \in Events \cup {NoEvent}
  <2>1. cur \in [Threads \cup {"start"} -> 0 .. Len(q)] /\ 0 \in 0 .. Len(q)
    BY DEF HandoffInv, TypeOK
  <2> QED
    BY <1>1, <1>2, <2>1 DEF HandoffInv, TypeOK
<1>9. \A t \in Threads \ {"analysis"} : cur'[t] = cur[t]
  BY <1>6, ThreadNames
<1>10. /\ TypeOK' /\ DecoderInv' /\ EventsInv'
       /\ \A e \in Events : it'[e] = it[e] /\ pc'[e] = pc[e]
  BY <1>1, <1>3, <1>6, <1>7, <1>8, <1>9, AnalysisFrame
<1>11. AnalysisInv'
  <2>1. /\ cur'["analysis"] # 0 => slot = "start"
        /\ cur'["start"] = 0
    BY <1>4, <1>5, <1>6, ThreadNames
  <2> QED
    BY <1>1, <1>2, <1>3, <1>4, <1>6, <2>1 DEF HandoffInv, AnalysisInv, AtPacket
<1>12. RolesInv'
  BY <1>1, <1>10, RolesKept
<1> QED
  BY <1>6, <1>7, <1>10, <1>11, <1>12 DEF HandoffInv

\* A packet has been analysed, and the iterator moves on.
LEMMA AnalysisPassInv ==
  ASSUME HandoffInv, SetAnalyzed \/ AnalyseIncrement
  PROVE  HandoffInv'
<1>1. /\ AnalysisOnly /\ UNCHANGED <<cur, wait, event, closing, held, deleting, main>>
      /\ it' = it \/ it' = Incremented("analysis")
  BY DEF SetAnalyzed, AnalyseIncrement, AnalysisOnly
<1>2. q \in Seq(Packets)
  BY DEF HandoffInv, TypeOK, Packets
<1>3. /\ q' \in Seq(Packets) /\ Len(q') = Len(q) /\ DOMAIN q' = DOMAIN q
      /\ \A i \in DOMAIN q : /\ q[i].decoded => q'[i].decoded
                             /\ q[i].analyzed => q'[i].analyzed
                             /\ q'[i].lock = q[i].lock
  <2>1. CASE SetAnalyzed
    <3>1. q' = Mapped({cur["analysis"]}, LAMBDA p : [p EXCEPT !.analyzed = TRUE])
      BY <2>1 DEF SetAnalyzed
    <3> QED
      BY <1>2, <3>1, ProgressFacts
  <2>2. CASE AnalyseIncrement
    BY <1>2, <2>2 DEF AnalyseIncrement
  <2> QED
    BY <2>1, <2>2
<1>4. PICK next \in {"increment", "unlock"} :
         /\ pc' = [pc EXCEPT !["analysis"] = next]
         /\ next = "increment" => pc["analysis"] = "analyzed" /\ it' = it
         /\ next = "unlock" => pc["analysis"] = "increment"
  BY DEF SetAnalyzed, AnalyseIncrement, Go
<1>5. wait' \in [Threads -> {"no", "block", "asleep"}] /\ NobodySleepsThroughStop'
  BY <1>1, WaitKept
<1>6. /\ cur' \in [Threads \cup {"start"} -> 0 .. Len(q)]
      /\ event' \in Events \cup {NoEvent} /\ closing' \in Events \cup {NoEvent}
  BY <1>1 DEF HandoffInv, TypeOK
<1>7. /\ TypeOK' /\ DecoderInv' /\ EventsInv' /\ pc'["analysis"] = next
      /\ \A e \in Events : it'[e] = it[e] /\ pc'[e] = pc[e]
  BY <1>1, <1>3, <1>4, <1>5, <1>6, AnalysisFrame
<1>8. LocksHaveHolders' /\ HandsInv'
  BY <1>1, <1>3, <1>7, ProgressHands
<1>9. AnalysisInv'
  BY <1>1, <1>3, <1>4, <1>7 DEF HandoffInv, AnalysisInv, AtPacket
<1>10. RolesInv'
  BY <1>1, <1>4, <1>7, RolesKept
<1> QED
  BY <1>5, <1>7, <1>8, <1>9, <1>10 DEF HandoffInv

\* An event is opened: it gets an iterator, on the packet being analysed or
\* before it, and either its thread or a packet to wait for.
LEMMA OpenEventInv ==
  ASSUME HandoffInv, NEW e \in Events, OpenEvent(e)
  PROVE  HandoffInv'
<1>1. /\ pc["analysis"] = "open" /\ it[e] = 0
      /\ UNCHANGED <<q, cur, wait, closing, held, deleting, main>>
      /\ event = NoEvent
  BY DEF OpenEvent, AnalysisOnly, HandoffInv, AnalysisInv
<1>2. /\ TypeOK /\ Len(q) \in Nat /\ it["analysis"] \in 1 .. Len(q)
      /\ it \in [Threads -> 0 .. Len(q) + 1]
  BY <1>1, ThreadNames DEF HandoffInv, TypeOK, AnalysisInv, AtPacket
<1>3. PICK back \in {0, Pre} :
         LET start == Max({1, it["analysis"] - back})
         IN /\ it' = [it EXCEPT ![e] = start]
            /\ IF start # it["analysis"]
               THEN Go("analysis", "start") /\ UNCHANGED event
               ELSE /\ pc' = [pc EXCEPT !["analysis"] = "clear", ![e] = "loop"]
                    /\ event' = e
  BY DEF OpenEvent
<1> DEFINE start == Max({1, it["analysis"] - back})
<1>4. /\ it' = [it EXCEPT ![e] = start]
      /\ \/ /\ start # it["analysis"] /\ pc' = [pc EXCEPT !["analysis"] = "start"]
            /\ event' = event
         \/ /\ pc' = [pc EXCEPT !["analysis"] = "clear", ![e] = "loop"]
            /\ event' = e
  BY <1>3 DEF Go
<1>5. start \in 1 .. Len(q)
  <2>1. back \in Nat /\ it["analysis"] - back \in Int /\ 1 \in Int
    BY <1>2, PreAssumption
  <2>2. start = IF 1 >= it["analysis"] - back THEN 1 ELSE it["analysis"] - back
    BY <2>1, MaxOfPair
  <2> QED
    BY <1>2, <2>1, <2>2
<1> HIDE DEF start
<1>6. \A t \in Threads : it'[t] = IF t = e THEN start ELSE it[t]
  BY <1>2, <1>4
<1>7. \/ /\ event' = event
         /\ \A t \in Threads : pc'[t] = IF t = "analysis" THEN "start" ELSE pc[t]
      \/ /\ event' = e
         /\ \A t \in Threads : pc'[t] = IF t = "analysis" THEN "clear"
                                        ELSE IF t = e THEN "loop" ELSE pc[t]
  BY <1>2, <1>4, ThreadNames, SMTT(60) DEF TypeOK
<1>8. TypeOK'
  <2>1. it' \in [Threads -> 0 .. Len(q') + 1]
    <3>1. start \in 0 .. Len(q) + 1 /\ q' = q
      BY <1>1, <1>2, <1>5
    <3> QED
      BY <1>2, <1>4, <3>1
  <2>2. it'["decoder"] # 0 /\ it'["analysis"] # 0
    BY <1>2, <1>6, ThreadNames DEF TypeOK
  <2>3. pc' \in [Threads -> {"off", "loop", "pause", "get", "work", "convert", "unlock", "close",
                          "open", "start", "create", "opened", "clear", "analyzed",
                          "increment", "check", "write"}]
    BY <1>2, <1>4 DEF TypeOK
  <2>4. event' \in Events \cup {NoEvent}
    BY <1>1, <1>4
  <2> QED
    BY <1>1, <1>2, <2>1, <2>2, <2>3, <2>4 DEF TypeOK
<1>9. e \notin {event, closing} /\ pc[e] = "off" /\ e # NoEvent
  BY <1>1, ThreadNames DEF HandoffInv, RolesInv
<1>10. pc'["analysis"] \in {"start", "clear"} /\ pc'["decoder"] = pc["decoder"]
       /\ it'["analysis"] = it["analysis"]
  BY <1>6, <1>7, ThreadNames
<1>11. LocksHaveHolders' /\ HandsInv'
  BY <1>1, <1>10, QuietHands
<1>12. NobodySleepsThroughStop'
  BY <1>1 DEF HandoffInv, NobodySleepsThroughStop
<1>13. DecoderInv'
  BY <1>1, <1>10 DEF HandoffInv, DecoderInv
<1>14. AnalysisInv'
  <2>1. pc'["analysis"] = "start" => event' = NoEvent
    BY <1>1, <1>7, ThreadNames
  <2>2. main \notin {"joinClose", "clear", "paused"}
    BY <1>1 DEF HandoffInv, AnalysisInv
  <2> QED
    BY <1>1, <1>2, <1>10, <2>1, <2>2 DEF HandoffInv, AnalysisInv, AtPacket
<1>15. RolesInv'
  <2>1. \A d \in Events : it[d] # 0 <=> d \in {event, closing}
    BY <1>1 DEF HandoffInv, RolesInv
  <2>2. \A d \in Events : it'[d] # 0 <=> d = e \/ it[d] # 0
    BY <1>5, <1>6, ThreadNames
  <2>3. closing' = closing /\ closing # e /\ event = NoEvent
    BY <1>1, <1>9
  <2>4. \A d \in Events : pc[d] # "off" => d \in {event, closing}
    BY DEF HandoffInv, RolesInv
  <2>5. CASE event' = event /\ \A t \in Threads : pc'[t] = IF t = "analysis" THEN "start" ELSE pc[t]
    <3>1. \A d \in Events : pc'[d] = pc[d]
      BY <2>5, ThreadNames
    <3>2. pc'["analysis"] = "start"
      BY <2>5, ThreadNames
    <3>3. event' = closing' => event' = NoEvent
      BY <2>3, <2>5
    <3> QED
      BY <2>1, <2>2, <2>3, <2>4, <2>5, <3>1, <3>2, <3>3 DEF RolesInv, Opening
  <2>6. CASE /\ event' = e
             /\ \A t \in Threads : pc'[t] = IF t = "analysis" THEN "clear"
                                            ELSE IF t = e THEN "loop" ELSE pc[t]
    <3>1. \A d \in Events : d # e => pc'[d] = pc[d]
      BY <2>6, ThreadNames
    <3>2. \A d \in Events : d \in {event', closing'} <=> d = e \/ d \in {event, closing}
      BY <2>3, <2>6, ThreadNames
    <3> QED
      BY <2>1, <2>2, <2>3, <2>4, <2>6, <3>1, <3>2 DEF RolesInv, Opening
  <2> QED
    BY <1>7, <2>5, <2>6
<1>16. EventsInv'
  <2>1. cur[e] = 0
    BY <1>9 DEF HandoffInv, EventsInv
  <2>2. pc'[e] \in {"off", "loop"}
    BY <1>7, <1>9, ThreadNames
  <2>3. \A d \in Events : d # e => it'[d] = it[d] /\ pc'[d] = pc[d]
    BY <1>6, <1>7, ThreadNames
  <2> QED
    BY <1>1, <2>1, <2>2, <2>3 DEF HandoffInv, EventsInv, Complete
<1> QED
  BY <1>8, <1>11, <1>12, <1>13, <1>14, <1>15, <1>16 DEF HandoffInv

\* openEvent waits for the packet the event starts with, takes it, or gives the
\* event up.
LEMMA StartGetInv ==
  ASSUME HandoffInv, NEW e \in Events, StartGet(e)
  PROVE  HandoffInv'
<1>1. /\ pc["analysis"] = "start" /\ e \in Opening /\ it[e] # 0 /\ e \notin {event, closing}
      /\ UNCHANGED <<held, deleting, main, event, closing>>
      /\ cur["start"] = 0 /\ AnalysisOnly /\ e \in Threads /\ event = NoEvent
  BY ThreadNames DEF StartGet, GetPacket, Opening, AnalysisOnly, HandoffInv, AnalysisInv
<1>2. /\ q \in Seq(Packets) /\ Len(q) \in Nat /\ TypeOK
      /\ cur \in [Threads \cup {"start"} -> 0 .. Len(q)]
      /\ it \in [Threads -> 0 .. Len(q) + 1]
      /\ event' \in Events \cup {NoEvent} /\ closing' \in Events \cup {NoEvent}
  BY <1>1 DEF HandoffInv, TypeOK, Packets
<1>3. main \notin {"joinClose", "clear", "paused"}
  BY <1>1 DEF HandoffInv, AnalysisInv
<1>4. CASE /\ deleting /\ Go("analysis", "clear") /\ it' = [it EXCEPT ![e] = 0]
           /\ NotifyAll /\ UNCHANGED <<q, cur>>
  <2>1. pc' = [pc EXCEPT !["analysis"] = "clear"]
    BY <1>4 DEF Go
  <2>2. wait' \in [Threads -> {"no", "block", "asleep"}] /\ NobodySleepsThroughStop'
    BY <1>1, <1>4, WaitKept
  <2>3. \A t \in Threads : /\ it'[t] = IF t = e THEN 0 ELSE it[t]
                           /\ pc'[t] = IF t = "analysis" THEN "clear" ELSE pc[t]
    BY <1>2, <1>4, <2>1 DEF TypeOK
  <2>4. TypeOK'
    <3>1. it' \in [Threads -> 0 .. Len(q') + 1] /\ it'["decoder"] # 0 /\ it'["analysis"] # 0
      BY <1>2, <1>4, <2>3, ThreadNames, SMTT(60) DEF TypeOK
    <3>2. pc' \in [Threads -> {"off", "loop", "pause", "get", "work", "convert", "unlock", "close",
                          "open", "start", "create", "opened", "clear", "analyzed",
                          "increment", "check", "write"}]
      BY <1>2, <2>1 DEF TypeOK
    <3> QED
      BY <1>1, <1>2, <1>4, <2>2, <3>1, <3>2 DEF TypeOK
  <2>5. /\ pc'["analysis"] = "clear" /\ pc'["decoder"] = pc["decoder"]
        /\ it'["analysis"] = it["analysis"]
        /\ \A d \in Events : pc'[d] = pc[d] /\ it'[d] = IF d = e THEN 0 ELSE it[d]
    BY <2>3, ThreadNames
  <2>6. LocksHaveHolders' /\ HandsInv'
    BY <1>1, <1>4, <2>5, QuietHands
  <2>7. DecoderInv'
    BY <1>1, <1>4, <2>5 DEF HandoffInv, DecoderInv
  <2>8. AnalysisInv'
    BY <1>1, <1>3, <1>4, <2>5 DEF HandoffInv, AnalysisInv, AtPacket
  <2>9. RolesInv'
    BY <1>1, <2>5 DEF HandoffInv, RolesInv, Opening
  <2>10. EventsInv'
    <3>1. pc[e] = "off" /\ cur[e] = 0
      BY <1>1 DEF HandoffInv, RolesInv, EventsInv
    <3> QED
      BY <1>1, <1>4, <2>5, <3>1 DEF HandoffInv, EventsInv, Complete
  <2> QED
    BY <2>2, <2>4, <2>6, <2>7, <2>8, <2>9, <2>10 DEF HandoffInv
<1>5. CASE /\ ~deleting /\ Available(e) /\ q' = Locked("analysis", it[e])
           /\ Work("start", it[e]) /\ Go("analysis", "create") /\ UNCHANGED <<it, wait>>
  <2>1. pc' = [pc EXCEPT !["analysis"] = "create"] /\ cur' = [cur EXCEPT !["start"] = it[e]]
    BY <1>5 DEF Go, Work
  <2>2. wait' \in [Threads -> {"no", "block", "asleep"}] /\ NobodySleepsThroughStop'
    BY <1>1, <1>5, WaitKept
  <2>3. pc'["analysis"] = "create"
    BY <2>1, ThreadNames DEF HandoffInv, TypeOK
  <2>4. /\ q' \in Seq(Packets) /\ Len(q') = Len(q) /\ DOMAIN q' = DOMAIN q
        /\ \A i \in DOMAIN q : q'[i].decoded = q[i].decoded /\ q'[i].analyzed = q[i].analyzed
        /\ it[e] \in 1 .. Len(q)
        /\ \A u \in Threads \cup {"start"} : cur'[u] = IF u = "start" THEN it[e] ELSE cur[u]
        /\ LocksHaveHolders' /\ HandsInv'
    <3> DEFINE a == "analysis"
               s == "start"
    <3>1. /\ a \in Threads /\ s \in Threads \cup {"start"} /\ s = "start" /\ a = "analysis"
          /\ q' = Locked(a, it[e]) /\ cur' = [cur EXCEPT ![s] = it[e]] /\ cur[s] = 0
          /\ Available(e) /\ held' = held /\ s # "analysis"
          /\ (s = a \/ (s = "start" /\ a = "analysis"))
      BY <1>1, <1>5, <2>1, ThreadNames
    <3>3. /\ pc["analysis"] \in {"work", "close", "open", "start", "create"}
          /\ pc["analysis"] \in {"start", "create"}
      BY <1>1
    <3> HIDE DEF a, s
    <3>2. /\ q' \in Seq(Packets) /\ Len(q') = Len(q) /\ DOMAIN q' = DOMAIN q
          /\ \A i \in DOMAIN q : q'[i].decoded = q[i].decoded /\ q'[i].analyzed = q[i].analyzed
          /\ it[e] \in 1 .. Len(q)
          /\ \A u \in Threads \cup {"start"} : cur'[u] = IF u = s THEN it[e] ELSE cur[u]
          /\ LocksHaveHolders' /\ HandsInv'
      BY <1>1, <3>1, <3>3, TakeFacts, ZenonT(60)
    <3> QED
      BY <3>2 DEF s
  <2>5. cur' \in [Threads \cup {"start"} -> 0 .. Len(q)]
    <3>1. it[e] \in 0 .. Len(q)
      BY <1>2, <2>4
    <3> QED
      BY <1>2, <2>1, <3>1
  <2>6. \A t \in Threads \ {"analysis"} : cur'[t] = cur[t]
    BY <2>4, ThreadNames
  <2>7. /\ TypeOK' /\ DecoderInv' /\ EventsInv'
        /\ \A d \in Events : it'[d] = it[d] /\ pc'[d] = pc[d]
    BY <1>1, <1>2, <1>5, <2>1, <2>2, <2>4, <2>5, <2>6, AnalysisFrame
  <2>8. AnalysisInv'
    <3>1. cur'["analysis"] = cur["analysis"]
      BY <2>4, ThreadNames
    <3> QED
      BY <1>1, <1>3, <1>5, <2>3, <2>4, <3>1 DEF HandoffInv, AnalysisInv, AtPacket
  <2>9. RolesInv'
    BY <1>1, <2>3, <2>7, RolesKept
  <2> QED
    BY <2>2, <2>4, <2>7, <2>8, <2>9 DEF HandoffInv
<1>6. CASE ~deleting /\ wait' = [wait EXCEPT !["analysis"] = "block"] /\ UNCHANGED <<q, it, cur, pc>>
  BY <1>1, <1>6, BlockInv, ThreadNames
<1> QED
  BY <1>4, <1>5, <1>6 DEF StartGet, GetPacket

\* The event records: the analysed packet is unlocked, the one the event starts
\* with is not yet.
LEMMA StartEventInv ==
  ASSUME HandoffInv, NEW e \in Events, StartEvent(e)
  PROVE  HandoffInv'
<1> DEFINE k == cur["analysis"]
<1>1. /\ pc["analysis"] = "create" /\ e \in Opening /\ it[e] # 0 /\ e \notin {event, closing}
      /\ q' = Unlocked("analysis", {k}) /\ event' = e
      /\ pc' = [pc EXCEPT !["analysis"] = "opened", ![e] = "loop"]
      /\ UNCHANGED <<it, cur, wait, closing, held, deleting, main>>
      /\ e # NoEvent /\ event = NoEvent
  BY ThreadNames DEF StartEvent, Opening, AnalysisOnly, HandoffInv, AnalysisInv
<1> HIDE DEF k
<1>2. /\ q \in Seq(Packets) /\ Len(q) \in Nat /\ TypeOK /\ HandsInv
      /\ cur \in [Threads \cup {"start"} -> 0 .. Len(q)] /\ held \in Seq(0 .. Len(q))
      /\ DOMAIN q = 1 .. Len(q)
  BY DEF HandoffInv, TypeOK, Packets
<1>3. /\ q' \in Seq(Packets) /\ Len(q') = Len(q) /\ DOMAIN q' = DOMAIN q
      /\ \A i \in DOMAIN q : /\ q'[i].decoded = q[i].decoded
                             /\ q'[i].analyzed = q[i].analyzed
                             /\ q'[i].lock = IF i = k /\ q[i].lock = "analysis"
                                             THEN Free ELSE q[i].lock
  <2>1. \A i : i \in {k} <=> i = k
    OBVIOUS
  <2> QED
    BY <1>1, <1>2, <2>1, UnlockedFacts
<1>4. \A t \in Threads : pc'[t] = IF t = "analysis" THEN "opened"
                                  ELSE IF t = e THEN "loop" ELSE pc[t]
  BY <1>1, <1>2, ThreadNames DEF TypeOK
<1>5. pc'["analysis"] = "opened" /\ pc'["decoder"] = pc["decoder"] /\ pc'[e] = "loop"
      /\ pc[e] = "off" /\ \A d \in Events : d # e => pc'[d] = pc[d]
  BY <1>1, <1>4, ThreadNames DEF HandoffInv, RolesInv
<1>6. TypeOK'
  <2>1. pc' \in [Threads -> {"off", "loop", "pause", "get", "work", "convert", "unlock", "close",
                          "open", "start", "create", "opened", "clear", "analyzed",
                          "increment", "check", "write"}]
    BY <1>1, <1>2 DEF TypeOK
  <2> QED
    BY <1>1, <1>2, <1>3, <2>1 DEF TypeOK, Packets
<1>7. LocksHaveHolders'
  <2>1. HeldSet' = HeldSet
    BY <1>1 DEF HeldSet
  <2>2. \A i \in DOMAIN q' : q'[i].lock # Free => i \in DOMAIN q /\ q'[i].lock = q[i].lock
    BY <1>3
  <2> QED
    BY <1>1, <2>1, <2>2 DEF HandoffInv, LocksHaveHolders
<1>8. HandsInv'
  <2>1. \A t \in Threads \cup {"start"} : cur[t] # 0 => cur[t] \in DOMAIN q
    BY <1>2
  <2>2. \A j \in DOMAIN held : held[j] # 0 => held[j] \in DOMAIN q
    BY <1>2
  <2>3. \A i \in DOMAIN q : q[i].lock # "analysis" => q'[i].lock = q[i].lock
    BY <1>3
  <2>4. \A d \in Events : cur[d] # 0 => q'[cur[d]].lock = d
    BY <1>2, <2>1, <2>3, ThreadNames DEF HandsInv
  <2>5. cur["start"] # 0 => cur["start"] # k /\ q'[cur["start"]].lock = "analysis"
    BY <1>1, <1>2, <1>3, <2>1 DEF HandsInv, k
  <2>6. cur["decoder"] # 0 => q'[cur["decoder"]].lock = "decoder"
    BY <1>2, <2>1, <2>3, ThreadNames DEF HandsInv
  <2>7. \A j \in DOMAIN held : held[j] # 0 => q'[held[j]].lock = "decoder"
    BY <1>2, <2>2, <2>3 DEF HandsInv
  <2> QED
    BY <1>1, <1>2, <1>5, <2>4, <2>5, <2>6, <2>7, ZenonT(60) DEF HandsInv
<1>9. NobodySleepsThroughStop'
  BY <1>1 DEF HandoffInv, NobodySleepsThroughStop
<1>10. DecoderInv'
  BY <1>1, <1>5 DEF HandoffInv, DecoderInv
<1>11. AnalysisInv'
  BY <1>1, <1>3, <1>5 DEF HandoffInv, AnalysisInv, AtPacket
<1>12. RolesInv'
  <2>1. \A d \in Events : it[d] # 0 => d = e \/ d = closing
    BY <1>1, ThreadNames DEF HandoffInv, RolesInv, Opening
  <2>2. \A d \in Events : d = closing => it[d] # 0
    BY DEF HandoffInv, RolesInv
  <2>3. \A d \in Events : pc'[d] # "off" => d = e \/ d = closing
    BY <1>1, <1>5, ThreadNames DEF HandoffInv, RolesInv
  <2> QED
    BY <1>1, <2>1, <2>2, <2>3 DEF RolesInv, Opening
<1>13. EventsInv'
  <2>1. cur[e] = 0
    BY <1>5 DEF HandoffInv, EventsInv
  <2>2. \A d \in Events : cur[d] # 0 => cur[d] \in DOMAIN q
    BY <1>2, ThreadNames
  <2> QED
    BY <1>1, <1>3, <1>5, <2>1, <2>2 DEF HandoffInv, EventsInv, Complete
<1> QED
  BY <1>6, <1>7, <1>8, <1>9, <1>10, <1>11, <1>12, <1>13 DEF HandoffInv

\* Every step of the analysis thread keeps the invariant.
LEMMA AnalysisStepInv ==
  ASSUME HandoffInv, Analysis
  PROVE  HandoffInv'
<1>1. CASE AnalyseLoop \/ Analyse \/ CloseEvent
  BY <1>1, AnalysisQuietInv
<1>2. CASE AnalyseGet
  BY <1>2, AnalyseGetInv
<1>3. CASE AnalyseRetry \/ AnalyseUnlock \/ StartUnlock
  BY <1>3, AnalysisGiveInv
<1>4. CASE \E e \in Events : OpenEvent(e) \/ StartGet(e) \/ StartEvent(e)
  BY <1>4, OpenEventInv, StartGetInv, StartEventInv
<1>5. CASE ClearPackets
  BY <1>5, ClearPacketsInv
<1>6. CASE SetAnalyzed \/ AnalyseIncrement
  BY <1>6, AnalysisPassInv
<1>7. CASE Resume("analysis") \/ Sleep("analysis")
  BY <1>7, ResumeInv, SleepInv, ThreadNames
<1> QED
  BY <1>1, <1>2, <1>3, <1>4, <1>5, <1>6, <1>7 DEF Analysis

-----------------------------------------------------------------------------
(* The threads of the events.                                              *)

\* A step of an event's thread is about its own iterator and packet.
LEMMA EventFrame ==
  ASSUME HandoffInv, EventOnly, NEW e \in Events,
         NEW next \in {"off", "loop", "pause", "check", "write", "unlock"},
         pc[e] # "off", pc' = [pc EXCEPT ![e] = next],
         q' \in Seq(Packets), Len(q') = Len(q), DOMAIN q' = DOMAIN q,
         \A i \in DOMAIN q : /\ q'[i].decoded = q[i].decoded
                             /\ q'[i].analyzed = q[i].analyzed,
         it' = it \/ it' = Incremented(e),
         NEW x \in 0 .. Len(q), cur' = cur \/ cur' = [cur EXCEPT ![e] = x]
  PROVE  /\ TypeOK' /\ NobodySleepsThroughStop' /\ DecoderInv' /\ AnalysisInv' /\ RolesInv'
         /\ pc'[e] = next /\ pc'["analysis"] = pc["analysis"]
         /\ \A d \in Events : d # e => it'[d] = it[d] /\ cur'[d] = cur[d] /\ pc'[d] = pc[d]
         /\ cur'[e] = cur[e] \/ cur'[e] = x
<1>1. TypeOK /\ e \in Threads /\ e # "decoder" /\ e # "analysis" /\ e # "start"
      /\ e \in {event, closing} /\ it[e] # 0
  BY ThreadNames DEF HandoffInv, RolesInv
<1>2. /\ it' \in [Threads -> 0 .. Len(q') + 1] /\ it'[e] # 0
      /\ \A t \in Threads \ {e} : it'[t] = it[t]
  <2>1. CASE it' = it
    BY <1>1, <2>1 DEF TypeOK
  <2>2. CASE it' = Incremented(e)
    BY <1>1, <2>2, IncrementedFacts
  <2> QED
    BY <2>1, <2>2
<1>3. /\ cur' \in [Threads \cup {"start"} -> 0 .. Len(q')]
      /\ \A t \in Threads \cup {"start"} : t # e => cur'[t] = cur[t]
      /\ cur'[e] = cur[e] \/ cur'[e] = x
  <2>1. cur \in [Threads \cup {"start"} -> 0 .. Len(q)]
    BY <1>1 DEF TypeOK
  <2>2. CASE cur' = cur
    BY <2>1, <2>2
  <2>3. CASE cur' = [cur EXCEPT ![e] = x]
    BY <1>1, <2>1, <2>3
  <2> QED
    BY <2>2, <2>3
<1>4. pc' \in [Threads -> {"off", "loop", "pause", "get", "work", "convert", "unlock", "close",
                          "open", "start", "create", "opened", "clear", "analyzed",
                          "increment", "check", "write"}]
      /\ (\A t \in Threads \ {e} : pc'[t] = pc[t]) /\ pc'[e] = next
  BY <1>1 DEF TypeOK
<1>5. TypeOK'
  <2>1. it'["decoder"] # 0 /\ it'["analysis"] # 0
    BY <1>1, <1>2, ThreadNames DEF TypeOK
  <2> QED
    BY <1>1, <1>2, <1>3, <1>4, <2>1 DEF TypeOK, EventOnly, Packets
<1>6. /\ pc'["decoder"] = pc["decoder"] /\ cur'["decoder"] = cur["decoder"]
      /\ pc'["analysis"] = pc["analysis"] /\ cur'["analysis"] = cur["analysis"]
      /\ cur'["start"] = cur["start"] /\ it'["analysis"] = it["analysis"]
      /\ \A d \in Events : d # e => it'[d] = it[d] /\ cur'[d] = cur[d] /\ pc'[d] = pc[d]
  BY <1>1, <1>2, <1>3, <1>4, ThreadNames
<1>7. NobodySleepsThroughStop'
  BY DEF HandoffInv, NobodySleepsThroughStop, EventOnly
<1>8. DecoderInv'
  BY <1>6 DEF HandoffInv, DecoderInv, EventOnly
<1>9. AnalysisInv'
  BY <1>6 DEF HandoffInv, AnalysisInv, EventOnly
<1>10. RolesInv'
  <2>1. \A d \in Events : it'[d] # 0 <=> it[d] # 0
    BY <1>1, <1>2, <1>6
  <2> QED
    BY <1>1, <1>6, <2>1 DEF HandoffInv, RolesInv, Opening, EventOnly
<1> QED
  BY <1>3, <1>4, <1>5, <1>6, <1>7, <1>8, <1>9, <1>10

\* The thread ends, finds no packet, or finds its packet complete.
LEMMA EventQuietInv ==
  ASSUME HandoffInv, NEW e \in Events,
         \/ EventEnds(e) \/ AddPacket(e)
         \/ (EventGet(e) /\ (deleting \/ ~Available(e)))
  PROVE  HandoffInv'
<1>1. EventOnly /\ UNCHANGED <<q, it, cur, held>> /\ pc[e] \in {"loop", "check"}
  BY DEF EventEnds, AddPacket, EventGet, EventOnly
<1>2. PICK next \in {"off", "pause", "write"} :
         /\ pc' = [pc EXCEPT ![e] = next]
         /\ next = "write" => /\ pc[e] = "check"
                              /\ cur[e] # 0 => Complete(q[cur[e]])
         /\ next # "write" => pc[e] = "loop"
  BY DEF EventEnds, AddPacket, EventGet, Go
<1>3. /\ q' \in Seq(Packets) /\ Len(q') = Len(q) /\ DOMAIN q' = DOMAIN q
      /\ 0 \in 0 .. Len(q)
  BY <1>1 DEF HandoffInv, TypeOK, Packets
<1>4. /\ TypeOK' /\ NobodySleepsThroughStop' /\ DecoderInv' /\ AnalysisInv' /\ RolesInv'
      /\ pc'[e] = next /\ pc'["analysis"] = pc["analysis"]
      /\ \A d \in Events : d # e => it'[d] = it[d] /\ cur'[d] = cur[d] /\ pc'[d] = pc[d]
  BY <1>1, <1>2, <1>3, EventFrame
<1>5. LocksHaveHolders' /\ HandsInv'
  BY <1>1, <1>4, QuietHands
<1>6. EventsInv'
  BY <1>1, <1>2, <1>4 DEF HandoffInv, EventsInv, Complete
<1> QED
  BY <1>4, <1>5, <1>6 DEF HandoffInv

\* The thread takes the packet of its iterator.
LEMMA EventTakeInv ==
  ASSUME HandoffInv, NEW e \in Events, EventGet(e), ~(deleting \/ ~Available(e))
  PROVE  HandoffInv'
<1>1. /\ EventOnly /\ it' = it /\ held' = held /\ pc[e] = "loop" /\ Available(e)
      /\ pc' = [pc EXCEPT ![e] = "check"] /\ cur' = [cur EXCEPT ![e] = it[e]]
      /\ q' = Locked(e, it[e])
  BY DEF EventGet, EventOnly, Go, Work
<1>2. e \in Threads /\ e \in Threads \cup {"start"} /\ it[e] # 0 /\ cur[e] = 0
      /\ pc'["analysis"] = pc["analysis"] /\ e # "analysis"
  BY <1>1, ThreadNames, SMTT(60) DEF HandoffInv, TypeOK, RolesInv, EventsInv
<1>3. /\ q' \in Seq(Packets) /\ Len(q') = Len(q) /\ DOMAIN q' = DOMAIN q
      /\ \A i \in DOMAIN q : q'[i].decoded = q[i].decoded /\ q'[i].analyzed = q[i].analyzed
      /\ it[e] \in 1 .. Len(q)
      /\ \A u \in Threads \cup {"start"} : cur'[u] = IF u = e THEN it[e] ELSE cur[u]
      /\ LocksHaveHolders' /\ HandsInv'
  BY <1>1, <1>2, TakeFacts
<1>4. it[e] \in 0 .. Len(q)
  BY <1>3 DEF HandoffInv, TypeOK
<1>5. /\ TypeOK' /\ NobodySleepsThroughStop' /\ DecoderInv' /\ AnalysisInv' /\ RolesInv'
      /\ pc'[e] = "check"
      /\ \A d \in Events : d # e => it'[d] = it[d] /\ cur'[d] = cur[d] /\ pc'[d] = pc[d]
  BY <1>1, <1>3, <1>4, EventFrame
<1>6. EventsInv'
  <2>1. cur'[e] = it'[e] /\ it'[e] \in 1 .. Len(q')
    BY <1>1, <1>2, <1>3
  <2>2. \A d \in Events : cur[d] # 0 => cur[d] \in DOMAIN q
    BY ThreadNames DEF HandoffInv, TypeOK
  <2> QED
    BY <1>3, <1>5, <2>1, <2>2 DEF HandoffInv, EventsInv, Complete
<1> QED
  BY <1>3, <1>5, <1>6 DEF HandoffInv

\* The thread gives its packet back, written or not.
LEMMA EventGiveInv ==
  ASSUME HandoffInv, NEW e \in Events, EventRetry(e) \/ EventUnlock(e)
  PROVE  HandoffInv'
<1>1. /\ EventOnly /\ it' = it /\ held' = held /\ pc[e] \in {"check", "unlock"}
      /\ cur' = [cur EXCEPT ![e] = 0] /\ q' = Unlocked(e, {cur[e]})
  BY DEF EventRetry, EventUnlock, EventOnly, Work
<1>2. PICK next \in {"pause", "loop"} : pc' = [pc EXCEPT ![e] = next]
  BY DEF EventRetry, EventUnlock, Go
<1>3. e \in Threads /\ e \in Threads \cup {"start"} /\ pc'["analysis"] = pc["analysis"]
      /\ e # "analysis"
  BY <1>2, ThreadNames DEF HandoffInv, TypeOK
<1>4. /\ q' \in Seq(Packets) /\ Len(q') = Len(q) /\ DOMAIN q' = DOMAIN q
      /\ \A i \in DOMAIN q : q'[i].decoded = q[i].decoded /\ q'[i].analyzed = q[i].analyzed
      /\ \A u \in Threads \cup {"start"} : cur'[u] = IF u = e THEN 0 ELSE cur[u]
      /\ LocksHaveHolders' /\ HandsInv'
  BY <1>1, <1>3, GiveFacts
<1>5. 0 \in 0 .. Len(q)
  BY DEF HandoffInv, TypeOK
<1>6. /\ TypeOK' /\ NobodySleepsThroughStop' /\ DecoderInv' /\ AnalysisInv' /\ RolesInv'
      /\ pc'[e] = next
      /\ \A d \in Events : d # e => it'[d] = it[d] /\ cur'[d] = cur[d] /\ pc'[d] = pc[d]
  BY <1>1, <1>2, <1>4, <1>5, EventFrame
<1>7. EventsInv'
  <2>1. cur'[e] = 0
    BY <1>3, <1>4
  <2>2. \A d \in Events : cur[d] # 0 => cur[d] \in DOMAIN q
    BY ThreadNames DEF HandoffInv, TypeOK
  <2> QED
    BY <1>2, <1>4, <1>6, <2>1, <2>2 DEF HandoffInv, EventsInv, Complete
<1> QED
  BY <1>4, <1>6, <1>7 DEF HandoffInv

\* The packet is written: the iterator moves on.
LEMMA EventIncrementInv ==
  ASSUME HandoffInv, NEW e \in Events, EventIncrement(e)
  PROVE  HandoffInv'
<1>1. /\ EventOnly /\ it' = Incremented(e) /\ UNCHANGED <<q, cur, held>> /\ pc[e] = "write"
      /\ pc' = [pc EXCEPT ![e] = "unlock"]
  BY DEF EventIncrement, EventOnly, Go
<1>2. /\ q' \in Seq(Packets) /\ Len(q') = Len(q) /\ DOMAIN q' = DOMAIN q
      /\ 0 \in 0 .. Len(q)
  BY <1>1 DEF HandoffInv, TypeOK, Packets
<1>3. /\ TypeOK' /\ NobodySleepsThroughStop' /\ DecoderInv' /\ AnalysisInv' /\ RolesInv'
      /\ pc'[e] = "unlock" /\ pc'["analysis"] = pc["analysis"]
      /\ \A d \in Events : d # e => it'[d] = it[d] /\ cur'[d] = cur[d] /\ pc'[d] = pc[d]
  BY <1>1, <1>2, EventFrame
<1>4. LocksHaveHolders' /\ HandsInv'
  BY <1>1, <1>3, QuietHands
<1>5. EventsInv'
  BY <1>1, <1>3 DEF HandoffInv, EventsInv, Complete
<1> QED
  BY <1>3, <1>4, <1>5 DEF HandoffInv

\* The event that was closed has no iterator any more.
LEMMA FreeItInv ==
  ASSUME HandoffInv, NEW e \in Events, FreeIt(e)
  PROVE  HandoffInv'
<1>1. /\ closing = e /\ pc[e] = "off" /\ it' = [it EXCEPT ![e] = 0] /\ closing' = NoEvent
      /\ UNCHANGED <<q, cur, held, pc, wait, deleting, main, event>>
  BY DEF FreeIt
<1>2. TypeOK /\ \A t \in Threads : it'[t] = IF t = e THEN 0 ELSE it[t]
  BY <1>1 DEF HandoffInv, TypeOK
<1>3. TypeOK'
  <2>1. it' \in [Threads -> 0 .. Len(q') + 1]
    <3>1. it \in [Threads -> 0 .. Len(q) + 1] /\ 0 \in 0 .. Len(q) + 1
      BY <1>2 DEF TypeOK
    <3> QED
      BY <1>1, <3>1
  <2>2. it'["decoder"] # 0 /\ it'["analysis"] # 0
    BY <1>2, ThreadNames DEF TypeOK
  <2> QED
    BY <1>1, <1>2, <2>1, <2>2 DEF TypeOK
<1>4. LocksHaveHolders' /\ HandsInv'
  BY <1>1, QuietHands
<1>5. NobodySleepsThroughStop' /\ DecoderInv'
  BY <1>1 DEF HandoffInv, NobodySleepsThroughStop, DecoderInv
<1>6. AnalysisInv'
  BY <1>1, <1>2, ThreadNames DEF HandoffInv, AnalysisInv
<1>7. RolesInv'
  <2>1. \A d \in Events : it'[d] = IF d = e THEN 0 ELSE it[d]
    BY <1>2, ThreadNames
  <2>2. e # NoEvent /\ event # e
    BY <1>1, ThreadNames DEF HandoffInv, RolesInv
  <2>3. \A d \in Events : d # e => (d \in {event', closing'} <=> d \in {event, closing})
    BY <1>1, ThreadNames
  <2> QED
    BY <1>1, <2>1, <2>2, <2>3, ThreadNames DEF HandoffInv, RolesInv, Opening
<1>8. EventsInv'
  <2>1. \A d \in Events : it'[d] = IF d = e THEN 0 ELSE it[d]
    BY <1>2, ThreadNames
  <2> QED
    BY <1>1, <2>1 DEF HandoffInv, EventsInv, Complete
<1> QED
  BY <1>3, <1>4, <1>5, <1>6, <1>7, <1>8 DEF HandoffInv

\* Every step of an event's thread, and its end, keeps the invariant.
LEMMA EventStepInv ==
  ASSUME HandoffInv, NEW e \in Events, EventThread(e)
  PROVE  HandoffInv'
<1>1. CASE EventEnds(e) \/ AddPacket(e) \/ (EventGet(e) /\ (deleting \/ ~Available(e)))
  BY <1>1, EventQuietInv
<1>2. CASE EventGet(e) /\ ~(deleting \/ ~Available(e))
  BY <1>2, EventTakeInv
<1>3. CASE EventRetry(e) \/ EventUnlock(e)
  BY <1>3, EventGiveInv
<1>4. CASE EventIncrement(e)
  BY <1>4, EventIncrementInv
<1>5. CASE FreeIt(e)
  BY <1>5, FreeItInv
<1>6. CASE Resume(e)
  BY <1>6, ResumeInv, ThreadNames
<1> QED
  BY <1>1, <1>2, <1>3, <1>4, <1>5, <1>6 DEF EventThread

-----------------------------------------------------------------------------
(* The invariants.                                                         *)

\* A stuttering step keeps the invariant.
LEMMA HandoffStutter ==
  ASSUME HandoffInv, UNCHANGED vars
  PROVE  HandoffInv'
BY DEF HandoffInv, TypeOK, LocksHaveHolders, HandsInv, NobodySleepsThroughStop, DecoderInv,
       AnalysisInv, RolesInv, EventsInv, vars, HeldSet, Opening, Complete

\* The first state: an empty queue and threads that have just begun.
LEMMA HandoffInit ==
  ASSUME Init
  PROVE  HandoffInv
<1>1. /\ Len(q) = 0 /\ q \in Seq(Packets) /\ held \in Seq(0 .. 0) /\ Len(held) = 0
      /\ DOMAIN q = {} /\ DOMAIN held = {}
  BY DEF Init
<1>2. /\ \A e \in Events : it[e] = 0 /\ pc[e] = "off" /\ cur[e] = 0
      /\ it["decoder"] = 1 /\ it["analysis"] = 1 /\ pc["decoder"] = "loop"
      /\ pc["analysis"] = "loop" /\ cur["decoder"] = 0 /\ cur["analysis"] = 0
      /\ cur["start"] = 0
  BY ThreadNames DEF Init
<1>3. TypeOK
  <2>1. 0 <= Limit /\ 0 <= DecoderQueueLimit + 1
    BY LimitAssumption, PreAssumption
  <2>2. it \in [Threads -> 0 .. Len(q) + 1]
    BY <1>1 DEF Init
  <2>3. cur \in [Threads \cup {"start"} -> 0 .. Len(q)]
    BY <1>1 DEF Init
  <2>4. pc \in [Threads -> {"off", "loop", "pause", "get", "work", "convert", "unlock", "close",
                          "open", "start", "create", "opened", "clear", "analyzed",
                          "increment", "check", "write"}]
    BY DEF Init
  <2>5. wait \in [Threads -> {"no", "block", "asleep"}]
    BY DEF Init
  <2>6. /\ deleting \in BOOLEAN /\ main = "run"
        /\ event \in Events \cup {NoEvent} /\ closing \in Events \cup {NoEvent}
    BY DEF Init
  <2>7. Len(q) <= Limit /\ held \in Seq(0 .. Len(q)) /\ Len(held) <= DecoderQueueLimit + 1
    BY <1>1, <2>1
  <2>8. it["decoder"] # 0 /\ it["analysis"] # 0
    BY <1>2
  <2> QED
    BY <1>1, <2>2, <2>3, <2>4, <2>5, <2>6, <2>7, <2>8 DEF TypeOK, Packets
<1>4. LocksHaveHolders /\ HandsInv
  BY <1>1, <1>2 DEF LocksHaveHolders, HandsInv
<1>5. NobodySleepsThroughStop /\ DecoderInv /\ AnalysisInv
  BY <1>1, <1>2 DEF NobodySleepsThroughStop, DecoderInv, AnalysisInv, Init, AtPacket
<1>6. RolesInv /\ EventsInv
  BY <1>2, ThreadNames DEF RolesInv, EventsInv, Init, Opening
<1> QED
  BY <1>3, <1>4, <1>5, <1>6 DEF HandoffInv

\* Every step keeps the invariant.
LEMMA HandoffNext ==
  ASSUME HandoffInv, [Next]_vars
  PROVE  HandoffInv'
<1>1. CASE QueuePacket
  BY <1>1, QueuePacketInv
<1>2. CASE QueueNotify \/ Pause \/ Stop \/ Join
  BY <1>2, CaptureQuietInv
<1>3. CASE PauseClosesEvent \/ Play
  BY <1>3, SessionInv
<1>4. CASE Clear
  BY <1>4, ClearInv
<1>5. CASE Decoder
  BY <1>5, DecoderStepInv
<1>6. CASE Analysis
  BY <1>6, AnalysisStepInv
<1>7. CASE \E e \in Events : EventThread(e)
  BY <1>7, EventStepInv
<1>8. CASE UNCHANGED vars
  BY <1>8, HandoffStutter
<1> QED
  BY <1>1, <1>2, <1>3, <1>4, <1>5, <1>6, <1>7, <1>8 DEF Next

\* The inductive invariant holds in every reachable state.
THEOREM HandoffInvariant == Spec => []HandoffInv
BY HandoffInit, HandoffNext, PTL DEF Spec

\* Types: no iterator points beyond the end of the queue, the queue holds no
\* more than its limit and the codec one packet more than its own.
THEOREM HandoffTypes == Spec => []TypeOK
<1>1. HandoffInv => TypeOK
  BY DEF HandoffInv
<1> QED
  BY <1>1, HandoffInvariant, PTL

\* No packet stays locked without a thread that will unlock it.
THEOREM LocksAreHeld == Spec => []LocksHaveHolders
<1>1. HandoffInv => LocksHaveHolders
  BY DEF HandoffInv
<1> QED
  BY <1>1, HandoffInvariant, PTL

\* No two threads have a queued packet at a time: whoever works on one has
\* locked it.
THEOREM ExclusiveWork == Spec => []WorkIsExclusive
<1>1. HandoffInv => WorkIsExclusive
  <2> SUFFICES ASSUME HandoffInv, NEW t \in Threads, NEW i \in WorksOn(t), i # 0
               PROVE  q[i].lock = t
    BY DEF WorkIsExclusive
  <2>1. HandsInv
    BY DEF HandoffInv
  <2>2. CASE t = "decoder"
    BY <2>1, <2>2 DEF WorksOn, HandsInv, HeldSet
  <2>3. CASE t = "analysis"
    BY <2>1, <2>3 DEF WorksOn, HandsInv
  <2>4. CASE t \in Events
    BY <2>1, <2>4, ThreadNames DEF WorksOn, HandsInv
  <2> QED
    BY <2>2, <2>3, <2>4, ThreadNames
<1> QED
  BY <1>1, HandoffInvariant, PTL

\* Once the queue is being deleted no thread sleeps in get_packet.
THEOREM StopWakesAll == Spec => []NobodySleepsThroughStop
<1>1. HandoffInv => NobodySleepsThroughStop
  BY DEF HandoffInv
<1> QED
  BY <1>1, HandoffInvariant, PTL

-----------------------------------------------------------------------------
(* The log.  A step that erases nothing and moves no event's iterator is   *)
(* progress of the log, or nothing at all.                                 *)

LogQ == [i \in DOMAIN q |-> [decoded |-> q[i].decoded, analyzed |-> q[i].analyzed]]
LogNext == [e \in Events |-> it[e]]
LogMoved == {e \in Events : pc[e] \in {"check", "write"} /\ cur[e] = 0}

\* The log is as long as the queue and shows its flags.
LEMMA LogFacts ==
  ASSUME q \in Seq(Packets)
  PROVE  /\ LogQ \in Seq(Log!Packets) /\ Len(LogQ) = Len(q) /\ DOMAIN LogQ = DOMAIN q
         /\ \A i \in DOMAIN q : /\ LogQ[i].decoded = q[i].decoded
                                /\ LogQ[i].analyzed = q[i].analyzed
                                /\ LogQ[i] \in Log!Packets
                                /\ LogQ[i] = [decoded |-> q[i].decoded, analyzed |-> q[i].analyzed]
<1>1. Len(q) \in Nat /\ DOMAIN q = 1 .. Len(q) /\ \A i \in DOMAIN q : q[i] \in Packets
  OBVIOUS
<1>2. \A i \in DOMAIN q : [decoded |-> q[i].decoded, analyzed |-> q[i].analyzed] \in Log!Packets
  BY <1>1 DEF Packets, Log!Packets
<1>3. LogQ \in [1 .. Len(q) -> Log!Packets]
  BY <1>1, <1>2 DEF LogQ
<1>4. LogQ \in Seq(Log!Packets) /\ Len(LogQ) = Len(q) /\ DOMAIN LogQ = DOMAIN q
  BY <1>1, <1>3
<1>5. \A i \in DOMAIN q : LogQ[i] = [decoded |-> q[i].decoded, analyzed |-> q[i].analyzed]
  BY DEF LogQ
<1> QED
  BY <1>2, <1>4, <1>5

\* The same in the next state.
LEMMA LogFactsNext ==
  ASSUME q' \in Seq(Packets)
  PROVE  /\ LogQ' \in Seq(Log!Packets) /\ Len(LogQ') = Len(q') /\ DOMAIN LogQ' = DOMAIN q'
         /\ \A i \in DOMAIN q' : /\ LogQ'[i].decoded = q'[i].decoded
                                 /\ LogQ'[i].analyzed = q'[i].analyzed
                                 /\ LogQ'[i] \in Log!Packets
                                 /\ LogQ'[i] = [decoded |-> q'[i].decoded,
                                                analyzed |-> q'[i].analyzed]
<1>1. Len(q') \in Nat /\ DOMAIN q' = 1 .. Len(q') /\ \A i \in DOMAIN q' : q'[i] \in Packets
  OBVIOUS
<1>2. \A i \in DOMAIN q' : [decoded |-> q'[i].decoded, analyzed |-> q'[i].analyzed] \in Log!Packets
  BY <1>1 DEF Packets, Log!Packets
<1>3. LogQ' \in [1 .. Len(q') -> Log!Packets]
  BY <1>1, <1>2 DEF LogQ
<1>4. LogQ' \in Seq(Log!Packets) /\ Len(LogQ') = Len(q') /\ DOMAIN LogQ' = DOMAIN q'
  BY <1>1, <1>3
<1>5. \A i \in DOMAIN q' : LogQ'[i] = [decoded |-> q'[i].decoded, analyzed |-> q'[i].analyzed]
  BY DEF LogQ
<1> QED
  BY <1>2, <1>4, <1>5

\* Packets that are changed in place make progress.
LEMMA InPlace ==
  ASSUME q \in Seq(Packets),
         \/ q' = q
         \/ \E S : q' = Released(S)
         \/ \E owner, S : q' = Unlocked(owner, S)
         \/ \E owner \in Threads : \E k : q' = Locked(owner, k)
         \/ \E k : q' = Mapped({k}, LAMBDA p : [p EXCEPT !.decoded = TRUE])
         \/ \E k : q' = Mapped({k}, LAMBDA p : [p EXCEPT !.analyzed = TRUE])
  PROVE  /\ q' \in Seq(Packets) /\ Len(q') = Len(q) /\ DOMAIN q' = DOMAIN q
         /\ \A i \in DOMAIN q : /\ q[i].decoded => q'[i].decoded
                                /\ q[i].analyzed => q'[i].analyzed
<1>1. CASE q' = q
  BY <1>1
<1>2. CASE \E S : q' = Released(S)
  <2>1. PICK S : q' = Released(S)
    BY <1>2
  <2>2. /\ q' \in Seq(Packets) /\ Len(q') = Len(q) /\ DOMAIN q' = DOMAIN q
        /\ \A i \in DOMAIN q : /\ q'[i].decoded = (i \in S \/ q[i].decoded)
                               /\ q'[i].analyzed = q[i].analyzed
    BY <2>1, ReleasedFacts
  <2> QED
    BY <2>2
<1>3. CASE \E owner, S : q' = Unlocked(owner, S)
  BY <1>3, UnlockedFacts
<1>4. CASE \E owner \in Threads : \E k : q' = Locked(owner, k)
  BY <1>4, LockedFacts
<1>5. CASE \E k : q' = Mapped({k}, LAMBDA p : [p EXCEPT !.decoded = TRUE])
  <2>1. PICK k : q' = Mapped({k}, LAMBDA p : [p EXCEPT !.decoded = TRUE])
    BY <1>5
  <2> QED
    BY <2>1, ProgressFacts
<1>6. CASE \E k : q' = Mapped({k}, LAMBDA p : [p EXCEPT !.analyzed = TRUE])
  <2>1. PICK k : q' = Mapped({k}, LAMBDA p : [p EXCEPT !.analyzed = TRUE])
    BY <1>6
  <2> QED
    BY <2>1, ProgressFacts
<1> QED
  BY <1>1, <1>2, <1>3, <1>4, <1>5, <1>6

\* Such a step is progress of the log.
LEMMA LogProgress ==
  ASSUME q \in Seq(Packets), q' \in Seq(Packets), Len(q') = Len(q), DOMAIN q' = DOMAIN q,
         \A i \in DOMAIN q : /\ q[i].decoded => q'[i].decoded
                             /\ q[i].analyzed => q'[i].analyzed,
         \A e \in Events : it'[e] = it[e],
         \A e \in Events : (pc'[e] \in {"check", "write"} /\ cur'[e] = 0)
                              <=> (pc[e] \in {"check", "write"} /\ cur[e] = 0)
  PROVE  Log!Next
<1>1. LogNext' = LogNext /\ LogMoved' = LogMoved
  BY DEF LogNext, LogMoved
<1>2. /\ Len(LogQ') = Len(LogQ)
      /\ \A i \in DOMAIN LogQ :
            /\ LogQ'[i] \in Log!Packets
            /\ LogQ[i].decoded => LogQ'[i].decoded
            /\ LogQ[i].analyzed => LogQ'[i].analyzed
  BY LogFacts, LogFactsNext
<1>3. Log!Progress
  BY <1>1, <1>2 DEF Log!Progress, LogQ, LogNext, LogMoved
<1> QED
  BY <1>3 DEF Log!Next

\* A captured packet, with an overflow or without.
LEMMA LogCapture ==
  ASSUME HandoffInv, QueuePacket
  PROVE  Log!Next
<1> DEFINE new == [decoded |-> FALSE, analyzed |-> FALSE, lock |-> Free]
           packets == Append(q, new)
           n == Overflow(packets)
<1>1. q \in Seq(Packets) /\ Len(q) \in Nat /\ TypeOK /\ EventsInv
  BY DEF HandoffInv, TypeOK, Packets
<1>2. new \in Packets /\ new.decoded = FALSE /\ new.analyzed = FALSE
  BY DEF Packets
<1> HIDE DEF new
<1>3. /\ packets \in Seq(Packets) /\ Len(packets) = Len(q) + 1
      /\ \A i \in DOMAIN q : packets[i] = q[i]
      /\ packets[Len(q) + 1] = new
  BY <1>1, <1>2
<1>4. n = IF Len(q) + 1 > Limit THEN 1 ELSE 0
  BY <1>3 DEF Overflow
<1>5. Erase(n, packets) /\ pc' = pc
  BY DEF QueuePacket, new
<1> HIDE DEF packets, n
<1>6. n \in 0 .. Len(packets) /\ n \in {0, 1}
  BY <1>1, <1>3, <1>4
<1>7. /\ q' \in Seq(Packets) /\ Len(q') = Len(packets) - n
      /\ \A i \in DOMAIN q' : i + n \in DOMAIN packets /\ q'[i] = packets[i + n]
      /\ \A t \in Threads :
              it'[t] = IF it[t] = 0 THEN 0 ELSE IF it[t] <= n THEN 1 ELSE it[t] - n
      /\ \A t \in Threads \cup {"start"} :
              cur'[t] = IF cur[t] <= n THEN 0 ELSE cur[t] - n
  BY <1>1, <1>3, <1>5, <1>6, EraseFacts
<1> DEFINE L == Append(LogQ, Log!New)
<1>8. /\ LogQ \in Seq(Log!Packets) /\ Len(LogQ) = Len(q) /\ DOMAIN LogQ = DOMAIN q
      /\ \A i \in DOMAIN q : LogQ[i] = [decoded |-> q[i].decoded, analyzed |-> q[i].analyzed]
  BY <1>1, LogFacts
<1>9. /\ LogQ' \in Seq(Log!Packets) /\ Len(LogQ') = Len(q') /\ DOMAIN LogQ' = DOMAIN q'
      /\ \A i \in DOMAIN q' : LogQ'[i] = [decoded |-> q'[i].decoded, analyzed |-> q'[i].analyzed]
  BY <1>7, LogFactsNext
<1>10. Log!New \in Log!Packets /\ Log!New = [decoded |-> FALSE, analyzed |-> FALSE]
  BY DEF Log!New, Log!Packets
<1>11. /\ L \in Seq(Log!Packets) /\ Len(L) = Len(q) + 1
       /\ \A i \in DOMAIN q : L[i] = [decoded |-> q[i].decoded, analyzed |-> q[i].analyzed]
       /\ L[Len(q) + 1] = [decoded |-> FALSE, analyzed |-> FALSE]
  BY <1>1, <1>8, <1>10
<1> HIDE DEF L
<1>12. \A i \in DOMAIN packets : /\ i \in 1 .. Len(q) + 1
                                 /\ L[i] = [decoded |-> packets[i].decoded,
                                            analyzed |-> packets[i].analyzed]
  <2> SUFFICES ASSUME NEW i \in DOMAIN packets
               PROVE  /\ i \in 1 .. Len(q) + 1
                      /\ L[i] = [decoded |-> packets[i].decoded, analyzed |-> packets[i].analyzed]
    OBVIOUS
  <2>1. i \in 1 .. Len(q) + 1 /\ (i \in DOMAIN q \/ i = Len(q) + 1)
    BY <1>1, <1>3
  <2>2. CASE i \in DOMAIN q
    BY <1>3, <1>11, <2>1, <2>2
  <2>3. CASE i = Len(q) + 1
    BY <1>2, <1>3, <1>11, <2>1, <2>3
  <2> QED
    BY <2>1, <2>2, <2>3
<1>13. LogQ' = SubSeq(L, n + 1, Len(LogQ) + 1)
  <2> DEFINE M == SubSeq(L, n + 1, Len(LogQ) + 1)
  <2>1. n + 1 \in Int /\ Len(LogQ) + 1 \in Int /\ Len(LogQ) + 1 = Len(L)
        /\ n + 1 <= Len(L) + 1 /\ n \in Nat /\ Len(L) = Len(packets)
    BY <1>1, <1>3, <1>6, <1>8, <1>11
  <2>2. \A i \in n + 1 .. Len(LogQ) + 1 : L[i] \in Log!Packets
    BY <1>11, <2>1
  <2>3. /\ M \in Seq(Log!Packets)
        /\ Len(M) = IF n + 1 <= Len(LogQ) + 1 THEN Len(LogQ) + 1 - (n + 1) + 1 ELSE 0
        /\ \A i \in 1 .. Len(LogQ) + 1 - (n + 1) + 1 : M[i] = L[n + 1 + i - 1]
    BY <2>1, <2>2, SubSeqProperties
  <2>4. Len(M) = Len(q') /\ Len(q') \in Nat /\ Len(q') = Len(LogQ) + 1 - (n + 1) + 1
    BY <1>3, <1>7, <1>8, <1>11, <2>1, <2>3
  <2>5. \A i \in 1 .. Len(q') : M[i] = LogQ'[i]
    <3> SUFFICES ASSUME NEW i \in 1 .. Len(q') PROVE M[i] = LogQ'[i]
      OBVIOUS
    <3>1. i \in DOMAIN q' /\ n + 1 + i - 1 = i + n
      BY <1>7, <2>1
    <3>2. M[i] = L[i + n]
      BY <2>3, <2>4, <3>1
    <3> HIDE DEF M
    <3>3. L[i + n] = [decoded |-> packets[i + n].decoded, analyzed |-> packets[i + n].analyzed]
      BY <1>7, <1>12, <3>1
    <3> QED
      BY <1>7, <1>9, <3>1, <3>2, <3>3
  <2> HIDE DEF M
  <2>6. M = LogQ'
    BY <1>9, <2>3, <2>4, <2>5, SeqEqual
  <2> QED
    BY <2>6 DEF M
<1>14. LogNext' = [r \in Events |-> IF LogNext[r] > 1 THEN LogNext[r] - n ELSE LogNext[r]]
  <2>1. \A r \in Events : it'[r] = IF it[r] > 1 THEN it[r] - n ELSE it[r]
    <3>1. \A r \in Events : it[r] \in Nat
      BY <1>1, ThreadNames DEF TypeOK
    <3> QED
      BY <1>6, <1>7, <3>1, ThreadNames
  <2> QED
    BY <2>1 DEF LogNext
<1>15. LogMoved \subseteq LogMoved'
       /\ LogMoved' \subseteq LogMoved \cup {r \in Events : n = 1 /\ LogNext[r] = 1}
  <2>1. \A r \in Events : /\ cur[r] = 0 => cur'[r] = 0
                          /\ cur'[r] = 0 /\ cur[r] # 0 => n = 1 /\ cur[r] = 1
    <3>1. \A r \in Events : cur[r] \in Nat
      BY <1>1, ThreadNames DEF TypeOK
    <3> QED
      BY <1>6, <1>7, <3>1, ThreadNames
  <2>2. \A r \in Events : pc[r] \in {"check", "write"} => cur[r] \in {0, it[r]}
    BY <1>1 DEF EventsInv
  <2> QED
    BY <1>5, <2>1, <2>2 DEF LogMoved, LogNext
<1>16. n = IF Len(LogQ) + 1 > Limit THEN 1 ELSE 0
  BY <1>4, <1>8
<1>17. Log!Capture
  BY <1>13, <1>14, <1>15, <1>16 DEF Log!Capture, LogQ, LogNext, LogMoved, L
<1> QED
  BY <1>17 DEF Log!Next

\* clearPackets cuts off what no event needs.
LEMMA LogTrim ==
  ASSUME HandoffInv, ClearPackets
  PROVE  Log!Next
<1> DEFINE n == Trimmable
<1>1. q \in Seq(Packets) /\ Len(q) \in Nat /\ TypeOK /\ EventsInv
      /\ \A i \in DOMAIN q : i \in Nat
  BY DEF HandoffInv, TypeOK, Packets
<1>2. Erase(n, q) /\ \A e \in Events : pc'[e] = pc[e]
  BY <1>1, ThreadNames DEF ClearPackets, Go, TypeOK
<1>3. n \in Nat /\ (n # 0 => n < Len(q) /\ \A t \in Threads : it[t] # 0 => n < it[t])
  BY <1>1, TrimmableFacts
<1> HIDE DEF n
<1>4. n \in 0 .. Len(q)
  BY <1>1, <1>3
<1>5. /\ q' \in Seq(Packets) /\ Len(q') = Len(q) - n
      /\ \A i \in DOMAIN q' : i + n \in DOMAIN q /\ q'[i] = q[i + n]
      /\ \A t \in Threads :
              it'[t] = IF it[t] = 0 THEN 0 ELSE IF it[t] <= n THEN 1 ELSE it[t] - n
      /\ \A t \in Threads \cup {"start"} :
              cur'[t] = IF cur[t] <= n THEN 0 ELSE cur[t] - n
  BY <1>1, <1>2, <1>4, EraseFacts
<1>6. \A e \in Events : it[e] \in Nat /\ cur[e] \in Nat
  BY <1>1, ThreadNames DEF TypeOK
<1>7. \A e \in Events : pc[e] \in {"check", "write"} => cur[e] \in {0, it[e]} /\ it[e] # 0
  BY <1>1 DEF EventsInv
<1>8. CASE n = 0
  <2>1. Len(q') = Len(q) /\ DOMAIN q' = DOMAIN q
    BY <1>1, <1>5, <1>8
  <2>2. \A i \in DOMAIN q : q'[i] = q[i]
    BY <1>1, <1>5, <1>8, <2>1
  <2>3. \A e \in Events : it'[e] = it[e] /\ cur'[e] = cur[e]
    BY <1>5, <1>6, <1>8, ThreadNames
  <2> QED
    BY <1>1, <1>2, <1>5, <2>1, <2>2, <2>3, LogProgress
<1>9. CASE n # 0
  <2>1. /\ LogQ \in Seq(Log!Packets) /\ Len(LogQ) = Len(q) /\ DOMAIN LogQ = DOMAIN q
        /\ \A i \in DOMAIN q : LogQ[i] = [decoded |-> q[i].decoded, analyzed |-> q[i].analyzed]
    BY <1>1, LogFacts
  <2>2. /\ LogQ' \in Seq(Log!Packets) /\ Len(LogQ') = Len(q') /\ DOMAIN LogQ' = DOMAIN q'
        /\ \A i \in DOMAIN q' :
             LogQ'[i] = [decoded |-> q'[i].decoded, analyzed |-> q'[i].analyzed]
    BY <1>5, LogFactsNext
  <2>3. n \in 1 .. Len(LogQ)
    BY <1>1, <1>4, <1>9, <2>1
  <2>4. \A r \in Events : LogNext[r] = 0 \/ LogNext[r] > n
    BY <1>3, <1>6, <1>9, ThreadNames DEF LogNext
  <2>5. LogQ' = SubSeq(LogQ, n + 1, Len(LogQ))
    <3> DEFINE M == SubSeq(LogQ, n + 1, Len(LogQ))
    <3>1. n + 1 \in Int /\ Len(LogQ) \in Int /\ n + 1 <= Len(LogQ)
          /\ Len(LogQ) - (n + 1) + 1 = Len(q')
      BY <1>1, <1>3, <1>5, <1>9, <2>1
    <3>2. \A i \in n + 1 .. Len(LogQ) : LogQ[i] \in Log!Packets
      BY <1>3, <2>1
    <3>3. /\ M \in Seq(Log!Packets) /\ Len(M) = Len(q')
          /\ \A i \in 1 .. Len(q') : M[i] = LogQ[n + 1 + i - 1]
      BY <3>1, <3>2, SubSeqProperties
    <3> HIDE DEF M
    <3>4. \A i \in 1 .. Len(q') : M[i] = LogQ'[i]
      <4> SUFFICES ASSUME NEW i \in 1 .. Len(q') PROVE M[i] = LogQ'[i]
        OBVIOUS
      <4>1. i \in DOMAIN q' /\ n + 1 + i - 1 = i + n
        BY <1>3, <1>5
      <4>2. i + n \in DOMAIN q /\ q'[i] = q[i + n] /\ M[i] = LogQ[i + n]
        BY <1>5, <3>3, <4>1
      <4> QED
        BY <2>1, <2>2, <4>1, <4>2
    <3>5. M = LogQ'
      BY <2>2, <3>3, <3>4, SeqEqual
    <3> QED
      BY <3>5 DEF M
  <2>6. LogNext' = [r \in Events |-> IF LogNext[r] = 0 THEN 0 ELSE LogNext[r] - n]
    <3>1. \A r \in Events : it'[r] = IF it[r] = 0 THEN 0 ELSE it[r] - n
      BY <1>3, <1>5, <1>6, <1>9, ThreadNames
    <3> QED
      BY <3>1 DEF LogNext
  <2>7. LogMoved' = LogMoved
    <3>1. \A e \in Events : pc[e] \in {"check", "write"} => (cur'[e] = 0 <=> cur[e] = 0)
      <4> SUFFICES ASSUME NEW e \in Events, pc[e] \in {"check", "write"}
                   PROVE  cur'[e] = 0 <=> cur[e] = 0
        OBVIOUS
      <4>1. cur[e] = 0 \/ (cur[e] = it[e] /\ n < cur[e])
        BY <1>3, <1>7, <1>9, ThreadNames
      <4>2. cur'[e] = IF cur[e] <= n THEN 0 ELSE cur[e] - n
        BY <1>5, ThreadNames
      <4> QED
        BY <1>3, <1>6, <4>1, <4>2
    <3> QED
      BY <1>2, <3>1 DEF LogMoved
  <2>8. Log!Trim
    BY <2>3, <2>4, <2>5, <2>6, <2>7 DEF Log!Trim, LogQ, LogNext, LogMoved
  <2> QED
    BY <2>8 DEF Log!Next
<1> QED
  BY <1>8, <1>9

\* The end of a session: nobody records.
LEMMA LogReset ==
  ASSUME HandoffInv, Clear
  PROVE  Log!Next
<1>1. q \in Seq(Packets) /\ Len(q) \in Nat /\ TypeOK
  BY DEF HandoffInv, TypeOK, Packets
<1>2. Erase(Len(q), q) /\ pc' = pc /\ main = "clear"
  BY DEF Clear
<1>3. \A e \in Events : it[e] = 0 /\ pc[e] = "off"
  BY <1>2, ThreadNames DEF HandoffInv, AnalysisInv, RolesInv
<1>4. Len(q) \in 0 .. Len(q)
  BY <1>1
<1>5. /\ q' \in Seq(Packets) /\ Len(q') = Len(q) - Len(q)
      /\ \A t \in Threads :
              it'[t] = IF it[t] = 0 THEN 0 ELSE IF it[t] <= Len(q) THEN 1 ELSE it[t] - Len(q)
  BY <1>1, <1>2, <1>4, EraseFacts
<1>6. LogQ' = <<>>
  <2>1. Len(q') = 0
    BY <1>1, <1>5
  <2>2. DOMAIN q' = {}
    BY <1>5, <2>1
  <2> QED
    BY <2>2 DEF LogQ
<1>7. \A e \in Events : it'[e] = 0
  BY <1>3, <1>5, ThreadNames
<1>8. LogNext' = LogNext /\ LogMoved' = LogMoved
  BY <1>2, <1>3, <1>7 DEF LogNext, LogMoved
<1>9. \A r \in Events : LogNext[r] = 0
  BY <1>3 DEF LogNext
<1>10. Log!Reset
  BY <1>6, <1>8, <1>9 DEF Log!Reset, LogQ, LogNext, LogMoved
<1> QED
  BY <1>10 DEF Log!Next

\* The capture thread and the decoder change flags at most.
LEMMA LogDecoder ==
  ASSUME HandoffInv,
         \/ QueueNotify \/ Pause \/ Stop \/ Join \/ PauseClosesEvent \/ Play
         \/ Decoder
  PROVE  Log!Next
<1>1. TypeOK /\ q \in Seq(Packets) /\ "decoder" \in Threads
  BY ThreadNames DEF HandoffInv, TypeOK, Packets
<1>2. CASE QueueNotify \/ Pause \/ Stop \/ Join \/ PauseClosesEvent \/ Play
  <2>1. UNCHANGED <<q, it, cur>>
    BY <1>2 DEF QueueNotify, Pause, Stop, Join, PauseClosesEvent, Play, Unchanged
  <2>2. \A e \in Events : pc'[e] = pc[e]
    BY <1>1, <1>2, ThreadNames DEF QueueNotify, Pause, Stop, Join, PauseClosesEvent, Play, TypeOK
  <2> QED
    BY <1>1, <2>1, <2>2, LogProgress
<1>3. CASE Decoder
  <2>1. \/ q' = q \/ (\E S : q' = Released(S)) \/ (\E owner, S : q' = Unlocked(owner, S))
        \/ (\E owner \in Threads : \E k : q' = Locked(owner, k))
        \/ (\E k : q' = Mapped({k}, LAMBDA p : [p EXCEPT !.decoded = TRUE]))
    <3>1. CASE DecoderExit \/ ReceiveNothing \/ SkipPacket
      BY <3>1 DEF DecoderExit, ReceiveNothing, SkipPacket, Flush
    <3>2. CASE \E j \in DOMAIN held : ReceiveFrame(j)
      BY <3>2 DEF ReceiveFrame
    <3>3. CASE ReceiveError \/ SendPacket \/ Resume("decoder") \/ Sleep("decoder")
      BY <3>3 DEF ReceiveError, SendPacket, Resume, Sleep
    <3>4. CASE DecoderGet
      BY <1>1, <3>4 DEF DecoderGet, GetPacket
    <3>5. CASE SendFails \/ DecoderUnlock
      BY <3>5 DEF SendFails, DecoderUnlock
    <3>6. CASE Convert
      BY <3>6 DEF Convert
    <3> QED
      BY <1>3, <3>1, <3>2, <3>3, <3>4, <3>5, <3>6 DEF Decoder
  <2>2. /\ q' \in Seq(Packets) /\ Len(q') = Len(q) /\ DOMAIN q' = DOMAIN q
        /\ \A i \in DOMAIN q : /\ q[i].decoded => q'[i].decoded
                               /\ q[i].analyzed => q'[i].analyzed
    BY <1>1, <2>1, InPlace
  <2>3. it' = it \/ it' = Incremented("decoder")
    BY <1>3 DEF Decoder, DecoderExit, ReceiveFrame, ReceiveError, ReceiveNothing, DecoderGet,
                GetPacket, SendPacket, SendFails, SkipPacket, Convert, DecoderUnlock, Resume, Sleep
  <2>4. cur' = cur \/ \E x : cur' = [cur EXCEPT !["decoder"] = x]
    BY <1>3 DEF Decoder, DecoderExit, ReceiveFrame, ReceiveError, ReceiveNothing, DecoderGet,
                GetPacket, SendPacket, SendFails, SkipPacket, Convert, DecoderUnlock, Resume, Sleep,
                Work
  <2>5. pc' = pc \/ \E x : pc' = [pc EXCEPT !["decoder"] = x]
    BY <1>3 DEF Decoder, DecoderExit, ReceiveFrame, ReceiveError, ReceiveNothing, DecoderGet,
                GetPacket, SendPacket, SendFails, SkipPacket, Convert, DecoderUnlock, Resume, Sleep,
                Go
  <2>6. \A e \in Events : it'[e] = it[e]
    <3>1. it["decoder"] # 0
      BY <1>1 DEF TypeOK
    <3> QED
      BY <1>1, <2>3, <3>1, IncrementedFacts, ThreadNames
  <2>7. \A e \in Events : cur'[e] = cur[e] /\ pc'[e] = pc[e]
    BY <1>1, <2>4, <2>5, ThreadNames DEF TypeOK
  <2> QED
    BY <1>1, <2>2, <2>6, <2>7, LogProgress
<1> QED
  BY <1>2, <1>3

\* The analysis begins events, gives one up while it opens it, and trims;
\* everything else it does is progress.
LEMMA LogAnalysis ==
  ASSUME HandoffInv, Analysis
  PROVE  Log!Next
<1>1. TypeOK /\ q \in Seq(Packets) /\ "analysis" \in Threads
  BY ThreadNames DEF HandoffInv, TypeOK, Packets
<1>2. CASE ClearPackets
  BY <1>2, LogTrim
<1>3. ASSUME NEW e \in Events, OpenEvent(e)
      PROVE  Log!Next
  <2>1. /\ pc["analysis"] = "open" /\ it[e] = 0 /\ UNCHANGED <<q, cur>>
        /\ \E start : it' = [it EXCEPT ![e] = start]
    BY <1>3 DEF OpenEvent
  <2>3. PICK start : it' = [it EXCEPT ![e] = start]
    BY <2>1
  <2>4. \A t \in Threads : it'[t] = IF t = e THEN start ELSE it[t]
    BY <1>1, <2>3 DEF TypeOK
  <2>5. start \in 1 .. Len(q)
    <3>1. PICK back \in {0, Pre} : it' = [it EXCEPT ![e] = Max({1, it["analysis"] - back})]
      BY <1>3 DEF OpenEvent
    <3>2. it["analysis"] \in 1 .. Len(q) /\ Len(q) \in Nat
      BY <1>1, <2>1, ThreadNames DEF HandoffInv, AnalysisInv, AtPacket, TypeOK
    <3>3. back \in Nat /\ it["analysis"] - back \in Int /\ 1 \in Int
      BY <3>2, PreAssumption
    <3>4. Max({1, it["analysis"] - back})
            = IF 1 >= it["analysis"] - back THEN 1 ELSE it["analysis"] - back
      BY <3>3, MaxOfPair
    <3>5. it'[e] = Max({1, it["analysis"] - back}) /\ it'[e] = start
      BY <1>1, <2>4, <3>1, ThreadNames DEF TypeOK
    <3> QED
      BY <3>2, <3>3, <3>4, <3>5
  <2>6. pc[e] = "off"
    <3>1. e \notin {event, closing}
      BY <2>1 DEF HandoffInv, RolesInv
    <3> QED
      BY <3>1 DEF HandoffInv, RolesInv
  <2>7. \A d \in Events : /\ pc'[d] = pc[d] \/ (d = e /\ pc'[d] = "loop")
    BY <1>1, <1>3, ThreadNames DEF OpenEvent, Go, TypeOK
  <2>8. LogMoved' = LogMoved
    BY <2>1, <2>6, <2>7 DEF LogMoved
  <2>9. LogQ' = LogQ
    BY <2>1 DEF LogQ
  <2>10. LogNext' = [LogNext EXCEPT ![e] = start] /\ LogNext[e] = 0
    BY <2>1, <2>4, ThreadNames DEF LogNext
  <2>11. start \in DOMAIN LogQ
    <3>1. DOMAIN LogQ = 1 .. Len(q)
      BY <1>1, LogFacts
    <3> QED
      BY <2>5, <3>1
  <2>12. Log!Begin(e)
    BY <2>8, <2>9, <2>10, <2>11 DEF Log!Begin, LogQ, LogNext, LogMoved
  <2> QED
    BY <1>3, <2>12 DEF Log!Next
<1>4. ASSUME NEW e \in Events, StartGet(e)
      PROVE  Log!Next
  <2>0. pc["analysis"] = "start" /\ e \in Opening /\ e \notin {event, closing}
    BY <1>4 DEF StartGet, Opening
  <2>1. CASE Go("analysis", "clear") /\ it' = [it EXCEPT ![e] = 0] /\ UNCHANGED <<q, cur>>
    <3>1. pc[e] = "off"
      BY <2>0 DEF HandoffInv, RolesInv
    <3>2. \A d \in Events : pc'[d] = pc[d]
      BY <1>1, <2>1, ThreadNames DEF Go, TypeOK
    <3>3. LogQ' = LogQ
      BY <2>1 DEF LogQ
    <3>4. LogNext' = [LogNext EXCEPT ![e] = 0]
      BY <1>1, <2>1, ThreadNames DEF LogNext, TypeOK
    <3>5. LogMoved' = LogMoved \ {e}
      BY <2>1, <3>1, <3>2 DEF LogMoved
    <3>6. Log!End(e)
      BY <3>3, <3>4, <3>5 DEF Log!End, LogQ, LogNext, LogMoved
    <3> QED
      BY <1>4, <3>6 DEF Log!Next
  <2>2. CASE /\ q' = Locked("analysis", it[e]) /\ Work("start", it[e]) /\ Go("analysis", "create")
             /\ it' = it
    <3>1. \A d \in Events : pc'[d] = pc[d] /\ cur'[d] = cur[d]
      BY <1>1, <2>2, ThreadNames DEF Go, Work, TypeOK
    <3>2. /\ q' \in Seq(Packets) /\ Len(q') = Len(q) /\ DOMAIN q' = DOMAIN q
          /\ \A i \in DOMAIN q : /\ q[i].decoded => q'[i].decoded
                                 /\ q[i].analyzed => q'[i].analyzed
      BY <1>1, <2>2, InPlace
    <3> QED
      BY <1>1, <2>2, <3>1, <3>2, LogProgress
  <2>3. CASE UNCHANGED <<q, it, cur, pc>>
    BY <1>1, <2>3, LogProgress
  <2> QED
    BY <1>4, <2>1, <2>2, <2>3 DEF StartGet, GetPacket
<1>5. ASSUME NEW e \in Events, StartEvent(e)
      PROVE  Log!Next
  <2>1. /\ q' = Unlocked("analysis", {cur["analysis"]}) /\ UNCHANGED <<it, cur>>
        /\ pc' = [pc EXCEPT !["analysis"] = "opened", ![e] = "loop"] /\ e \notin {event, closing}
    BY <1>5 DEF StartEvent, Opening
  <2>2. pc[e] = "off"
    BY <2>1 DEF HandoffInv, RolesInv
  <2>3. \A d \in Events : /\ pc'[d] = pc[d] \/ (d = e /\ pc'[d] = "loop")
    BY <1>1, <2>1, ThreadNames DEF TypeOK
  <2>4. /\ q' \in Seq(Packets) /\ Len(q') = Len(q) /\ DOMAIN q' = DOMAIN q
        /\ \A i \in DOMAIN q : /\ q[i].decoded => q'[i].decoded
                               /\ q[i].analyzed => q'[i].analyzed
    BY <1>1, <2>1, InPlace
  <2> QED
    BY <1>1, <2>1, <2>2, <2>3, <2>4, LogProgress
<1>6. CASE \/ AnalyseLoop \/ AnalyseGet \/ AnalyseRetry \/ Analyse \/ CloseEvent \/ StartUnlock
           \/ SetAnalyzed \/ AnalyseIncrement \/ AnalyseUnlock \/ Resume("analysis")
           \/ Sleep("analysis")
  <2>1. \/ q' = q \/ (\E owner, S : q' = Unlocked(owner, S))
        \/ (\E owner \in Threads : \E k : q' = Locked(owner, k))
        \/ (\E k : q' = Mapped({k}, LAMBDA p : [p EXCEPT !.analyzed = TRUE]))
    <3>1. CASE \/ AnalyseLoop \/ Analyse \/ CloseEvent \/ AnalyseIncrement \/ Resume("analysis")
               \/ Sleep("analysis")
      BY <3>1 DEF AnalyseLoop, Analyse, CloseEvent, AnalyseIncrement, Resume, Sleep
    <3>2. CASE AnalyseGet
      BY <1>1, <3>2 DEF AnalyseGet, GetPacket
    <3>3. CASE AnalyseRetry \/ StartUnlock \/ AnalyseUnlock
      BY <3>3 DEF AnalyseRetry, StartUnlock, AnalyseUnlock
    <3>4. CASE SetAnalyzed
      BY <3>4 DEF SetAnalyzed
    <3> QED
      BY <1>6, <3>1, <3>2, <3>3, <3>4
  <2>2. /\ q' \in Seq(Packets) /\ Len(q') = Len(q) /\ DOMAIN q' = DOMAIN q
        /\ \A i \in DOMAIN q : /\ q[i].decoded => q'[i].decoded
                               /\ q[i].analyzed => q'[i].analyzed
    BY <1>1, <2>1, InPlace
  <2>3. it' = it \/ it' = Incremented("analysis")
    BY <1>6 DEF AnalyseLoop, AnalyseGet, GetPacket, AnalyseRetry, Analyse, CloseEvent, StartUnlock,
                SetAnalyzed, AnalyseIncrement, AnalyseUnlock, Resume, Sleep
  <2>4. cur' = cur \/ \E slot \in {"analysis", "start"} : \E x : cur' = [cur EXCEPT ![slot] = x]
    BY <1>6 DEF AnalyseLoop, AnalyseGet, GetPacket, AnalyseRetry, Analyse, CloseEvent, StartUnlock,
                SetAnalyzed, AnalyseIncrement, AnalyseUnlock, Resume, Sleep, Work
  <2>5. pc' = pc \/ \E x : pc' = [pc EXCEPT !["analysis"] = x]
    BY <1>6 DEF AnalyseLoop, AnalyseGet, GetPacket, AnalyseRetry, Analyse, CloseEvent, StartUnlock,
                SetAnalyzed, AnalyseIncrement, AnalyseUnlock, Resume, Sleep, Go
  <2>6. \A e \in Events : it'[e] = it[e]
    <3>1. it["analysis"] # 0
      BY <1>1 DEF TypeOK
    <3> QED
      BY <1>1, <2>3, <3>1, IncrementedFacts, ThreadNames
  <2>7. \A e \in Events : cur'[e] = cur[e] /\ pc'[e] = pc[e]
    BY <1>1, <2>4, <2>5, ThreadNames DEF TypeOK
  <2> QED
    BY <1>1, <2>2, <2>6, <2>7, LogProgress
<1> QED
  BY <1>2, <1>3, <1>4, <1>5, <1>6 DEF Analysis

\* An event passes a packet that is complete, or one it was moved to; it may
\* give up the packet it was moved off.
LEMMA LogEvent ==
  ASSUME HandoffInv, NEW e \in Events, EventThread(e)
  PROVE  Log!Next
<1>1. TypeOK /\ q \in Seq(Packets) /\ e \in Threads /\ EventsInv
      /\ cur \in [Threads \cup {"start"} -> 0 .. Len(q)]
  BY ThreadNames DEF HandoffInv, TypeOK, Packets
<1>2. CASE EventIncrement(e)
  <2>1. /\ it' = Incremented(e) /\ UNCHANGED <<q, cur>> /\ pc[e] = "write"
        /\ pc' = [pc EXCEPT ![e] = "unlock"]
    BY <1>2 DEF EventIncrement, Go
  <2>2. \A d \in Events : pc'[d] = IF d = e THEN "unlock" ELSE pc[d]
    BY <1>1, <2>1, ThreadNames DEF TypeOK
  <2>3. LogQ' = LogQ /\ LogMoved' = LogMoved \ {e}
    BY <2>1, <2>2 DEF LogQ, LogMoved
  <2>4. it[e] \in 1 .. Len(q) /\ cur[e] \in {0, it[e]} /\ (cur[e] # 0 => Complete(q[cur[e]]))
        /\ Len(q) \in Nat
    BY <1>1, <2>1 DEF EventsInv, TypeOK
  <2>5. CASE deleting
    <3>1. LogNext' = LogNext
      BY <2>1, <2>5 DEF Incremented, LogNext
    <3>2. Log!GiveUp(e)
      BY <2>3, <3>1 DEF Log!GiveUp, LogQ, LogNext, LogMoved
    <3> QED
      BY <3>2 DEF Log!Next
  <2>6. CASE ~deleting
    <3>1. it[e] # Len(q) + 1
      BY <2>4
    <3>2. it' = [it EXCEPT ![e] = it[e] + 1]
      BY <2>1, <2>6, <3>1 DEF Incremented, AtEnd
    <3>3. LogNext' = [LogNext EXCEPT ![e] = LogNext[e] + 1]
      BY <1>1, <3>2, ThreadNames DEF LogNext, TypeOK
    <3>4. /\ DOMAIN LogQ = DOMAIN q /\ DOMAIN q = 1 .. Len(q)
          /\ \A i \in DOMAIN q : /\ LogQ[i].decoded = q[i].decoded
                                 /\ LogQ[i].analyzed = q[i].analyzed
      BY <1>1, LogFacts
    <3>5. LogNext[e] = it[e] /\ LogNext[e] \in DOMAIN LogQ
      BY <2>4, <3>4 DEF LogNext
    <3>6. (LogQ[LogNext[e]].decoded /\ LogQ[LogNext[e]].analyzed) \/ e \in LogMoved
      <4>1. CASE cur[e] = 0
        BY <2>1, <4>1 DEF LogMoved
      <4>2. CASE cur[e] # 0
        BY <2>4, <3>4, <3>5, <4>2 DEF Complete
      <4> QED
        BY <4>1, <4>2
    <3>7. Log!Write(e)
      BY <2>3, <3>3, <3>5, <3>6 DEF Log!Write, Log!Complete, LogQ, LogNext, LogMoved
    <3> QED
      BY <3>7 DEF Log!Next
  <2> QED
    BY <2>5, <2>6
<1>3. CASE EventRetry(e)
  <2>1. /\ q' = Unlocked(e, {cur[e]}) /\ it' = it /\ cur' = [cur EXCEPT ![e] = 0]
        /\ pc' = [pc EXCEPT ![e] = "pause"]
    BY <1>3 DEF EventRetry, Go, Work
  <2>2. /\ q' \in Seq(Packets) /\ DOMAIN q' = DOMAIN q
        /\ \A i \in DOMAIN q : /\ q'[i].decoded = q[i].decoded
                               /\ q'[i].analyzed = q[i].analyzed
    BY <1>1, <2>1, UnlockedFacts
  <2>3. LogQ' = LogQ
    BY <2>2 DEF LogQ
  <2>4. LogNext' = LogNext
    BY <2>1 DEF LogNext
  <2>5. \A d \in Events : /\ pc'[d] = IF d = e THEN "pause" ELSE pc[d]
                          /\ d # e => cur'[d] = cur[d]
    BY <1>1, <2>1, ThreadNames DEF TypeOK
  <2>6. LogMoved' = LogMoved \ {e}
    BY <2>5 DEF LogMoved
  <2>7. Log!GiveUp(e)
    BY <2>3, <2>4, <2>6 DEF Log!GiveUp, LogQ, LogNext, LogMoved
  <2> QED
    BY <2>7 DEF Log!Next
<1>4. CASE FreeIt(e)
  <2>1. /\ it' = [it EXCEPT ![e] = 0] /\ UNCHANGED <<q, cur, pc>> /\ pc[e] = "off"
    BY <1>4 DEF FreeIt
  <2>2. LogQ' = LogQ
    BY <2>1 DEF LogQ
  <2>3. LogNext' = [LogNext EXCEPT ![e] = 0]
    BY <1>1, <2>1, ThreadNames DEF LogNext, TypeOK
  <2>4. LogMoved' = LogMoved \ {e}
    BY <2>1 DEF LogMoved
  <2>5. Log!End(e)
    BY <2>2, <2>3, <2>4 DEF Log!End, LogQ, LogNext, LogMoved
  <2> QED
    BY <2>5 DEF Log!Next
<1>5. CASE EventGet(e) /\ ~(deleting \/ ~Available(e))
  <2>1. /\ q' = Locked(e, it[e]) /\ it' = it /\ cur' = [cur EXCEPT ![e] = it[e]]
        /\ pc' = [pc EXCEPT ![e] = "check"] /\ pc[e] = "loop"
    BY <1>5 DEF EventGet, Go, Work
  <2>2. /\ q' \in Seq(Packets) /\ Len(q') = Len(q) /\ DOMAIN q' = DOMAIN q
        /\ \A i \in DOMAIN q : /\ q[i].decoded => q'[i].decoded
                               /\ q[i].analyzed => q'[i].analyzed
    BY <1>1, <2>1, InPlace
  <2>3. it[e] # 0
    BY <2>1 DEF HandoffInv, RolesInv
  <2>4. \A d \in Events : IF d = e THEN cur'[d] # 0
                          ELSE pc'[d] = pc[d] /\ cur'[d] = cur[d]
    BY <1>1, <2>1, <2>3, ThreadNames DEF TypeOK
  <2> QED
    BY <1>1, <2>1, <2>2, <2>4, LogProgress
<1>6. CASE EventUnlock(e)
  <2>1. /\ q' = Unlocked(e, {cur[e]}) /\ it' = it /\ cur' = [cur EXCEPT ![e] = 0]
        /\ pc' = [pc EXCEPT ![e] = "loop"] /\ pc[e] = "unlock"
    BY <1>6 DEF EventUnlock, Go, Work
  <2>2. /\ q' \in Seq(Packets) /\ Len(q') = Len(q) /\ DOMAIN q' = DOMAIN q
        /\ \A i \in DOMAIN q : /\ q[i].decoded => q'[i].decoded
                               /\ q[i].analyzed => q'[i].analyzed
    BY <1>1, <2>1, InPlace
  <2>3. \A d \in Events : IF d = e THEN pc'[d] = "loop"
                          ELSE pc'[d] = pc[d] /\ cur'[d] = cur[d]
    BY <1>1, <2>1, ThreadNames DEF TypeOK
  <2> QED
    BY <1>1, <2>1, <2>2, <2>3, LogProgress
<1>7. CASE EventEnds(e) \/ AddPacket(e) \/ Resume(e) \/ (EventGet(e) /\ (deleting \/ ~Available(e)))
  <2>1. UNCHANGED <<q, it, cur>>
    BY <1>7 DEF EventEnds, AddPacket, Resume, EventGet
  <2>2. \A d \in Events : pc'[d] \in {"check", "write"} <=> pc[d] \in {"check", "write"}
    BY <1>1, <1>7, ThreadNames DEF EventEnds, AddPacket, Resume, EventGet, Go, TypeOK
  <2> QED
    BY <1>1, <2>1, <2>2, LogProgress
<1> QED
  BY <1>2, <1>3, <1>4, <1>5, <1>6, <1>7 DEF EventThread

\* Every step is a step of the log, or leaves it alone.
LEMMA LogStep ==
  ASSUME HandoffInv, [Next]_vars
  PROVE  [Log!Next]_(Log!vars)
<1>1. CASE Next
  <2>1. CASE QueuePacket
    BY <2>1, LogCapture
  <2>2. CASE \/ QueueNotify \/ Pause \/ Stop \/ Join \/ PauseClosesEvent \/ Play
             \/ Decoder
    BY <2>2, LogDecoder
  <2>3. CASE Clear
    BY <2>3, LogReset
  <2>4. CASE Analysis
    BY <2>4, LogAnalysis
  <2>5. CASE \E e \in Events : EventThread(e)
    BY <2>5, LogEvent
  <2> QED
    BY <1>1, <2>1, <2>2, <2>3, <2>4, <2>5 DEF Next
<1>2. CASE UNCHANGED vars
  BY <1>2 DEF vars, Log!vars
<1> QED
  BY <1>1, <1>2

\* The threads of zmc implement the recording log: an event passes no packet
\* that is not decoded and analysed, packets are cut off in front of every event
\* alone, and their flags never go back.
THEOREM HandoffImplementsLog == Spec => ImplementsRecordingLog
<1>1. Init => Log!Init
  <2> SUFFICES ASSUME Init PROVE Log!Init
    OBVIOUS
  <2>1. q = <<>> /\ \A e \in Events : it[e] = 0 /\ pc[e] = "off"
    BY ThreadNames DEF Init
  <2>2. LogQ = <<>>
    BY <2>1 DEF LogQ
  <2>3. LogNext = [r \in Events |-> 0] /\ LogMoved = {}
    BY <2>1 DEF LogNext, LogMoved
  <2> QED
    BY <2>2, <2>3 DEF Log!Init, LogQ, LogNext, LogMoved
<1>2. HandoffInv /\ [Next]_vars => [Log!Next]_(Log!vars)
  BY LogStep
<1> QED
  BY <1>1, <1>2, HandoffInvariant, PTL DEF Spec, ImplementsRecordingLog, Log!Spec
=============================================================================
