--------------------------- MODULE MC_PacketQueue ---------------------------
(* Model-checking instances of PacketQueue: the settings a monitor loads. *)
EXTENDS PacketQueue, TLC

CONSTANTS e1, e2

\* Passthrough: the pre-event window fits in MaxImageBufferCount
MC_Passthrough == {[pre |-> 1, max |-> 3, keep |-> TRUE]}

\* A reload goes from encoding to passthrough, to a window larger than
\* MaxImageBufferCount, to no limit, and back
MC_Reload == {[pre |-> 2, max |-> 3, keep |-> FALSE],
              [pre |-> 3, max |-> 2, keep |-> TRUE],
              [pre |-> 2, max |-> 0, keep |-> TRUE]}

\* Passthrough without a limit: only clearPackets trims
MC_LongWindow == {[pre |-> 3, max |-> 0, keep |-> TRUE]}

MC_Symmetry == Permutations({e1, e2})
=============================================================================
