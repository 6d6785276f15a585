--------------------------- MODULE SingleDropQueue ---------------------------
(***************************************************************************)
(* What Global Synchronization Protection promises, apart from how it      *)
(* measures the queue and adapts its interval: a first-in first-out queue  *)
(* that may refuse packets when it is full, and that sheds an arriving     *)
(* packet before that at most once per Gap.                                *)
(***************************************************************************)
EXTENDS Integers, Sequences

CONSTANTS Packets,       \* what may arrive
          Gap            \* the shortest time between two shed packets

VARIABLES clock,         \* the current time
          waiting,       \* the packets in the queue, head first
          lastShed       \* when a packet was shed last, -1 before the first

sdVars == <<clock, waiting, lastShed>>

SDInit ==
    /\ clock = 0
    /\ waiting = <<>>
    /\ lastShed = -1

Accept ==
    LET last == waiting'[Len(waiting')]
    IN  /\ waiting' # <<>>
        /\ last \in Packets
        /\ waiting' = Append(waiting, last)
        /\ UNCHANGED <<clock, lastShed>>

Shed ==
    /\ lastShed >= 0 => clock > lastShed + Gap
    /\ lastShed' = clock
    /\ UNCHANGED <<clock, waiting>>

Depart ==
    /\ waiting # <<>>
    /\ waiting' = Tail(waiting)
    /\ UNCHANGED <<clock, lastShed>>

Pass ==
    /\ clock' = clock + 1
    /\ UNCHANGED <<waiting, lastShed>>

SDNext == Accept \/ Shed \/ Depart \/ Pass

SDSpec == SDInit /\ [][SDNext]_sdVars
==============================================================================
