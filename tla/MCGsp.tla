------------------------------- MODULE MCGsp -------------------------------
(* GspQueueDisc with bounds on the clock and on the number of arrivals.    *)
EXTENDS GspQueueDisc

CONSTANTS Horizon,       \* the last tick of a run
          MaxArrivals    \* packets that arrive in a run

MCNext ==
    /\ Next
    /\ now' <= Horizon
    /\ stats'.nTotalReceivedPackets <= MaxArrivals

MCSpec == GspInit /\ [][MCNext]_vars
==============================================================================
