----------------------------- MODULE MCDistributed -----------------------------
(* Three ranks in a row, with a fast link, a slow link and events to begin with. *)
EXTENDS DistributedSimulator

Row == <<"left", "middle", "right">>
MCRanks == Range(Row)

\* The delay of the links of the row.
MCDelay ==
  [r \in MCRanks |-> [s \in MCRanks |->
     CASE {r, s} = {"left", "middle"} -> 1
       [] {r, s} = {"middle", "right"} -> 3
       [] OTHER -> Infinity]]

MCMaxLookAhead == [r \in MCRanks |-> IF r = "right" THEN 2 ELSE Infinity]

MCStarts ==
  [r \in MCRanks |-> CASE r = "left" -> {0} [] r = "middle" -> 0..2 [] OTHER -> {}]
================================================================================
