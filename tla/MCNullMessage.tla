----------------------------- MODULE MCNullMessage -----------------------------
(* Ranks a, b and c in a row. "a-b" is the device of a with a link to b; "a=b" is *)
(* a second one, with a slower transmission and the same delay.                   *)
EXTENDS NullMessageSimulator

MCRankOf ==
  [d \in Devices |-> CASE d \in {"a-b", "a=b"} -> "a"
                       [] d \in {"b-a", "b=a", "b-c"} -> "b"
                       [] OTHER -> "c"]
MCRemoteOf ==
  [d \in Devices |-> CASE d \in {"b-a", "b=a"} -> "a"
                       [] d \in {"a-b", "a=b", "c-b"} -> "b"
                       [] OTHER -> "c"]

MCDelayOf == [d \in Devices |-> IF d \in {"b-c", "c-b"} THEN 1 ELSE 2]
MCTxTimeOf == [d \in Devices |-> IF d \in {"a=b", "b=a"} THEN 3 ELSE 1]

MCStarts == [r \in Ranks |-> IF r = "b" THEN {} ELSE {1}]
MCStopTime == [r \in Ranks |-> 4]
================================================================================
