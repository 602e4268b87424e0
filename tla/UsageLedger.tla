---------------------------- MODULE UsageLedger ----------------------------
(***************************************************************************)
(* What the usage pipeline promises about the records handed to it: each   *)
(* becomes a row of the usage table at most once, rows are written in      *)
(* whole batches, and a record that was given up never turns up later.     *)
(* UsagePipeline implements this specification.                            *)
(***************************************************************************)
EXTENDS Naturals

CONSTANT Records

VARIABLES
  status,  \* record -> "new", "pending", "stored" or "lost"
  rows     \* record -> rows of the usage table it has become

vars == <<status, rows>>

Init ==
  /\ status = [r \in Records |-> "new"]
  /\ rows = [r \in Records |-> 0]

Moves(S, from, to) ==
  /\ \A r \in S : status[r] = from
  /\ status' = [r \in Records |-> IF r \in S THEN to ELSE status[r]]

Accept == /\ \E r \in Records : Moves({r}, "new", "pending") \/ Moves({r}, "new", "lost")
          /\ UNCHANGED rows

Commit == \E S \in SUBSET Records :
            /\ Moves(S, "pending", "stored")
            /\ rows' = [r \in Records |-> IF r \in S THEN rows[r] + 1 ELSE rows[r]]

GiveUp == /\ \E S \in SUBSET Records : Moves(S, "pending", "lost")
          /\ UNCHANGED rows

Next == Accept \/ Commit \/ GiveUp

Spec == Init /\ [][Next]_vars
=============================================================================
