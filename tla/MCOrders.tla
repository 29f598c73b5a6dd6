------------------------------ MODULE MCOrders -------------------------------
(* One order row under two kinds of load: several rounds of dispute with a   *)
(* reader, and all the jobs and operations against each other.  `part' says  *)
(* which.                                                                    *)
EXTENDS OrderSync

VARIABLE part

Writers == INSTANCE OrderSync WITH Calls <- {"c", "d"},
            Ops <- {"refresh", "cancel", "expire", "autorefund", "reconcile", "attest"},
            Raisers <- {"resolver"}, Matches <- {TRUE, FALSE}, MaxTx <- 2, MaxFaults <- 0

MCInit ==
    \/ part = "rounds" /\ Init
    \/ part = "writers" /\ Writers!Init

MCNext ==
    /\ \/ part = "rounds" /\ Next
       \/ part = "writers" /\ Writers!Next
    /\ UNCHANGED part

MCSpec == MCInit /\ [][MCNext]_<<part, vars>>

=============================================================================
