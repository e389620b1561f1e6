----------------------------- MODULE MCStorage -----------------------------
(* Three calls on a file of two chunks, or on one without a key.           *)
EXTENDS Storage

CONSTANT a

MCKeys == {a}
MCJobs == [op : {"put", "get", "delete"}, key : {a}]
          \cup {[op |-> "get", key |-> None]}
MCBoth == {"local", "s3"}
MCS3 == {"s3"}
=============================================================================
