----------------------------- MODULE FileStore -----------------------------
(* What the resource service takes for granted of a FileProvider: a call   *)
(* for a file has its effect at one moment, between being made and being   *)
(* answered, and at most once; only then may it be answered with success.  *)
CONSTANTS Calls, Jobs, NoJob

VARIABLES present,   \* the keys of the files there are
          job,       \* what a call asks for: [op, key]
          did        \* "idle", "asked", "taken", "ok", "failed"
vars == <<present, job, did>>

Under == {"asked", "taken"}
Moves(c, from, to) == did[c] = from /\ did' = [did EXCEPT ![c] = to]

Init == /\ job = [c \in Calls |-> NoJob]
        /\ did = [c \in Calls |-> "idle"]

Ask(c, j) == /\ Moves(c, "idle", "asked")
             /\ job' = [job EXCEPT ![c] = j] /\ UNCHANGED present

Put(c) == /\ Moves(c, "asked", "taken") /\ job[c].op = "put"
          /\ present' = present \cup {job[c].key} /\ UNCHANGED job

Find(c) == /\ Moves(c, "asked", "taken") /\ job[c].op = "get"
           /\ job[c].key \in present /\ UNCHANGED <<present, job>>

Delete(c) == /\ Moves(c, "asked", "taken") /\ job[c].op = "delete"
             /\ present' = present \ {job[c].key} /\ UNCHANGED job

Succeed(c) == Moves(c, "taken", "ok") /\ UNCHANGED <<present, job>>
Fail(c) == \E from \in Under : Moves(c, from, "failed") /\ UNCHANGED <<present, job>>

Die == /\ did' = [c \in Calls |-> IF did[c] \in Under THEN "failed" ELSE did[c]]
       /\ UNCHANGED <<present, job>>

Next == \/ \E c \in Calls : \/ \E j \in Jobs : Ask(c, j)
                            \/ Put(c) \/ Find(c) \/ Delete(c) \/ Succeed(c) \/ Fail(c)
        \/ Die
Spec == Init /\ [][Next]_vars
=============================================================================
