--------------------------- MODULE RecoveryContract ---------------------------
(***************************************************************************)
(* What the activation gate promises to the rest of the stack, without its *)
(* retries, queries and tokens: after an epoch event navigation serves     *)
(* again only when every step of the recovery has been discharged, in      *)
(* order; and the stack never stays undecided, it serves or it fails.      *)
(***************************************************************************)
EXTENDS Sequences

CONSTANT Steps   \* the recovery steps, in the order they are owed

VARIABLES mode,  \* "starting", "recovering", "serving" or "failed"
          todo   \* the steps still owed

vars == <<mode, todo>>

Init == mode = "starting" /\ todo = <<>>

\* An epoch event: everything is owed (again).
Reset == mode # "failed" /\ mode' = "recovering" /\ todo' = Steps

Discharge ==
  /\ mode = "recovering" /\ todo # <<>>
  /\ todo' = Tail(todo) /\ UNCHANGED mode

Serve ==
  /\ mode \in {"starting", "recovering"} /\ todo = <<>>
  /\ mode' = "serving" /\ UNCHANGED todo

Fail == mode # "failed" /\ mode' = "failed" /\ UNCHANGED todo

Next == Reset \/ Discharge \/ Serve \/ Fail

Settle == mode \in {"starting", "recovering"} /\ (Serve \/ Fail)

Safety == Init /\ [][Next]_vars
Spec == Safety /\ WF_vars(Settle)
=============================================================================
