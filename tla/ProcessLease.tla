----------------------------- MODULE ProcessLease -----------------------------
(***************************************************************************)
(* What the session host promises about process custody, everything else   *)
(* left out (invariant I11 of docs/vimes/slice-0.md): a session is given   *)
(* only to a process never used before and only while nobody holds it, and *)
(* it is let go exactly when the process that holds it stops driving it.   *)
(* SessionHost implements this specification.                              *)
(***************************************************************************)
CONSTANTS Session, Proc, None

VARIABLES
  holder,   \* holder[s]: the process that holds session s, or None
  driving,  \* the processes that drive some session
  spent     \* the processes that have been started so far

vars == <<holder, driving, spent>>

Init ==
  /\ holder = [s \in Session |-> None]
  /\ driving = {}
  /\ spent = {}

\* A session nobody holds is given to a process that was never started.
Acquire(s, p) ==
  /\ holder[s] = None
  /\ p \notin spent
  /\ holder' = [holder EXCEPT ![s] = p]
  /\ driving' = driving \cup {p}
  /\ spent' = spent \cup {p}

\* Processes stop driving, and what they hold is free: a kill, an exit, the end
\* of the daemon.
Release(P) ==
  /\ holder' = [s \in Session |-> IF holder[s] \in P THEN None ELSE holder[s]]
  /\ driving' = driving \ P
  /\ UNCHANGED spent

Next ==
  \/ \E s \in Session, p \in Proc : Acquire(s, p)
  \/ \E P \in SUBSET Proc : Release(P)

Spec == Init /\ [][Next]_vars
================================================================================
