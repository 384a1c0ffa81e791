------------------------------ MODULE LoadRun -------------------------------
(***************************************************************************)
(* What a load run promises to its caller, without channels, goroutines or *)
(* locks: jobs are given consecutive numbers, at most Limit of them run at *)
(* once, each ends as a success or as a failure and is counted once, and   *)
(* the run returns when no job runs, with an error if none succeeded.      *)
(***************************************************************************)
EXTENDS Integers, FiniteSets

CONSTANTS
  Number,   \* jobs the run may start
  Limit     \* jobs that may run at once

VARIABLES
  started,        \* number of jobs given to the producer
  running,        \* the jobs that have not ended
  ok, failed,     \* outcomes counted so far
  status          \* "running", or how the run ended

vars == <<started, running, ok, failed, status>>

Init ==
  /\ started = 0 /\ running = {}
  /\ ok = 0 /\ failed = 0
  /\ status = "running"

Start ==
  /\ status = "running"
  /\ started < Number
  /\ Cardinality(running) < Limit
  /\ started' = started + 1
  /\ running' = running \cup {started}
  /\ UNCHANGED <<ok, failed, status>>

Succeed(j) ==
  /\ j \in running
  /\ running' = running \ {j}
  /\ ok' = ok + 1
  /\ UNCHANGED <<started, failed, status>>

Fail(j) ==
  /\ j \in running
  /\ running' = running \ {j}
  /\ failed' = failed + 1
  /\ UNCHANGED <<started, ok, status>>

\* The run is stopped, out of time or out of jobs; it has tried at least one.
Return ==
  /\ status = "running"
  /\ started > 0 /\ running = {}
  /\ status' = (IF ok = 0 THEN "failed" ELSE "returned")
  /\ UNCHANGED <<started, running, ok, failed>>

\* The user forces the exit.
Abort ==
  /\ status = "running"
  /\ status' = "aborted"
  /\ UNCHANGED <<started, running, ok, failed>>

End(j) == status = "running" /\ (Succeed(j) \/ Fail(j))

Next == Start \/ (\E j \in 0 .. (Number - 1) : End(j)) \/ Return \/ Abort

SafeSpec == Init /\ [][Next]_vars

\* Jobs end, and a run without running jobs starts one or returns.
Spec ==
  /\ SafeSpec
  /\ \A j \in 0 .. (Number - 1) : WF_vars(End(j))
  /\ WF_vars(Start \/ Return)
=============================================================================
