------------------------------ MODULE Classify ------------------------------
(***************************************************************************)
(* The classifier of Outcomes against the world it cannot see: how a       *)
(* process really ended, and what that leaves to observe.                  *)
(***************************************************************************)
EXTENDS Outcomes

(* How a process can end.  A run whose tests passed as its deadline struck *)
(* and that Wait reports as cut off counts as "deadline".                  *)
TestEnds  == {"passed", "failed", "panicked", "exited",   \* on its own
              "deadline", "monitor",                      \* killed by gomutants
              "outside", "host"}                          \* OOM-killed, no resources
BuildEnds == {"built", "diagnosed", "broke", "deadline", "monitor", "outside", "host"}

(* What else was so: an earlier test had failed (no -failfast within it),  *)
(* the tested code printed a host failure's words, the output outgrew the  *)
(* cap, the monitor raced the process's own end, and so did the deadline.  *)
Circumstances == [detected : BOOLEAN, quoted : BOOLEAN, long : BOOLEAN,
                  monitorRaced : BOOLEAN, deadlineRaced : BOOLEAN]

OnItsOwn == {"passed", "failed", "panicked", "exited", "built", "diagnosed", "broke"}

(* What the classifier gets to see of a test binary that ended so.  A long *)
(* output keeps its head: what came last, a failure's marker, is lost.     *)
TestObservation(how, c) ==
    [err       |-> how # "passed",
     mem       |-> how = "monitor" \/ (how \in OnItsOwn /\ c.monitorRaced),
     deadline  |-> how = "deadline" \/ (how \in OnItsOwn /\ c.deadlineRaced),
     marker    |-> ~c.long /\ (c.detected \/ how \in {"failed", "panicked"}),
     signature |-> c.quoted \/ (~c.long /\ how = "host"),
     generic   |-> c.quoted,
     killed    |-> IF how \in {"deadline", "monitor", "outside"} THEN "line"
                   ELSE IF c.quoted THEN "midline" ELSE "no",
     compile   |-> FALSE,
     truncated |-> c.long]

(* A build's output is all the toolchain's.  A starved host shows in the   *)
(* generic words alone, and a SIGKILL usually lands on a tool, which go    *)
(* names in the middle of a line.                                          *)
BuildObservation(how, c) ==
    [err       |-> how # "built",
     mem       |-> how = "monitor" \/ (how \in OnItsOwn /\ c.monitorRaced),
     deadline  |-> how = "deadline" \/ (how \in OnItsOwn /\ c.deadlineRaced),
     marker    |-> FALSE,
     signature |-> FALSE,
     generic   |-> how = "host",
     killed    |-> CASE how = "outside" -> "midline"
                     [] how \in {"deadline", "monitor"} -> "line"
                     [] OTHER -> "no",
     compile   |-> how = "diagnosed",
     truncated |-> c.long]

-----------------------------------------------------------------------------
(* A process runs, ends and is classified.                                 *)

VARIABLES kind, end, circumstance, verdict

vars == <<kind, end, circumstance, verdict>>

Undecided == Pending

Init ==
    /\ \/ kind = "test" /\ end \in TestEnds
       \/ kind = "build" /\ end \in BuildEnds
    /\ circumstance \in Circumstances
    /\ end = "passed" => ~circumstance.detected   \* a passing binary failed no test
    /\ kind = "build" => ~circumstance.detected /\ ~circumstance.quoted
    /\ verdict = Undecided

ClassifyTest ==
    /\ kind = "test" /\ verdict = Undecided
    /\ verdict' = TestOutcome(TestObservation(end, circumstance))
    /\ UNCHANGED <<kind, end, circumstance>>

ClassifyBuild ==
    /\ kind = "build" /\ verdict = Undecided
    /\ verdict' = BuildOutcome(BuildObservation(end, circumstance))
    /\ UNCHANGED <<kind, end, circumstance>>

Done == verdict # Undecided /\ UNCHANGED vars

Next == ClassifyTest \/ ClassifyBuild \/ Done

Spec == Init /\ [][Next]_vars

-----------------------------------------------------------------------------
(* Properties.                                                             *)

Decided == verdict # Undecided
Raced   == end \in OnItsOwn /\ (circumstance.monitorRaced \/ circumstance.deadlineRaced)

(* A mutant a test detected is a kill whatever else the output holds: a    *)
(* host failure's words the tested code printed, or so much output that    *)
(* the failure's own line was lost (worker.go:281, :199).                  *)
DetectionIsAKill ==
    Decided /\ kind = "test" /\ ~Raced /\ end \in {"failed", "panicked"}
        => verdict = Killed

(* A SIGKILL gomutants sent, for memory or for time, is never taken for a  *)
(* kill by the tests, nor for the host's failure (worker.go:232).          *)
OwnKillIsTimedOut ==
    Decided /\ kind = "test" /\ end \in {"deadline", "monitor"} => verdict = TimedOut

(* What the host did to a test run or a build is never cached as a verdict *)
(* on the mutant, where the whole output was seen and no test had already  *)
(* failed (worker.go:250, :1043).                                          *)
HostFailureIsNotCached ==
    Decided /\ end \in {"outside", "host"} /\ ~circumstance.long /\ ~circumstance.detected
        => verdict = InfraError

(* worker.go:197: of a process whose end the classifier sees only through  *)
(* an error, a clock and some output, the verdict fits the cause.          *)
VerdictFitsCause == DetectionIsAKill /\ OwnKillIsTimedOut /\ HostFailureIsNotCached
=============================================================================
