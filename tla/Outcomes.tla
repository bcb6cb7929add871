------------------------------ MODULE Outcomes ------------------------------
(***************************************************************************)
(* internal/runner/worker.go: how the end of a subprocess becomes a        *)
(* mutant's status.  The output is abstracted to what the classifier looks *)
(* for in it.                                                              *)
(***************************************************************************)
EXTENDS Statuses

(* What runMonitored, the context and the captured output say of a process *)
(* that was started and has ended.                                         *)
Observations == [
    err       : BOOLEAN,   \* cmd.Wait returned an error
    mem       : BOOLEAN,   \* the RSS monitor decided to kill
    deadline  : BOOLEAN,   \* the context's own deadline has passed
    marker    : BOOLEAN,   \* a "--- FAIL: ", or a line starting "panic: "
    signature : BOOLEAN,   \* one of testPhaseInfraSignatures
    generic   : BOOLEAN,   \* one of buildPhaseInfraSignatures
    killed    : {"no", "line", "midline"},  \* "signal: killed" and where: in the
                           \* error or at a line's start, or further in
    compile   : BOOLEAN,   \* a file.go:N:N: diagnostic on stderr
    truncated : BOOLEAN]   \* bytes were dropped at maxCapturedOutput

(* killVetoed: a detection settles the mutant as a kill, and one that may  *)
(* have been cut off cannot be ruled out.  (Faulty: what was cut off does  *)
(* not count.)                                                             *)
FaultyKillVetoed(o) == o.marker
KillVetoed(o) == o.truncated \/ o.marker

InfraFromOutput(o) == ~KillVetoed(o) /\ o.signature

UnexplainedKill(o) == o.killed = "line"

(* classifyTestOutcome.  (Faulty: the tests' own failure is looked for     *)
(* before the kills gomutants sent.)                                       *)
FaultyTestOutcome(o) ==
    CASE o.err /\ o.marker                      -> Killed
      [] ~(o.err /\ o.marker) /\ (o.mem \/ (o.err /\ o.deadline)) -> TimedOut
      [] ~o.mem /\ ~o.err                       -> Lived
      [] OTHER                                  -> InfraError

TestOutcome(o) ==
    CASE o.mem                         -> TimedOut
      [] ~o.mem /\ ~o.err              -> Lived
      [] ~o.mem /\ o.err /\ o.deadline -> TimedOut
      [] OTHER -> IF InfraFromOutput(o) \/ (UnexplainedKill(o) /\ ~KillVetoed(o))
                    THEN InfraError ELSE Killed

(* buildBin's reading of a build that ended: Lived when it succeeded, else *)
(* the status that ends the mutant's run, by the build's own ten minutes   *)
(* and classifyBuildFailure.  (Faulty: a failed build's output is read as  *)
(* a test's.)                                                              *)
FaultyBuildOutcome(o) == IF o.compile /\ o.err THEN NotViable ELSE TestOutcome(o)

BuildOutcome(o) ==
    CASE ~o.err                        -> Lived
      [] o.err /\ o.deadline           -> InfraError
      [] o.err /\ ~o.deadline /\ o.mem -> TimedOut
      [] o.err /\ ~o.deadline /\ ~o.mem /\ o.compile -> NotViable
      [] OTHER -> IF o.generic \/ o.signature \/ o.killed # "no"
                    THEN InfraError ELSE Killed

(* setupErrorStatus, and startFailure after it: what a failed file write   *)
(* or a failed start makes of the mutant.                                  *)
SetupErrorStatus(recognised) == IF recognised THEN InfraError ELSE NotViable
=============================================================================
