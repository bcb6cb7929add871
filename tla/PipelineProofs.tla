--------------------------- MODULE PipelineProofs ---------------------------
(***************************************************************************)
(* Proofs about Pipeline: what the exit status of a run means, for any     *)
(* mutants, flags and thresholds, whatever fails and wherever an interrupt *)
(* comes.                                                                  *)
(***************************************************************************)
EXTENDS Pipeline, FiniteSetTheorems, TLAPS

-----------------------------------------------------------------------------
(* The inductive invariant, part by part.                                  *)

Measuring == {"target", "scope", "coverage", "baseline"}
Finding   == {"discover", "preread", "map"}
Late      == {"preread", "map", "links", "cache", "run", "tce", "reports", "gates"}
Aimed     == {"scope", "coverage", "baseline", "discover"} \cup Late

(* How far a run gets after an interrupt: to the next process it starts.   *)
Interrupted ==
    /\ ctxDone <=> cutAt # "none"
    /\ cutAt \in {"flags", "setup"} => pc \in {"flags", "setup", "exit"}
    /\ cutAt = "resolve" => pc \in {"resolve", "exit"}
    /\ cutAt \in Measuring => pc \in Measuring \cup {"exit"}
    /\ cutAt \in Finding /\ ~opts.dry => pc \in Finding \cup {"exit"}

(* A run that goes on has no exit status yet, and a dry run stops early.   *)
GoingOn ==
    /\ ~Exited => code = Success
    /\ pc \notin {"flags", "exit"} => ~(opts.single /\ opts.dry)
    /\ opts.dry => pc \notin Late

(* The mutants of a run for one id are the one it named at first, and      *)
(* nothing is replayed for it.                                             *)
Subject ==
    /\ opts.single /\ pc \in Aimed => \E m \in Mutants : target = {m}
    /\ opts.single /\ pc \in Late => Kept = target
    /\ opts.single \/ pc \notin {"run", "tce", "reports", "gates", "exit"} => replayed = {}

(* Without an interrupt every mutant is decided when the pool is done, and *)
(* the gates go by the report.                                             *)
Tally ==
    /\ ~ctxDone /\ pc \in {"tce", "reports", "gates"} => With(Pending) = {}
    /\ pc = "gates" => report = Generate

IInv ==
    /\ TypeOK /\ Interrupted /\ GoingOn /\ Subject /\ Tally
    /\ EarlyInterruptFails /\ ExitAnswersForTarget /\ GatesJudgeEveryMutant

-----------------------------------------------------------------------------
(* Facts about the operators of the model.                                 *)

(* The phases, as a set.                                                   *)
Names == {"flags", "setup", "resolve", "exit"} \cup {"discover"} \cup Measuring \cup Late

LEMMA PhaseNames == \A x : (\E i \in DOMAIN Phases : x = Phases[i]) <=> x \in Names
  <1>1. DOMAIN Phases = 1..17
    BY DEF Phases
  <1>2. ASSUME NEW i \in 1..17 PROVE Phases[i] \in Names
    BY DEF Phases, Names, Measuring, Late
  <1>3. ASSUME NEW x \in Names PROVE \E i \in 1..17 : x = Phases[i]
    BY DEF Phases, Names, Measuring, Late
  <1> QED BY <1>1, <1>2, <1>3

(* What is read off the statuses.                                          *)
LEMMA StatusesStay ==
    ASSUME status' = status
    PROVE  /\ Kept' = Kept /\ Generate' = Generate
           /\ \A s : With(s)' = With(s)
  BY DEF Kept, Generate, With, Buckets, Statuses

(* The counts of a report are numbers.                                     *)
LEMMA CountsAreNumbers ==
    /\ IsFiniteSet(Kept) /\ Cardinality(Kept) \in Nat
    /\ \A s : IsFiniteSet(With(s)) /\ Cardinality(With(s)) \in Nat
    /\ Generate.total \in Nat /\ Generate.counted \in Nat
  <1>1. IsFiniteSet(Kept)
    BY PipelineAssumption, FS_Subset DEF Kept
  <1>2. \A s : IsFiniteSet(With(s))
    BY <1>1, FS_Subset DEF With
  <1>3. IsFiniteSet({m \in Kept : status[m] \in Buckets})
    BY <1>1, FS_Subset
  <1> QED BY <1>1, <1>2, <1>3, FS_CardinalityType DEF Generate

-----------------------------------------------------------------------------
(* The steps.                                                              *)

LEMMA InitInv == Init => IInv
  <1> SUFFICES ASSUME Init PROVE IInv
    OBVIOUS
  <1>1. TypeOK
    <2>1. pc \in Names /\ cutAt = "none"
      BY DEF Init, Names
    <2>2. target \subseteq Mutants /\ Cardinality(target) <= 1
      BY FS_EmptySet DEF Init
    <2>3. status \in [Mutants -> Statuses \cup {Dropped}]
      BY DEF Init
    <2>4. report.total \in Nat /\ report.counted \in Nat
      BY DEF Init, NoReport
    <2> QED BY <2>1, <2>2, <2>3, <2>4, PhaseNames DEF Init, TypeOK
  <1>2. Interrupted /\ GoingOn /\ Subject /\ Tally
    BY DEF Init, Interrupted, GoingOn, Subject, Tally, Measuring, Finding, Late, Aimed, Exited
  <1>3. EarlyInterruptFails /\ ExitAnswersForTarget /\ GatesJudgeEveryMutant
    BY DEF Init, EarlyInterruptFails, ExitAnswersForTarget, GatesJudgeEveryMutant, Exited
  <1> QED BY <1>1, <1>2, <1>3 DEF IInv

(* An exit that is neither success nor a gate's says nothing else.         *)
LEMMA FailedExit ==
    ASSUME pc' = "exit", code' \in {Runtime, Usage}
    PROVE  EarlyInterruptFails' /\ ExitAnswersForTarget' /\ GatesJudgeEveryMutant'
  BY DEF EarlyInterruptFails, Guarded, ExitAnswersForTarget, GatesJudgeEveryMutant, Exited,
         Runtime, Usage, Success, BelowEfficacy, BelowMcover

(* Nor does a run that goes on, while its interrupts are where they may be.*)
LEMMA NoExit ==
    ASSUME pc' # "exit", Interrupted'
    PROVE  EarlyInterruptFails' /\ ExitAnswersForTarget' /\ GatesJudgeEveryMutant'
  BY DEF EarlyInterruptFails, Guarded, ExitAnswersForTarget, GatesJudgeEveryMutant, Exited,
         Interrupted, Measuring, Finding

Moves == UNCHANGED <<opts, ctxDone, cutAt>>

(* A phase that returns with an error.                                     *)
LEMMA ReturnStep ==
    ASSUME IInv, Moves, NEW from, NEW c \in {Runtime, Usage}, Return(from, c)
    PROVE  IInv'
  <1>1. pc' = "exit" /\ code' = c /\ UNCHANGED <<target, status, replayed, report>>
    BY DEF Return
  <1>2. TypeOK'
    BY <1>1, StatusesStay, PhaseNames DEF IInv, TypeOK, Moves, Names
  <1>3. Interrupted' /\ GoingOn' /\ Subject' /\ Tally'
    BY <1>1 DEF IInv, Interrupted, GoingOn, Subject, Tally, Moves, Exited, Aimed, Late,
                Measuring, Finding
  <1> QED BY <1>1, <1>2, <1>3, FailedExit DEF IInv

(* A phase that goes on to the next and changes nothing a gate could see.  *)
LEMMA ContinueStep ==
    ASSUME IInv, Moves, NEW from \in Names \ {"exit"}, NEW to \in Names \ {"exit"},
           Continue(from, to),
           Interrupted', GoingOn',
           to \in Aimed /\ opts.single => from \in Aimed,
           to \in Late => from \in Late,
           from \in {"run", "tce", "reports", "gates"} => to \in {"run", "tce", "reports", "gates"},
           to \in {"tce", "reports", "gates"} => from \in {"tce", "reports", "gates"},
           to # "gates"
    PROVE  IInv'
  <1>1. pc = from /\ pc' = to /\ UNCHANGED <<code, target, status, replayed, report>>
    BY DEF Continue, Phase, Quietly
  <1>2. TypeOK'
    BY <1>1, StatusesStay, PhaseNames DEF IInv, TypeOK, Moves
  <1>3. Subject'
    BY <1>1, StatusesStay DEF IInv, Subject, Moves
  <1>4. Tally'
    BY <1>1, StatusesStay DEF IInv, Tally, Moves
  <1> QED BY <1>1, <1>2, <1>3, <1>4, NoExit DEF IInv

(* The phases up to discovery, less the one that resolves the id.          *)
LEMMA QuietSteps ==
    ASSUME IInv, Moves,
           Flags \/ Setup \/ Resolve \/ Scope \/ Coverage \/ Baseline
    PROVE  IInv'
  <1> USE DEF Names, Measuring, Finding, Late, Aimed
  <1>1. CASE Flags
    <2>1. CASE Return("flags", Usage)
      BY <2>1, ReturnStep
    <2>2. CASE ~(opts.single /\ opts.dry) /\ Continue("flags", "setup")
      <3>1. Interrupted' /\ GoingOn'
        BY <2>2 DEF IInv, Interrupted, GoingOn, Moves, Continue, Phase, Exited
      <3> QED BY <2>2, <3>1, ContinueStep
    <2> QED BY <1>1, <2>1, <2>2 DEF Flags
  <1>2. CASE Setup \/ Resolve
    <2>1. CASE Return("setup", Runtime) \/ Return("resolve", Runtime)
      BY <2>1, ReturnStep
    <2>2. CASE ~ctxDone /\ Continue("setup", "resolve")
      <3>1. Interrupted' /\ GoingOn'
        BY <2>2 DEF IInv, Interrupted, GoingOn, Moves, Continue, Phase, Exited
      <3> QED BY <2>2, <3>1, ContinueStep
    <2>3. CASE ~ctxDone /\ Continue("resolve", "target")
      <3>1. Interrupted' /\ GoingOn'
        BY <2>3 DEF IInv, Interrupted, GoingOn, Moves, Continue, Phase, Exited
      <3> QED BY <2>3, <3>1, ContinueStep
    <2> QED BY <1>2, <2>1, <2>2, <2>3 DEF Setup, Resolve
  <1>3. CASE Scope \/ Coverage
    <2>1. CASE Return("scope", Runtime) \/ Return("coverage", Runtime)
      BY <2>1, ReturnStep
    <2>2. CASE Continue("scope", "coverage")
      <3>1. Interrupted' /\ GoingOn'
        BY <2>2 DEF IInv, Interrupted, GoingOn, Moves, Continue, Phase, Exited
      <3> QED BY <2>2, <3>1, ContinueStep
    <2>3. CASE Continue("coverage", "baseline")
      <3>1. Interrupted' /\ GoingOn'
        BY <2>3 DEF IInv, Interrupted, GoingOn, Moves, Continue, Phase, Exited
      <3> QED BY <2>3, <3>1, ContinueStep
    <2> QED BY <1>3, <2>1, <2>2, <2>3 DEF Scope, Coverage
  <1>4. CASE Baseline
    <2>1. CASE Return("baseline", Runtime)
      BY <2>1, ReturnStep
    <2>2. CASE ~ctxDone /\ Continue("baseline", "discover")
      <3>1. Interrupted' /\ GoingOn'
        BY <2>2 DEF IInv, Interrupted, GoingOn, Moves, Continue, Phase, Exited
      <3> QED BY <2>2, <3>1, ContinueStep
    <2> QED BY <1>4, <2>1, <2>2 DEF Baseline
  <1> QED BY <1>1, <1>2, <1>3, <1>4

(* The phases from discovery to the cache, and the one after the proofs.   *)
LEMMA LaterQuietSteps ==
    ASSUME IInv, Moves, PreRead \/ BuildMap \/ ReadLinks \/ EndProofs
    PROVE  IInv'
  <1> USE DEF Names, Measuring, Finding, Late, Aimed
  <1>1. CASE PreRead
    <2>1. CASE Return("preread", Runtime)
      BY <2>1, ReturnStep
    <2>2. CASE Continue("preread", "map")
      <3>1. Interrupted' /\ GoingOn'
        BY <2>2 DEF IInv, Interrupted, GoingOn, Moves, Continue, Phase, Exited
      <3> QED BY <2>2, <3>1, ContinueStep
    <2> QED BY <1>1, <2>1, <2>2 DEF PreRead
  <1>2. CASE BuildMap
    <2>1. CASE Return("map", Runtime)
      BY <2>1, ReturnStep
    <2>2. ASSUME NEW to \in {"links", "cache"}, ~ctxDone, Continue("map", to)
          PROVE  IInv'
      <3>1. Interrupted' /\ GoingOn'
        BY <2>2 DEF IInv, Interrupted, GoingOn, Moves, Continue, Phase, Exited
      <3> QED BY <2>2, <3>1, ContinueStep
    <2> QED BY <1>2, <2>1, <2>2 DEF BuildMap
  <1>3. CASE ReadLinks
    <2>1. Interrupted' /\ GoingOn'
      BY <1>3 DEF IInv, Interrupted, GoingOn, Moves, ReadLinks, Continue, Phase, Exited
    <2> QED BY <1>3, <2>1, ContinueStep DEF ReadLinks
  <1>4. CASE EndProofs
    <2>1. Interrupted' /\ GoingOn'
      BY <1>4 DEF IInv, Interrupted, GoingOn, Moves, EndProofs, Continue, Phase, Exited
    <2> QED BY <1>4, <2>1, ContinueStep DEF EndProofs
  <1> QED BY <1>1, <1>2, <1>3, <1>4

(* The id is resolved.                                                     *)
LEMMA TargetStep == ASSUME IInv, Moves, Target PROVE IInv'
  <1> USE DEF Names, Measuring, Finding, Late, Aimed
  <1>1. CASE Return("target", Usage) \/ Return("target", Runtime)
    BY <1>1, ReturnStep
  <1>2. CASE ~opts.single /\ Continue("target", "scope")
    <2>1. Interrupted' /\ GoingOn'
      BY <1>2 DEF IInv, Interrupted, GoingOn, Moves, Continue, Phase, Exited
    <2> QED BY <1>2, <2>1, ContinueStep
  <1>3. ASSUME opts.single, Phase("target", "scope"), target' \in Named,
               UNCHANGED <<status, replayed, report>>
        PROVE  IInv'
    <2>1. PICK m \in Mutants : target' = {m}
      BY <1>3 DEF Named
    <2>2. target' \subseteq Mutants /\ Cardinality(target') <= 1
      BY <2>1, FS_Singleton
    <2>3. TypeOK'
      BY <1>3, <2>2, StatusesStay, PhaseNames DEF IInv, TypeOK, Moves, Phase
    <2>4. Interrupted' /\ GoingOn'
      BY <1>3 DEF IInv, Interrupted, GoingOn, Moves, Phase, Exited
    <2>5. Subject' /\ Tally'
      BY <1>3, <2>1 DEF IInv, Subject, Tally, Moves, Phase
    <2>6. pc' # "exit"
      BY <1>3 DEF Phase
    <2> QED BY <2>3, <2>4, <2>5, <2>6, NoExit DEF IInv
  <1> QED BY <1>1, <1>2, <1>3 DEF Target

(* The mutants are found: in a run for one id, that of the target alone.   *)
LEMMA DiscoverStep == ASSUME IInv, Moves, Discover PROVE IInv'
  <1> USE DEF Names, Measuring, Finding, Late, Aimed
  <1>1. CASE Return("discover", Runtime)
    BY <1>1, ReturnStep
  <1>2. ASSUME NEW found \in SUBSET Mutants, NEW covered \in SUBSET found,
               opts.single => SameTarget(found),
               Phase("discover", IF opts.dry THEN "exit" ELSE "preread"),
               status' = [m \in Mutants |-> CASE m \in covered -> Pending
                                              [] m \in found \ covered -> NotCovered
                                              [] OTHER -> Dropped],
               UNCHANGED <<target, replayed, report>>
        PROVE  IInv'
    <2>1. /\ pc = "discover" /\ pc' = IF opts.dry THEN "exit" ELSE "preread"
          /\ code' = code /\ replayed = {} /\ ~(opts.single /\ opts.dry) /\ code = Success
          /\ opts.dry \in BOOLEAN
      BY <1>2 DEF Phase, IInv, Subject, GoingOn, Exited, TypeOK, Options
    <2>2. \A m \in Mutants : /\ (m \in covered => status'[m] = Pending)
                             /\ (m \in found \ covered => status'[m] = NotCovered)
                             /\ (m \notin found => status'[m] = Dropped)
      BY <1>2
    <2>3. status' \in [Mutants -> Statuses \cup {Dropped}]
      BY <1>2 DEF Statuses
    <2>4. Kept' = found
      BY <2>2 DEF Kept, Pending, NotCovered, Dropped
    <2>5. TypeOK'
      BY <1>2, <2>1, <2>3, PhaseNames DEF IInv, TypeOK, Moves
    <2>6. Interrupted' /\ GoingOn'
      BY <2>1 DEF IInv, Interrupted, GoingOn, Moves, Exited
    <2>7. Subject' /\ Tally'
      BY <1>2, <2>1, <2>4 DEF IInv, Subject, Tally, Moves, SameTarget
    <2>8. CASE ~opts.dry
      BY <2>1, <2>5, <2>6, <2>7, <2>8, NoExit DEF IInv
    <2>9. CASE opts.dry
      <3>1. EarlyInterruptFails' /\ ExitAnswersForTarget' /\ GatesJudgeEveryMutant'
        BY <2>1, <2>9 DEF IInv, Interrupted, Moves, EarlyInterruptFails, Guarded,
                          ExitAnswersForTarget, GatesJudgeEveryMutant, Exited
      <3> QED BY <2>5, <2>6, <2>7, <3>1 DEF IInv
    <2> QED BY <2>1, <2>8, <2>9
  <1> QED BY <1>1, <1>2 DEF Discover

(* Statuses change, and the mutants that are kept stay the same.           *)
LEMMA KeptStays ==
    ASSUME \A m \in Mutants : status'[m] = Dropped <=> status[m] = Dropped
    PROVE  Kept' = Kept
  BY DEF Kept

LEMMA ApplyCacheStep == ASSUME IInv, Moves, ApplyCache PROVE IInv'
  <1> USE DEF Names, Measuring, Finding, Late, Aimed
  <1>1. PICK hits \in SUBSET (IF LooksUp THEN With(Pending) ELSE {}) :
          \E cached \in [hits -> {s \in Statuses : CanReuse(s)}] :
            /\ status' = [m \in Mutants |-> IF m \in hits THEN Replays(cached[m]) ELSE status[m]]
            /\ replayed' = hits
    BY DEF ApplyCache
  <1>2. PICK cached \in [hits -> {s \in Statuses : CanReuse(s)}] :
            /\ status' = [m \in Mutants |-> IF m \in hits THEN Replays(cached[m]) ELSE status[m]]
            /\ replayed' = hits
    BY <1>1
  <1>3. /\ pc = "cache" /\ pc' = "run" /\ code' = code /\ UNCHANGED <<target, report>>
        /\ hits \subseteq Kept /\ \A m \in hits : status[m] = Pending
    BY DEF ApplyCache, Phase, With
  <1>4. \A m \in hits : Replays(cached[m]) \in Statuses
    BY DEF Replays, Statuses
  <1>5. status' \in [Mutants -> Statuses \cup {Dropped}]
    BY <1>2, <1>4 DEF IInv, TypeOK
  <1>6. Kept' = Kept
    <2>1. Dropped \notin Statuses /\ Pending # Dropped
      BY DEF Dropped, Statuses, Pending, Killed, Lived, NotCovered, NotViable, TimedOut,
             Equivalent, InfraError
    <2> QED BY <1>2, <1>3, <1>4, <2>1, KeptStays
  <1>7. opts.single => hits = {}
    BY DEF LooksUp
  <1>8. TypeOK'
    BY <1>2, <1>3, <1>5, <1>6, PhaseNames DEF IInv, TypeOK, Moves
  <1>9. Interrupted' /\ GoingOn'
    BY <1>3 DEF IInv, Interrupted, GoingOn, Moves, Exited
  <1>10. Subject' /\ Tally'
    BY <1>2, <1>3, <1>6, <1>7 DEF IInv, Subject, Tally, Moves
  <1> QED BY <1>3, <1>8, <1>9, <1>10, NoExit DEF IInv

(* The pool: it leaves no mutant pending unless it was interrupted, and    *)
(* takes none away.                                                        *)
LEMMA TestStep == ASSUME IInv, Moves, Test PROVE IInv'
  <1> USE DEF Names, Measuring, Finding, Late, Aimed
  <1>1. /\ pc = "run" /\ pc' \in {"run", "tce"}
        /\ UNCHANGED <<target, replayed, report, code>>
    BY DEF Test, TestRun!Decide, TestRun!Finish, TestRun!Abandon
  <1>2. /\ TestVerdicts \subseteq Statuses /\ InfraError \in Statuses /\ Pending \in Statuses
        /\ Dropped \notin Statuses /\ InfraError # Pending
    BY DEF Statuses, TestVerdicts, Dropped, Pending, Killed, Lived, NotCovered, NotViable,
           TimedOut, Equivalent, InfraError
  <1>3. /\ status' \in [Mutants -> Statuses \cup {Dropped}] /\ Kept' = Kept
        /\ pc' = "tce" => ctxDone \/ \A m \in Mutants : status'[m] # Pending
    <2>1. status \in [Mutants -> Statuses \cup {Dropped}]
      BY DEF IInv, TypeOK
    <2>2. ASSUME NEW n \in Mutants, TestRun!Decide(n), pc' = pc
          PROVE  status' \in [Mutants -> Statuses \cup {Dropped}] /\ Kept' = Kept
      <3>1. PICK v \in Verdicts : status' = [status EXCEPT ![n] = v]
        BY <2>2 DEF TestRun!Decide
      <3>2. v \in Statuses /\ status[n] = Pending
        BY <1>2, <2>2, PipelineAssumption DEF TestRun!Decide, TestRun!Pending, Pending
      <3>3. status' \in [Mutants -> Statuses \cup {Dropped}]
        BY <2>1, <3>1, <3>2
      <3>4. Kept' = Kept
        BY <1>2, <2>1, <3>1, <3>2, KeptStays
      <3> QED BY <3>3, <3>4
    <2>3. CASE TestRun!Finish
      BY <2>1, <2>3, StatusesStay DEF TestRun!Finish, TestRun!Pending, Pending
    <2>4. CASE TestRun!Abandon
      <3>1. status' = [m \in Mutants |-> IF status[m] = Pending THEN InfraError ELSE status[m]]
        BY <2>4 DEF TestRun!Abandon, TestRun!Pending, TestRun!InfraError, Pending, InfraError
      <3>2. Kept' = Kept
        BY <1>2, <3>1, KeptStays
      <3> QED BY <1>2, <2>1, <3>1, <3>2
    <2> QED BY <1>1, <2>2, <2>3, <2>4 DEF Test
  <1>4. TypeOK'
    BY <1>1, <1>3, PhaseNames DEF IInv, TypeOK, Moves
  <1>5. Interrupted' /\ GoingOn'
    BY <1>1 DEF IInv, Interrupted, GoingOn, Moves, Exited
  <1>6. Subject'
    BY <1>1, <1>3 DEF IInv, Subject, Moves
  <1>7. Tally'
    BY <1>1, <1>3 DEF IInv, Tally, Moves, With, Kept
  <1> QED BY <1>1, <1>4, <1>5, <1>6, <1>7, NoExit DEF IInv

LEMMA ProveStep == ASSUME IInv, Moves, Prove PROVE IInv'
  <1>1. /\ pc = "tce" /\ UNCHANGED <<pc, target, replayed, report, code>>
    BY DEF Prove
  <1>2. PICK m \in With(Lived) : status' = [status EXCEPT ![m] = Equivalent]
    BY DEF Prove
  <1>3. /\ m \in Mutants /\ status[m] = Lived /\ Equivalent \in Statuses
        /\ Equivalent # Dropped /\ Lived # Dropped /\ Equivalent # Pending
    BY DEF With, Kept, Statuses, Dropped, Pending, Lived, Equivalent
  <1>4. status' \in [Mutants -> Statuses \cup {Dropped}] /\ status \in [Mutants -> Statuses \cup {Dropped}]
    BY <1>2, <1>3 DEF IInv, TypeOK
  <1>5. Kept' = Kept
    BY <1>2, <1>3, <1>4, KeptStays
  <1>6. With(Pending)' \subseteq With(Pending)
    BY <1>2, <1>3, <1>4, <1>5 DEF With
  <1>7. TypeOK'
    BY <1>1, <1>4, <1>5 DEF IInv, TypeOK, Moves
  <1>8. Interrupted' /\ GoingOn' /\ Subject' /\ Tally'
    BY <1>1, <1>5, <1>6 DEF IInv, Interrupted, GoingOn, Subject, Tally, Moves, Exited
  <1>9. pc' # "exit"
    BY <1>1
  <1> QED BY <1>7, <1>8, <1>9, NoExit DEF IInv

LEMMA WriteReportsStep == ASSUME IInv, Moves, WriteReports PROVE IInv'
  <1> USE DEF Names, Measuring, Finding, Late, Aimed
  <1>1. CASE Return("reports", Runtime)
    BY <1>1, ReturnStep
  <1>2. ASSUME pc = "reports", report' = Generate, UNCHANGED <<target, status, replayed>>,
               \/ pc' = "gates" /\ code' = code
               \/ pc' = "exit" /\ code' = Runtime
        PROVE  IInv'
    <2>1. TypeOK'
      BY <1>2, StatusesStay, CountsAreNumbers, PhaseNames DEF IInv, TypeOK, Moves
    <2>2. Interrupted' /\ GoingOn'
      BY <1>2 DEF IInv, Interrupted, GoingOn, Moves, Exited
    <2>3. Subject' /\ Tally'
      BY <1>2, StatusesStay DEF IInv, Subject, Tally, Moves
    <2> QED BY <1>2, <2>1, <2>2, <2>3, NoExit, FailedExit DEF IInv
  <1> QED BY <1>1, <1>2 DEF WriteReports, Phase

(* A run for one id that gets to the gates has that mutant alone: it is    *)
(* killed or has lived when the gates do not fail, and the first of them   *)
(* tells the two apart.                                                    *)
LEMMA OneJudged ==
    ASSUME IInv, pc = "gates", opts.single, opts.efficacy = 100, Answered,
           NEW lim \in Percentages
    PROVE  /\ ~Below(Killings, Judged, 100) => With(Killed) = target /\ target # {}
           /\ Below(Killings, Judged, 100) => With(Lived) = target /\ target # {}
           /\ ~Below(Judged, Measured, lim)
  <1>1. PICK m \in Mutants : target = {m} /\ Kept = {m}
    BY DEF IInv, Subject, Aimed, Late
  <1>2. status[m] \in {Killed, Lived}
    BY <1>1 DEF Answered
  <1>3. Killed # Lived /\ Killed # NotCovered /\ Lived # NotCovered
    BY DEF Killed, Lived, NotCovered
  <1>4. With(NotCovered) = {}
    BY <1>1, <1>2, <1>3 DEF With
  <1>5. Cardinality({m}) = 1 /\ Cardinality({}) = 0
    BY FS_Singleton, FS_EmptySet
  <1>6. lim \in 0..100
    BY PipelineAssumption
  <1>7. CASE status[m] = Killed
    <2>1. With(Killed) = {m} /\ With(Lived) = {}
      BY <1>1, <1>3, <1>7 DEF With
    <2>2. Killings = 1 /\ Judged = 1 /\ Measured = 1
      BY <1>4, <1>5, <2>1 DEF Killings, Judged, Measured
    <2> QED BY <1>1, <1>6, <2>1, <2>2 DEF Below
  <1>8. CASE status[m] = Lived
    <2>1. With(Killed) = {} /\ With(Lived) = {m}
      BY <1>1, <1>3, <1>8 DEF With
    <2>2. Killings = 0 /\ Judged = 1 /\ Measured = 1
      BY <1>4, <1>5, <2>1 DEF Killings, Judged, Measured
    <2> QED BY <1>1, <1>6, <2>1, <2>2 DEF Below
  <1> QED BY <1>2, <1>7, <1>8

(* Every mutant the run kept has a bucket, unless it is pending.           *)
LEMMA AllCounted ==
    ASSUME IInv, With(Pending) = {}
    PROVE  Generate.counted = Generate.total /\ Generate.total = Cardinality(Kept)
  <1>1. \A m \in Kept : status[m] \in Buckets
    BY DEF IInv, TypeOK, Kept, With, Buckets
  <1>2. {m \in Kept : status[m] \in Buckets} = Kept
    BY <1>1
  <1> QED BY <1>2 DEF Generate

LEMMA GatesStep == ASSUME IInv, Moves, Gates PROVE IInv'
  <1> USE DEF Names, Measuring, Finding, Late, Aimed
  <1>1. /\ pc = "gates" /\ pc' = "exit" /\ UNCHANGED <<target, status, replayed, report>>
        /\ code' = IF ~Answered THEN Runtime
                   ELSE IF Below(Killings, Judged, opts.efficacy) THEN BelowEfficacy
                   ELSE IF Below(Judged, Measured, opts.mcover) THEN BelowMcover
                   ELSE Success
    BY DEF Gates
  <1>2. opts \in Options /\ opts' = opts /\ ctxDone' = ctxDone /\ cutAt' = cutAt
    BY DEF IInv, TypeOK, Moves
  <1>3. TypeOK'
    BY <1>1, StatusesStay, PhaseNames DEF IInv, TypeOK, Moves
  <1>4. Interrupted' /\ GoingOn' /\ Subject' /\ Tally'
    BY <1>1 DEF IInv, Interrupted, GoingOn, Subject, Tally, Moves, Exited
  <1>5. EarlyInterruptFails'
    BY <1>1 DEF IInv, EarlyInterruptFails, Guarded, Moves
  <1>6. ExitAnswersForTarget'
    <2>1. SUFFICES ASSUME opts.single, opts.efficacy = 100
                   PROVE  /\ code' = Success => With(Killed) = target /\ target # {}
                          /\ code' = BelowEfficacy => With(Lived) = target /\ target # {}
      <3>1. opts.single => replayed = {}
        BY DEF IInv, Subject
      <3> QED BY <1>1, <1>2, <3>1, StatusesStay DEF ExitAnswersForTarget
    <2>2. opts.mcover \in Percentages
      BY <1>2 DEF Options
    <2>3. CASE ~Answered
      BY <1>1, <2>3 DEF Runtime, Success, BelowEfficacy
    <2>4. CASE Answered
      BY <1>1, <2>1, <2>2, <2>4, OneJudged DEF Success, BelowEfficacy, BelowMcover
    <2> QED BY <2>3, <2>4
  <1>7. GatesJudgeEveryMutant'
    <2>1. ~ctxDone => report.counted = report.total /\ report.total = Cardinality(Kept)
      BY <1>1, AllCounted DEF IInv, Tally
    <2> QED BY <1>1, <1>2, <2>1, StatusesStay DEF GatesJudgeEveryMutant
  <1> QED BY <1>3, <1>4, <1>5, <1>6, <1>7 DEF IInv

LEMMA InterruptStep == ASSUME IInv, Interrupt PROVE IInv'
  <1>1. /\ ~ctxDone /\ pc # "exit" /\ ctxDone' = TRUE /\ cutAt' = pc /\ pc \in Names
        /\ UNCHANGED <<pc, opts, target, status, replayed, report, code>>
    BY PhaseNames DEF Interrupt, IInv, TypeOK
  <1>2. TypeOK'
    BY <1>1, StatusesStay DEF IInv, TypeOK
  <1>3. Interrupted'
    BY <1>1 DEF Interrupted, Names, Measuring, Finding, Late
  <1>4. GoingOn' /\ Subject' /\ Tally'
    BY <1>1, StatusesStay DEF IInv, GoingOn, Subject, Tally, Exited
  <1> QED BY <1>1, <1>2, <1>3, <1>4, NoExit DEF IInv

-----------------------------------------------------------------------------
(* The theorems.                                                           *)

LEMMA NextInv == IInv /\ [Next]_vars => IInv'
  <1> SUFFICES ASSUME IInv, [Next]_vars PROVE IInv'
    OBVIOUS
  <1>1. CASE Step /\ Moves
    BY <1>1, QuietSteps, LaterQuietSteps, TargetStep, DiscoverStep, ApplyCacheStep, TestStep,
       ProveStep, WriteReportsStep, GatesStep DEF Step
  <1>2. CASE Interrupt
    BY <1>2, InterruptStep
  <1>3. CASE UNCHANGED vars
    <2>1. UNCHANGED <<pc, opts, target, status, replayed, report, code, ctxDone, cutAt>>
      BY <1>3 DEF vars
    <2> QED BY <2>1, StatusesStay DEF IInv, TypeOK, Interrupted, GoingOn, Subject, Tally, Exited,
                   EarlyInterruptFails, Guarded, ExitAnswersForTarget, GatesJudgeEveryMutant
  <1> QED BY <1>1, <1>2, <1>3 DEF Next, Moves

LEMMA Invariance == Spec => []IInv
  BY InitInv, NextInv, PTL DEF Spec

(* The exit status of the gates is that of a complete report: none of the  *)
(* mutants the run kept is left in no bucket, unless it was interrupted    *)
(* (pool.go:163).                                                          *)
THEOREM ExitInvHolds == Spec => []ExitInv
  <1>1. IInv => ExitInv
    BY DEF IInv, ExitInv
  <1> QED BY <1>1, Invariance, PTL

(* Of a run for one mutant under --threshold-efficacy 100, status 0 means  *)
(* that tests of this run killed that very mutant and status 10 that it    *)
(* lived, however the source was edited meanwhile (pipeline.go:788).       *)
THEOREM ExitAnswersForTargetHolds == Spec => []ExitAnswersForTarget
  <1>1. IInv => ExitAnswersForTarget
    BY DEF IInv
  <1> QED BY <1>1, Invariance, PTL

(* An interrupt that comes before the build of the map looks at the        *)
(* context for the last time, or before the discovery of a dry run, fails  *)
(* the run, and nothing is tested, replayed or reported after it           *)
(* (pipeline.go:578).  Of later ones this is not true.                     *)
THEOREM EarlyInterruptFailsHolds == Spec => []EarlyInterruptFails
  <1>1. IInv => EarlyInterruptFails
    BY DEF IInv
  <1> QED BY <1>1, Invariance, PTL
=============================================================================
