-------------------------- MODULE SequentialProofs --------------------------
(***************************************************************************)
(* Proofs about what runs on one goroutine, for any settings, files,       *)
(* mutants and import graphs: the classifier, the scan of --test-flags,    *)
(* the settings, the filters, stable ids and the packages of an            *)
(* integration run, each by itself and as a part of MCSequential, whose    *)
(* parts share no variable that changes.                                   *)
(*                                                                         *)
(* Steps over numbers and over finite sets are taken from the least that   *)
(* differs (LeastNat, SmallestSet).                                        *)
(***************************************************************************)
EXTENDS MCSequential, FiniteSetTheorems, SequenceTheorems, WellFoundedInduction, TLAPS

-----------------------------------------------------------------------------
(* Classify: once decided, the verdict is what the two functions make of   *)
(* what the end of the process left to observe.                            *)
Judged ==
    verdict # Outcome!Undecided =>
        verdict = IF kind = "test"
                  THEN Outcome!TestOutcome(Outcome!TestObservation(end, circumstance))
                  ELSE Outcome!BuildOutcome(Outcome!BuildObservation(end, circumstance))

Caused ==
    /\ kind \in {"test", "build"}
    /\ kind = "test" => end \in Outcome!TestEnds
    /\ kind = "build" => end \in Outcome!BuildEnds
    /\ circumstance \in Outcome!Circumstances
    /\ kind = "build" => ~circumstance.detected /\ ~circumstance.quoted

OutcomeIInv == Judged /\ Caused

LEMMA OutcomeInit == Outcome!Init => OutcomeIInv
  BY DEF Outcome!Init, OutcomeIInv, Judged, Caused

LEMMA OutcomeStepKeeps == OutcomeIInv /\ [Outcome!Next]_(Outcome!vars) => OutcomeIInv'
  <1> SUFFICES ASSUME OutcomeIInv, [Outcome!Next]_(Outcome!vars) PROVE OutcomeIInv'
    OBVIOUS
  <1> USE DEF OutcomeIInv
  <1>1. UNCHANGED <<kind, end, circumstance>>
    BY DEF Outcome!Next, Outcome!ClassifyTest, Outcome!ClassifyBuild, Outcome!Done, Outcome!vars
  <1>2. Caused'
    BY <1>1 DEF Caused
  <1>3. Judged'
    <2>1. CASE Outcome!ClassifyTest
      BY <1>1, <2>1 DEF Judged, Outcome!ClassifyTest
    <2>2. CASE Outcome!ClassifyBuild
      BY <1>1, <2>2 DEF Judged, Outcome!ClassifyBuild
    <2>3. CASE UNCHANGED Outcome!vars
      BY <1>1, <2>3 DEF Judged, Outcome!vars
    <2> QED BY <2>1, <2>2, <2>3 DEF Outcome!Next, Outcome!Done
  <1> QED BY <1>2, <1>3

(* What a test run is called by the cause of its end.                      *)
LEMMA TestVerdictFits ==
    ASSUME NEW how \in Outcome!TestEnds, NEW seen \in Outcome!Circumstances,
           NEW o, o = Outcome!TestObservation(how, seen)
    PROVE  /\ (/\ how \in {"failed", "panicked"}
               /\ ~(how \in Outcome!OnItsOwn /\ (seen.monitorRaced \/ seen.deadlineRaced)))
                 => Outcome!TestOutcome(o) = Outcome!Killed
           /\ how \in {"deadline", "monitor"} => Outcome!TestOutcome(o) = Outcome!TimedOut
           /\ how \in {"outside", "host"} /\ ~seen.long /\ ~seen.detected
                 => Outcome!TestOutcome(o) = Outcome!InfraError
  <1>1. /\ o.err <=> how # "passed"
        /\ o.mem <=> how = "monitor" \/ (how \in Outcome!OnItsOwn /\ seen.monitorRaced)
        /\ o.deadline <=> how = "deadline" \/ (how \in Outcome!OnItsOwn /\ seen.deadlineRaced)
        /\ o.marker <=> ~seen.long /\ (seen.detected \/ how \in {"failed", "panicked"})
        /\ o.signature <=> seen.quoted \/ (~seen.long /\ how = "host")
        /\ o.truncated <=> seen.long
        /\ how = "outside" => o.killed = "line"
    BY DEF Outcome!TestObservation
  <1>2. ASSUME how \in {"failed", "panicked"}, ~seen.monitorRaced, ~seen.deadlineRaced
        PROVE  Outcome!TestOutcome(o) = Outcome!Killed
    <2>1. o.err /\ ~o.mem /\ ~o.deadline
      BY <1>1, <1>2
    <2>2. o.truncated \/ o.marker
      BY <1>1, <1>2
    <2> QED BY <2>1, <2>2 DEF Outcome!TestOutcome, Outcome!InfraFromOutput, Outcome!KillVetoed
  <1>3. ASSUME how \in {"deadline", "monitor"}
        PROVE  Outcome!TestOutcome(o) = Outcome!TimedOut
    <2>1. o.err /\ (o.mem \/ o.deadline)
      BY <1>1, <1>3
    <2> QED BY <2>1 DEF Outcome!TestOutcome
  <1>4. ASSUME how \in {"outside", "host"}, ~seen.long, ~seen.detected
        PROVE  Outcome!TestOutcome(o) = Outcome!InfraError
    <2>1. o.err /\ ~o.mem /\ ~o.deadline /\ ~o.truncated /\ ~o.marker
      BY <1>1, <1>4 DEF Outcome!OnItsOwn
    <2>2. o.signature \/ o.killed = "line"
      BY <1>1, <1>4
    <2> QED BY <2>1, <2>2 DEF Outcome!TestOutcome, Outcome!InfraFromOutput,
                              Outcome!UnexplainedKill, Outcome!KillVetoed
  <1> QED BY <1>2, <1>3, <1>4 DEF Outcome!OnItsOwn

(* What a build is called where the host ended it.                         *)
LEMMA BuildVerdictFits ==
    ASSUME NEW how \in {"outside", "host"}, NEW seen \in Outcome!Circumstances,
           NEW o, o = Outcome!BuildObservation(how, seen)
    PROVE  Outcome!BuildOutcome(o) = Outcome!InfraError
  <1>1. o.err /\ ~o.mem /\ ~o.deadline /\ ~o.compile
    BY DEF Outcome!BuildObservation, Outcome!OnItsOwn
  <1>2. o.generic \/ o.killed # "no"
    BY DEF Outcome!BuildObservation
  <1> QED BY <1>1, <1>2 DEF Outcome!BuildOutcome

LEMMA OutcomeResult == OutcomeIInv => Outcome!VerdictFitsCause
  <1> SUFFICES ASSUME OutcomeIInv, Outcome!Decided PROVE Outcome!VerdictFitsCause
    BY DEF Outcome!VerdictFitsCause, Outcome!DetectionIsAKill, Outcome!OwnKillIsTimedOut,
           Outcome!HostFailureIsNotCached
  <1>1. CASE kind = "test"
    <2>1. end \in Outcome!TestEnds /\ circumstance \in Outcome!Circumstances
      BY <1>1 DEF OutcomeIInv, Caused
    <2>2. verdict = Outcome!TestOutcome(Outcome!TestObservation(end, circumstance))
      BY <1>1 DEF OutcomeIInv, Judged, Outcome!Decided
    <2> QED BY <1>1, <2>1, <2>2, TestVerdictFits
            DEF Outcome!VerdictFitsCause, Outcome!DetectionIsAKill, Outcome!OwnKillIsTimedOut,
                Outcome!HostFailureIsNotCached, Outcome!Raced
  <1>2. CASE kind = "build"
    <2>1. circumstance \in Outcome!Circumstances
      BY DEF OutcomeIInv, Caused
    <2>2. verdict = Outcome!BuildOutcome(Outcome!BuildObservation(end, circumstance))
      BY <1>2 DEF OutcomeIInv, Judged, Outcome!Decided
    <2> QED BY <1>2, <2>1, <2>2, BuildVerdictFits
            DEF Outcome!VerdictFitsCause, Outcome!DetectionIsAKill, Outcome!OwnKillIsTimedOut,
                Outcome!HostFailureIsNotCached
  <1> QED BY <1>1, <1>2 DEF OutcomeIInv, Caused

-----------------------------------------------------------------------------
(* Settings: what the settings are once the file was read, once the flags  *)
(* were laid over it, and once both were checked.                          *)
GivenTypes ==
    \A s \in Config!Settings :
        file[s] \in Config!Optional(s) /\ flags[s] \in Config!Optional(s)

ConfigTypes ==
    /\ stage \in {"start", "parsed", "loaded", "merged", "checked", "running", "usage"}
    /\ cfg \in [Config!Settings -> Int]
    /\ \A s \in Config!Settings : cfg[s] \in Config!Legal(s)
    /\ policy \in [global : Int, min : Int, adaptive : BOOLEAN]

Parsed == stage \notin {"start", "usage"} => ~Config!Misused

Merged ==
    stage \in {"merged", "checked", "running"} =>
        /\ \A s \in Config!ThreeState \cup {"checkpoint"} :
              flags[s] # <<>> => cfg[s] = flags[s][1]
        /\ \A s \in Config!Toggles : Config!Has(flags, s, Config!Yes) => cfg[s] = Config!Yes
        /\ flags["cache"] = <<Config!OffWord>> => cfg["cache"] = Config!Blank

Checked == stage \in {"checked", "running"} => ~Config!Conflicts

Sized == stage = "running" => policy = Config!TimeoutPolicyFor

ConfigIInv == GivenTypes /\ ConfigTypes /\ Parsed /\ Merged /\ Checked /\ Sized

LEMMA ConfigConstants ==
    /\ Focus \subseteq SUBSET Config!Settings
    /\ Numbers \subseteq Int
    /\ Baseline \in Nat \ {0}
  BY SequentialAssumption DEF Config!SettingsAssumption

LEMMA ValuesAreNumbers == \A s \in Config!Settings : Config!Values(s) \subseteq Int
  BY ConfigConstants DEF Config!Values, Config!No, Config!Yes, Config!Blank, Config!Text,
                         Config!OffWord

(* A setting that is given, is given one of its values.                    *)
LEMMA OptionalValues ==
    ASSUME NEW s \in Config!Settings, NEW o \in Config!Optional(s), o # <<>>
    PROVE  o[1] \in Config!Values(s) /\ o[1] \in Int /\ o = <<o[1]>>
  <1>1. PICK v \in Config!Values(s) : o = <<v>>
    BY DEF Config!Optional
  <1> QED BY <1>1, ValuesAreNumbers

LEMMA DefaultsAreLegal ==
    /\ Config!Default \in [Config!Settings -> Int]
    /\ \A s \in Config!Settings : Config!Default[s] \in Config!Legal(s)
  <1>1. Config!Default \in [Config!Settings -> Int]
    BY DEF Config!Default, Config!Yes
  <1>2. ASSUME NEW s \in Config!Settings PROVE Config!Default[s] \in Config!Legal(s)
    BY DEF Config!Default, Config!Yes, Config!No, Config!Settings, Config!Legal, Config!Values,
           Config!Counts, Config!Scaled, Config!Toggles, Config!ThreeState, Config!Texts,
           Config!Blank, Config!Text, Config!OffWord
  <1> QED BY <1>1, <1>2

LEMMA GivenIsOptional ==
    ASSUME NEW varied \in SUBSET Config!Settings, NEW f \in Config!Choices(varied)
    PROVE  \A s \in Config!Settings : Config!Given(f)[s] \in Config!Optional(s)
  <1>1. f \in [varied -> UNION {Config!Optional(s) : s \in varied}]
        /\ \A s \in varied : f[s] \in Config!Optional(s)
    BY DEF Config!Choices
  <1>2. DOMAIN f = varied
    BY <1>1
  <1> QED BY <1>1, <1>2 DEF Config!Given, Config!Optional

LEMMA ConfigInit == Config!Init => ConfigIInv
  <1> SUFFICES ASSUME Config!Init PROVE ConfigIInv
    OBVIOUS
  <1>1. GivenTypes
    <2>1. PICK varied \in Focus : /\ file \in {Config!Given(f) : f \in Config!Choices(varied \ {"id"})}
                                  /\ flags \in {Config!Given(f) : f \in Config!Choices(varied)}
      BY DEF Config!Init
    <2>2. varied \in SUBSET Config!Settings /\ varied \ {"id"} \in SUBSET Config!Settings
      BY ConfigConstants
    <2>3. PICK f \in Config!Choices(varied \ {"id"}) : file = Config!Given(f)
      BY <2>1
    <2>4. PICK g \in Config!Choices(varied) : flags = Config!Given(g)
      BY <2>1
    <2> QED BY <2>2, <2>3, <2>4, GivenIsOptional DEF GivenTypes
  <1>2. ConfigTypes
    BY DefaultsAreLegal DEF Config!Init, ConfigTypes, Config!NoPolicy
  <1> QED BY <1>1, <1>2 DEF Config!Init, ConfigIInv, Parsed, Merged, Checked, Sized

LEMMA ParseFlagsStep == ConfigIInv /\ Config!ParseFlags => ConfigIInv'
  <1> SUFFICES ASSUME ConfigIInv, Config!ParseFlags PROVE ConfigIInv'
    OBVIOUS
  <1> USE DEF ConfigIInv, Config!ParseFlags
  <1>1. GivenTypes' /\ ConfigTypes'
    BY DEF GivenTypes, ConfigTypes
  <1>2. Parsed'
    BY DEF Parsed, Config!Misused, Config!Has
  <1>3. Merged' /\ Checked' /\ Sized'
    BY DEF Merged, Checked, Sized
  <1> QED BY <1>1, <1>2, <1>3

(* What stands of the file, or of the flags, is legal for its setting.     *)
LEMMA KeptAreLegal ==
    ASSUME NEW s \in Config!Settings, NEW v \in Config!Values(s)
    PROVE  /\ Config!KeptFromFile(s, v) => v \in Config!Legal(s)
           /\ Config!KeptFromFlags(s, v) /\ (s = "checkpoint" => v >= 0) => v \in Config!Legal(s)
  <1>1. v \in Int
    BY ValuesAreNumbers
  <1>2. CASE s \in Config!Counts \cup Config!Scaled \cup {"checkpoint", "testCPU"}
    BY <1>1, <1>2 DEF Config!KeptFromFile, Config!KeptFromFlags, Config!Legal, Config!Counts,
                      Config!Scaled, Config!ThreeState
  <1>3. CASE s \notin Config!Counts \cup Config!Scaled \cup {"checkpoint", "testCPU"}
    BY <1>3 DEF Config!Legal
  <1> QED BY <1>2, <1>3

LEMMA LoadStep == ConfigIInv /\ Config!Load => ConfigIInv'
  <1> SUFFICES ASSUME ConfigIInv, Config!Load PROVE ConfigIInv'
    OBVIOUS
  <1> USE DEF ConfigIInv
  <1>1. /\ cfg' = [s \in Config!Settings |->
                     IF file[s] # <<>> /\ Config!KeptFromFile(s, file[s][1])
                     THEN file[s][1] ELSE Config!Default[s]]
        /\ stage = "parsed" /\ stage' = "loaded" /\ UNCHANGED <<file, flags, policy>>
    BY DEF Config!Load
  <1>2. ASSUME NEW s \in Config!Settings
        PROVE  cfg'[s] \in Int /\ cfg'[s] \in Config!Legal(s)
    <2>1. CASE file[s] # <<>> /\ Config!KeptFromFile(s, file[s][1])
      <3>1. file[s][1] \in Config!Values(s) /\ file[s][1] \in Int
        BY <2>1, OptionalValues DEF GivenTypes
      <3> QED BY <1>1, <2>1, <3>1, KeptAreLegal
    <2>2. CASE ~(file[s] # <<>> /\ Config!KeptFromFile(s, file[s][1]))
      BY <1>1, <2>2, DefaultsAreLegal
    <2> QED BY <2>1, <2>2
  <1>3. GivenTypes'
    BY <1>1 DEF GivenTypes
  <1>4. cfg' \in [Config!Settings -> Int]
    BY <1>1, <1>2
  <1>5. ConfigTypes'
    BY <1>1, <1>2, <1>4 DEF ConfigTypes
  <1>6. Parsed'
    BY <1>1 DEF Parsed, Config!Misused, Config!Has
  <1>7. Merged' /\ Checked' /\ Sized'
    BY <1>1 DEF Merged, Checked, Sized
  <1> QED BY <1>3, <1>5, <1>6, <1>7

LEMMA ApplyFlagsStep == ConfigIInv /\ Config!ApplyFlags => ConfigIInv'
  <1> SUFFICES ASSUME ConfigIInv, Config!ApplyFlags PROVE ConfigIInv'
    OBVIOUS
  <1> USE DEF ConfigIInv
  <1> DEFINE merged == [s \in Config!Settings |->
                          IF flags[s] # <<>> /\ Config!KeptFromFlags(s, flags[s][1])
                          THEN flags[s][1] ELSE cfg[s]]
  <1>1. /\ cfg' = [merged EXCEPT !["cache"] =
                     IF @ = Config!OffWord THEN Config!Blank ELSE Config!Text]
        /\ stage = "loaded" /\ stage' = "merged" /\ UNCHANGED <<file, flags, policy>>
    BY DEF Config!ApplyFlags
  <1>2. ASSUME NEW s \in Config!Settings
        PROVE  merged[s] \in Int /\ merged[s] \in Config!Legal(s)
    <2>1. CASE flags[s] # <<>> /\ Config!KeptFromFlags(s, flags[s][1])
      <3>1. flags[s][1] \in Config!Values(s) /\ flags[s][1] \in Int
        BY <2>1, OptionalValues DEF GivenTypes
      <3>2. s = "checkpoint" => flags[s][1] >= 0
        BY <1>1, <2>1, <3>1 DEF Parsed, Config!Misused
      <3> QED BY <2>1, <3>1, <3>2, KeptAreLegal
    <2>2. CASE ~(flags[s] # <<>> /\ Config!KeptFromFlags(s, flags[s][1]))
      BY <2>2 DEF ConfigTypes
    <2> QED BY <2>1, <2>2
  <1>3. "cache" \in Config!Settings
        /\ Config!Legal("cache") = {Config!Blank, Config!Text, Config!OffWord}
    BY DEF Config!Settings, Config!Texts, Config!Legal, Config!Values, Config!Counts,
           Config!Scaled, Config!Toggles, Config!ThreeState
  <1>4. /\ cfg' \in [Config!Settings -> Int]
        /\ \A s \in Config!Settings : s # "cache" => cfg'[s] = merged[s]
        /\ cfg'["cache"] = IF merged["cache"] = Config!OffWord THEN Config!Blank ELSE Config!Text
    <2>1. merged \in [Config!Settings -> Int]
      BY <1>2
    <2> HIDE DEF merged
    <2> QED BY <1>1, <1>3, <2>1 DEF Config!Blank, Config!Text
  <1>5. GivenTypes'
    BY <1>1 DEF GivenTypes
  <1>6. ConfigTypes'
    BY <1>1, <1>2, <1>3, <1>4 DEF ConfigTypes
  <1>7. Parsed'
    BY <1>1 DEF Parsed, Config!Misused, Config!Has
  <1>8. Merged'
    <2>1. ASSUME NEW s \in Config!ThreeState \cup {"checkpoint"}, flags[s] # <<>>
          PROVE  cfg'[s] = flags[s][1]
      <3>1. s \in Config!Settings /\ s # "cache"
        BY DEF Config!Settings, Config!ThreeState
      <3>2. merged[s] = flags[s][1]
        BY <2>1, <3>1 DEF Config!KeptFromFlags
      <3> QED BY <1>4, <3>1, <3>2
    <2>2. ASSUME NEW s \in Config!Toggles, Config!Has(flags, s, Config!Yes)
          PROVE  cfg'[s] = Config!Yes
      <3>1. s \in Config!Settings /\ s # "cache"
        BY DEF Config!Settings, Config!Toggles
      <3>2. flags[s] # <<>> /\ flags[s][1] = 1
        BY <2>2 DEF Config!Has, Config!Yes
      <3>3. merged[s] = 1
        BY <3>1, <3>2 DEF Config!KeptFromFlags
      <3> QED BY <1>4, <3>1, <3>3 DEF Config!Yes
    <2>3. ASSUME flags["cache"] = <<Config!OffWord>> PROVE cfg'["cache"] = Config!Blank
      <3>1. flags["cache"] # <<>> /\ flags["cache"][1] = 2
        BY <2>3 DEF Config!OffWord
      <3>2. merged["cache"] = 2
        BY <1>3, <3>1 DEF Config!KeptFromFlags
      <3> QED BY <1>4, <3>2 DEF Config!OffWord
    <2> QED BY <1>1, <2>1, <2>2, <2>3 DEF Merged, Config!Has
  <1>9. Checked' /\ Sized'
    BY <1>1 DEF Checked, Sized
  <1> QED BY <1>5, <1>6, <1>7, <1>8, <1>9

LEMMA CheckStep == ConfigIInv /\ Config!Check => ConfigIInv'
  <1> SUFFICES ASSUME ConfigIInv, Config!Check PROVE ConfigIInv'
    OBVIOUS
  <1> USE DEF ConfigIInv, Config!Check
  <1>1. GivenTypes' /\ ConfigTypes'
    BY DEF GivenTypes, ConfigTypes
  <1>2. Parsed' /\ Merged'
    BY DEF Parsed, Merged, Config!Misused, Config!Has
  <1>3. Checked' /\ Sized'
    BY DEF Checked, Sized, Config!Conflicts
  <1> QED BY <1>1, <1>2, <1>3

(* The settings the deadlines are made of.                                 *)
LEMMA PolicyTypes ==
    ASSUME ConfigTypes
    PROVE  /\ cfg["min"] \in Nat \ {0} /\ cfg["coefficient"] \in Int
           /\ Config!TimeoutPolicyFor \in [global : Int, min : Int, adaptive : BOOLEAN]
           /\ Config!TimeoutPolicyFor.min = cfg["min"]
           /\ Config!TimeoutPolicyFor.adaptive =>
                 Config!TimeoutPolicyFor.min <= Config!TimeoutPolicyFor.global
  <1>1. cfg["min"] \in Nat \ {0} /\ cfg["coefficient"] \in Int
    BY DEF ConfigTypes, Config!Settings, Config!Legal, Config!Counts, Config!Scaled
  <1>2. Baseline * cfg["coefficient"] \in Int
    BY <1>1, ConfigConstants
  <1>3. (cfg["adaptive"] = Config!Yes) \in BOOLEAN
    OBVIOUS
  <1>4. Config!Ceiling(Baseline * cfg["coefficient"], cfg["min"]) \in Int
    BY <1>1, <1>2 DEF Config!Ceiling
  <1>5. Config!TimeoutPolicyFor \in [global : Int, min : Int, adaptive : BOOLEAN]
    BY <1>1, <1>2, <1>3, <1>4 DEF Config!TimeoutPolicyFor
  <1>6. Config!TimeoutPolicyFor.min = cfg["min"]
    BY DEF Config!TimeoutPolicyFor
  <1>7. ASSUME Config!TimeoutPolicyFor.adaptive
        PROVE  cfg["min"] <= Config!TimeoutPolicyFor.global
    <2>1. cfg["adaptive"] = Config!Yes
      BY <1>7 DEF Config!TimeoutPolicyFor
    <2>2. Config!TimeoutPolicyFor.global
            = Config!Ceiling(Baseline * cfg["coefficient"], cfg["min"])
      BY <2>1 DEF Config!TimeoutPolicyFor
    <2> QED BY <1>1, <1>2, <2>2 DEF Config!Ceiling
  <1> QED BY <1>1, <1>5, <1>6, <1>7

LEMMA RunStep == ConfigIInv /\ Config!Run => ConfigIInv'
  <1> SUFFICES ASSUME ConfigIInv, Config!Run PROVE ConfigIInv'
    OBVIOUS
  <1> USE DEF ConfigIInv, Config!Run
  <1>1. GivenTypes'
    BY DEF GivenTypes
  <1>2. ConfigTypes'
    BY PolicyTypes DEF ConfigTypes
  <1>3. Parsed' /\ Merged'
    BY DEF Parsed, Merged, Config!Misused, Config!Has
  <1>4. Checked'
    BY DEF Checked, Config!Conflicts
  <1>5. Sized'
    BY DEF Sized, Config!TimeoutPolicyFor
  <1> QED BY <1>1, <1>2, <1>3, <1>4, <1>5

LEMMA ConfigStepKeeps == ConfigIInv /\ [Config!Next]_(Config!vars) => ConfigIInv'
  <1>1. ASSUME ConfigIInv, UNCHANGED Config!vars PROVE ConfigIInv'
    BY <1>1 DEF Config!vars, ConfigIInv, GivenTypes, ConfigTypes, Parsed, Merged, Checked, Sized,
                Config!Misused, Config!Has, Config!Conflicts, Config!TimeoutPolicyFor
  <1> QED BY <1>1, ParseFlagsStep, LoadStep, ApplyFlagsStep, CheckStep, RunStep
          DEF Config!Next, Config!Done

LEMMA ConfigResult == ConfigIInv => Config!SettingsInv
  <1> SUFFICES ASSUME ConfigIInv PROVE Config!SettingsInv
    OBVIOUS
  <1> USE DEF ConfigIInv
  <1>1. Config!TypeOK
    BY DEF Config!TypeOK, GivenTypes, ConfigTypes
  <1>2. Config!AdaptiveDeadlinesAreFloored
    BY PolicyTypes DEF Config!AdaptiveDeadlinesAreFloored, Config!Running, Sized
  <1>3. Config!NoSilentConflict
    <2>1. /\ cfg["dryRun"] \in {Config!No, Config!Yes}
          /\ cfg["coverpkg"] \in {Config!Blank, Config!Text}
      BY DEF ConfigTypes, Config!Settings, Config!Legal, Config!Values, Config!Counts,
             Config!Scaled, Config!Toggles, Config!ThreeState, Config!Texts
    <2> QED BY <2>1 DEF Config!NoSilentConflict, Config!Running, Checked, Config!Conflicts
  <1>4. Config!SetFlagsOverride
    BY DEF Config!SetFlagsOverride, Config!Running, Merged
  <1> QED BY <1>1, <1>2, <1>3, <1>4 DEF Config!SettingsInv

-----------------------------------------------------------------------------
(* Numbers have a least one, and a finite family of sets a smallest: the   *)
(* library's well-founded orders, for what is chosen from sets.            *)
LEMMA LeastNat ==
    ASSUME NEW S \in SUBSET Nat, S # {}
    PROVE  Min(S) \in S /\ \A n \in S : Min(S) <= n
  <1> DEFINE R == {ss \in Nat \X Nat : ss[1] < ss[2]}
  <1>1. IsWellFoundedOn(R, Nat)
    BY NatLessThanWellFounded DEF OpToRel
  <1>2. PICK m \in S : \A n \in S : <<n, m>> \notin R
    <2> HIDE DEF R
    <2> QED BY <1>1, WFMin
  <1>3. \A n \in S : m <= n
    <2> SUFFICES ASSUME NEW n \in S, n < m PROVE FALSE
      OBVIOUS
    <2>1. <<n, m>> \in R
      OBVIOUS
    <2> QED BY <1>2, <2>1
  <1> QED BY <1>3 DEF Min

LEMMA SmallestSet ==
    ASSUME NEW S, IsFiniteSet(S), NEW F \in SUBSET (SUBSET S), F # {}
    PROVE  \E T \in F : \A U \in F : U \subseteq T => U = T
  <1>1. F \subseteq FiniteSubsetsOf(S)
    BY FS_FiniteSubsetsOfFinite
  <1>2. IsWellFoundedOn(StrictSubsetOrdering(S), FiniteSubsetsOf(S))
    BY FS_StrictSubsetOrderingWellFounded
  <1>3. PICK T \in F : \A U \in F : <<U, T>> \notin StrictSubsetOrdering(S)
    BY <1>1, <1>2, WFMin
  <1>4. ASSUME NEW U \in F, U \subseteq T, U # T PROVE FALSE
    <2>1. <<U, T>> \in StrictSubsetOrdering(S)
      BY <1>4 DEF StrictSubsetOrdering
    <2> QED BY <1>3, <2>1
  <1> QED BY <1>4

-----------------------------------------------------------------------------
(* Filters: what is kept and what was dropped, stage by stage.             *)
Hit == {m \in Found!Considered : Found!MatchMutant(m)}
Past == Found!Considered \ Hit
Called == {m \in Past : Found!InCall(m)}
Named(which, by) == {[mutant |-> m, by |-> by] : m \in which}

Course ==
    /\ source \in Sources
    /\ stage \in {"diff", "directives", "calls", "coverage", "done", "failed"}
    /\ stage = "diff" => kept = Found!Mutants
    /\ stage \in {"directives", "failed"} => kept = Found!Considered
    /\ stage = "calls" => kept = Past
    /\ stage \in {"coverage", "done"} => kept = Past \ Called

Record ==
    /\ stage \in {"diff", "directives", "failed"} => suppressed = {}
    /\ stage = "calls" => suppressed = Named(Hit, "directive")
    /\ stage \in {"coverage", "done"} =>
          suppressed = Named(Hit, "directive") \cup Named(Called, "call")
    /\ stage # "done" => notCovered = {}
    /\ stage = "done" => notCovered = {m \in kept : ~Found!Covered(m)}

FoundIInv == Course /\ Record

LEMMA FoundInit == Found!Init => FoundIInv
  BY DEF Found!Init, FoundIInv, Course, Record

LEMMA FilterByDiffStep == FoundIInv /\ Found!FilterByDiff => FoundIInv'
  <1> SUFFICES ASSUME FoundIInv, Found!FilterByDiff PROVE FoundIInv'
    OBVIOUS
  <1>1. /\ stage = "diff" /\ stage' = "directives" /\ UNCHANGED <<source, suppressed, notCovered>>
        /\ kept' = Found!Considered
    BY DEF FoundIInv, Course, Found!FilterByDiff, Found!Then, Found!Considered
  <1>2. Found!Considered' = Found!Considered
    BY <1>1 DEF Found!Considered, Found!Mutants, Found!Lines, Found!Kind, Found!Changed,
                Found!InOther, Found!LineComments
  <1> QED BY <1>1, <1>2 DEF FoundIInv, Course, Record

(* All of these follow from the file, which does not change.               *)
LEMMA SameFile ==
    ASSUME UNCHANGED source
    PROVE  /\ Found!Considered' = Found!Considered
           /\ Hit' = Hit /\ Past' = Past /\ Called' = Called
           /\ \A m : Found!Covered(m)' <=> Found!Covered(m)
  <1>1. Found!Considered' = Found!Considered
    BY DEF Found!Considered, Found!Mutants, Found!Lines, Found!Kind, Found!Changed,
           Found!InOther, Found!LineComments
  <1>2. \A m : Found!MatchMutant(m)' <=> Found!MatchMutant(m)
    <2>1. /\ Found!Lines' = Found!Lines
          /\ \A l : Found!Index(l)' = Found!Index(l)
          /\ \A l : Found!Directive(l)' = Found!Directive(l)
          /\ \A l : Found!InOther(l)' <=> Found!InOther(l)
      BY DEF Found!Index, Found!Directive, Found!Lines, Found!PosLine, Found!InOther,
             Found!LineComments, Found!Kind, Found!NextNonCommentLine, Found!Documents,
             Found!Close
    <2> QED BY <2>1 DEF Found!MatchMutant, Found!Dropped, Found!MatchesType
  <1>3. Hit' = Hit /\ Past' = Past
    BY <1>1, <1>2 DEF Hit, Past
  <1>4. \A m : Found!InCall(m)' <=> Found!InCall(m)
    <2>1. Found!Spans' = Found!Spans
      BY DEF Found!Spans, Found!Within
    <2>2. \A l : Found!InOther(l)' <=> Found!InOther(l)
      BY DEF Found!Lines, Found!InOther, Found!LineComments, Found!Kind
    <2> QED BY <2>1, <2>2 DEF Found!InCall, Found!Start, Found!End
  <1>5. Called' = Called
    BY <1>3, <1>4 DEF Called
  <1>6. \A m : Found!Covered(m)' <=> Found!Covered(m)
    <2>1. \A l : Found!InOther(l)' <=> Found!InOther(l)
      BY DEF Found!Lines, Found!InOther, Found!LineComments, Found!Kind
    <2> QED BY <2>1 DEF Found!Covered, Found!IsCovered, Found!HasCoveredBlock,
                        Found!IsInAnyBlock, Found!Start
  <1> QED BY <1>1, <1>3, <1>5, <1>6

LEMMA FilterByDirectivesStep == FoundIInv /\ Found!FilterByDirectives => FoundIInv'
  <1> SUFFICES ASSUME FoundIInv, Found!FilterByDirectives PROVE FoundIInv'
    OBVIOUS
  <1>1. /\ stage = "directives" /\ UNCHANGED <<source, notCovered>>
        /\ kept = Found!Considered /\ suppressed = {} /\ source \in Sources
    BY DEF FoundIInv, Course, Record, Found!FilterByDirectives
  <1>2. /\ Found!Considered' = Found!Considered
        /\ Hit' = Hit /\ Past' = Past /\ Called' = Called
    BY <1>1, SameFile
  <1>3. CASE stage' = "failed" /\ UNCHANGED <<kept, suppressed>>
    BY <1>1, <1>2, <1>3 DEF FoundIInv, Course, Record
  <1>4. CASE stage' = "calls" /\ Found!Suppress({m \in kept : Found!MatchMutant(m)}, "directive")
    <2>1. kept' = Past /\ suppressed' = Named(Hit, "directive")
      BY <1>1, <1>4 DEF Found!Suppress, Hit, Past, Named
    <2> QED BY <1>1, <1>2, <1>4, <2>1 DEF FoundIInv, Course, Record, Named
  <1> QED BY <1>1, <1>3, <1>4 DEF Found!FilterByDirectives, Found!Then

LEMMA FilterByCallsStep == FoundIInv /\ Found!FilterByCalls => FoundIInv'
  <1> SUFFICES ASSUME FoundIInv, Found!FilterByCalls PROVE FoundIInv'
    OBVIOUS
  <1>1. /\ stage = "calls" /\ stage' = "coverage" /\ UNCHANGED <<source, notCovered>>
        /\ kept = Past /\ suppressed = Named(Hit, "directive") /\ source \in Sources
    BY DEF FoundIInv, Course, Record, Found!FilterByCalls, Found!Then
  <1>2. /\ Found!Considered' = Found!Considered
        /\ Hit' = Hit /\ Past' = Past /\ Called' = Called
    BY <1>1, SameFile
  <1>3. kept' = Past \ Called
        /\ suppressed' = Named(Hit, "directive") \cup Named(Called, "call")
    BY <1>1 DEF Found!FilterByCalls, Found!Suppress, Called, Named
  <1> QED BY <1>1, <1>2, <1>3 DEF FoundIInv, Course, Record, Named

LEMMA FilterByCoverageStep == FoundIInv /\ Found!FilterByCoverage => FoundIInv'
  <1> SUFFICES ASSUME FoundIInv, Found!FilterByCoverage PROVE FoundIInv'
    OBVIOUS
  <1>1. /\ stage = "coverage" /\ stage' = "done" /\ UNCHANGED <<source, kept, suppressed>>
        /\ kept = Past \ Called /\ source \in Sources
        /\ notCovered' = {m \in kept : ~Found!Covered(m)}
    BY DEF FoundIInv, Course, Record, Found!FilterByCoverage, Found!Then
  <1>2. /\ Hit' = Hit /\ Past' = Past /\ Called' = Called
        /\ \A m : Found!Covered(m)' <=> Found!Covered(m)
    BY <1>1, SameFile
  <1>3. Course'
    BY <1>1, <1>2 DEF Course
  <1>4. notCovered' = {m \in kept' : ~Found!Covered(m)'}
    BY <1>1, <1>2
  <1>5. Record'
    BY <1>1, <1>2, <1>4 DEF FoundIInv, Record, Named
  <1> QED BY <1>3, <1>5 DEF FoundIInv

LEMMA FoundStepKeeps == FoundIInv /\ [Found!Next]_(Found!vars) => FoundIInv'
  <1>1. ASSUME FoundIInv, UNCHANGED Found!vars PROVE FoundIInv'
    <2>1. UNCHANGED <<stage, source, kept, suppressed, notCovered>>
      BY <1>1 DEF Found!vars
    <2>2. /\ Found!Considered' = Found!Considered
          /\ Hit' = Hit /\ Past' = Past /\ Called' = Called
          /\ \A m : Found!Covered(m)' <=> Found!Covered(m)
      BY <2>1, SameFile
    <2>3. Course'
      BY <1>1, <2>1, <2>2 DEF FoundIInv, Course, Found!Mutants, Found!Lines, Found!Kind
    <2>4. {m \in kept' : ~Found!Covered(m)'} = {m \in kept : ~Found!Covered(m)}
      BY <2>1, <2>2
    <2>5. Record'
      BY <1>1, <2>1, <2>2, <2>4 DEF FoundIInv, Record, Named
    <2> QED BY <2>3, <2>5 DEF FoundIInv
  <1> QED BY <1>1, FilterByDiffStep, FilterByDirectivesStep, FilterByCallsStep,
             FilterByCoverageStep DEF Found!Next, Found!Done

(* What was suppressed, for either reason, once the filters are done.      *)
LEMMA SuppressedAre ==
    ASSUME FoundIInv, Found!Finished
    PROVE  /\ Found!By("directive") = Hit /\ Found!By("call") = Called
           /\ kept = Past \ Called
           /\ notCovered = {m \in kept : ~Found!Covered(m)}
           /\ source \in Sources
  <1>1. suppressed = Named(Hit, "directive") \cup Named(Called, "call")
    BY DEF FoundIInv, Record, Found!Finished
  <1>2. ASSUME NEW which, NEW by
        PROVE  {s.mutant : s \in Named(which, by)} = which
    <2>1. \A m \in which : [mutant |-> m, by |-> by] \in Named(which, by)
      BY DEF Named
    <2>2. \A s \in Named(which, by) : s.mutant \in which
      BY DEF Named
    <2>3. \A m \in which : \E s \in Named(which, by) : s.mutant = m
      BY <2>1
    <2> QED BY <2>2, <2>3
  <1>3. {t \in suppressed : t.by = "directive"} = Named(Hit, "directive")
    BY <1>1 DEF Named
  <1>4. {t \in suppressed : t.by = "call"} = Named(Called, "call")
    BY <1>1 DEF Named
  <1>5. Found!By("directive") = Hit /\ Found!By("call") = Called
    BY <1>2, <1>3, <1>4 DEF Found!By
  <1> QED BY <1>5 DEF FoundIInv, Course, Record, Found!Finished

LEMMA ConsideredAreMutants == Found!Considered \subseteq Found!Mutants
  BY DEF Found!Considered

LEMMA FoundTypes == FoundIInv => Found!TypeOK
  <1> SUFFICES ASSUME FoundIInv PROVE Found!TypeOK
    OBVIOUS
  <1> USE DEF FoundIInv
  <1>1. kept \subseteq Found!Mutants
    BY ConsideredAreMutants DEF Course, Past
  <1>2. notCovered \subseteq kept
    BY DEF Record
  <1>3. suppressed \subseteq [mutant : Found!Mutants \ kept, by : {"directive", "call"}]
    <2>1. \A s \in suppressed :
             \/ s \in Named(Hit, "directive") /\ stage \in {"calls", "coverage", "done"}
             \/ s \in Named(Called, "call") /\ stage \in {"coverage", "done"}
      BY DEF Course, Record
    <2>2. stage \in {"calls", "coverage", "done"} => Hit \subseteq Found!Mutants \ kept
      BY ConsideredAreMutants DEF Course, Past, Hit
    <2>3. stage \in {"coverage", "done"} => Called \subseteq Found!Mutants \ kept
      BY ConsideredAreMutants DEF Course, Past, Called
    <2> QED BY <2>1, <2>2, <2>3 DEF Named
  <1>4. stage \in {"diff", "directives", "calls", "coverage", "done", "failed"}
    BY DEF Course
  <1> QED BY <1>1, <1>2, <1>3, <1>4 DEF Found!TypeOK

LEMMA FoundCounts ==
    FoundIInv => Found!KeptOrSuppressed /\ Found!HumanReasonWins
  <1> SUFFICES ASSUME FoundIInv, Found!Finished
               PROVE  Found!KeptOrSuppressed /\ Found!HumanReasonWins
    BY DEF Found!KeptOrSuppressed, Found!HumanReasonWins
  <1>1. /\ Found!By("directive") = Hit /\ Found!By("call") = Called /\ kept = Past \ Called
    BY SuppressedAre
  <1>2. Found!KeptOrSuppressed
    BY <1>1 DEF Found!KeptOrSuppressed, Hit, Past, Called
  <1>3. Found!HumanReasonWins
    BY <1>1 DEF Found!HumanReasonWins, Hit, Past, Called
  <1> QED BY <1>2, <1>3

(* Without a //line comment a place is where it seems.                     *)
LEMMA LineFacts ==
    ASSUME source \in Sources, Found!NoLineComment
    PROVE  /\ Found!Lines = 1..Len(source.lines) /\ Len(source.lines) \in Nat
           /\ Found!Lines \subseteq Nat
           /\ \A l : ~Found!InOther(l) /\ Found!PosLine(l) = l
           /\ \A l \in Found!Lines :
                /\ Found!Kind(l) \in {"blank", "comment", "block", "code", "func", "close"}
                /\ Found!Kind(l) = "func" =>
                      \E k \in Found!Lines : k > l /\ Found!Kind(k) = "close"
  <1>1. /\ Len(source.lines) \in Nat /\ DOMAIN source.lines = 1..Len(source.lines)
        /\ \A l \in DOMAIN source.lines :
              /\ source.lines[l].kind \in
                    {"blank", "comment", "block", "code", "func", "close", "line"}
              /\ source.lines[l].kind = "func" =>
                    \E k \in DOMAIN source.lines : k > l /\ source.lines[k].kind = "close"
    BY SequentialAssumption DEF Found!SourcesAssumption
  <1>2. Found!Lines = 1..Len(source.lines) /\ Found!Lines \subseteq Nat
    BY <1>1 DEF Found!Lines
  <1>3. \A l : Found!LineComments(l) = {}
    BY DEF Found!LineComments, Found!NoLineComment
  <1>4. \A l : ~Found!InOther(l) /\ Found!PosLine(l) = l
    BY <1>3 DEF Found!InOther, Found!PosLine
  <1>5. ASSUME NEW l \in Found!Lines
        PROVE  /\ Found!Kind(l) \in {"blank", "comment", "block", "code", "func", "close"}
               /\ Found!Kind(l) = "func" =>
                     \E k \in Found!Lines : k > l /\ Found!Kind(k) = "close"
    BY <1>1 DEF Found!Lines, Found!Kind, Found!NoLineComment
  <1> QED BY <1>1, <1>2, <1>4, <1>5

(* A function has a line that closes it.                                   *)
LEMMA CloseFacts ==
    ASSUME source \in Sources, Found!NoLineComment,
           NEW f \in Found!Lines, Found!Kind(f) = "func"
    PROVE  Found!Close(f) \in Found!Lines /\ Found!Close(f) > f
  <1> DEFINE S == {l \in Found!Lines : l > f /\ Found!Kind(l) = "close"}
  <1>1. S \in SUBSET Nat /\ S # {}
    BY LineFacts
  <1>2. Found!Close(f) = Min(S)
    BY DEF Found!Close, Found!Min, Min
  <1>3. Min(S) \in S
    BY <1>1, LeastNat
  <1> QED BY <1>2, <1>3

(* The first line that is no comment is the line the documentation names.  *)
LEMMA NextLineFacts ==
    ASSUME source \in Sources, Found!NoLineComment,
           \A l \in Found!Lines : Found!Kind(l) # "block", NEW l \in Found!Lines
    PROVE  Found!NextNonCommentLine(l) =
             {n \in Found!Lines :
                /\ n > l /\ Found!Kind(n) \in {"code", "func", "close"}
                /\ \A k \in (l + 1)..(n - 1) : Found!Kind(k) \notin {"code", "func", "close"}}
  <1> DEFINE S == {n \in Found!Lines :
                     n > l /\ Found!Kind(n) \notin {"blank", "comment", "line"}}
             T == {n \in Found!Lines :
                     /\ n > l /\ Found!Kind(n) \in {"code", "func", "close"}
                     /\ \A k \in (l + 1)..(n - 1) : Found!Kind(k) \notin {"code", "func", "close"}}
  <1>1. S = {n \in Found!Lines : n > l /\ Found!Kind(n) \in {"code", "func", "close"}}
    BY LineFacts
  <1>2. S \in SUBSET Nat
    BY LineFacts
  <1>3. CASE S = {}
    <2>1. Found!NextNonCommentLine(l) = {}
      BY <1>3 DEF Found!NextNonCommentLine, Found!Least
    <2>2. T = {}
      BY <1>1, <1>3
    <2> QED BY <2>1, <2>2
  <1>4. CASE S # {}
    <2>1. Min(S) \in S /\ \A n \in S : Min(S) <= n
      BY <1>2, <1>4, LeastNat
    <2>2. Found!NextNonCommentLine(l) = {Min(S)}
      BY <1>4 DEF Found!NextNonCommentLine, Found!Least, Found!Min, Min
    <2>3. PICK least \in S : least = Min(S) /\ \A n \in S : least <= n
      BY <2>1
    <2>4. l \in Nat /\ least \in Nat /\ least > l
      BY <1>2, LineFacts
    <2>5. ASSUME NEW k \in (l + 1)..(least - 1) PROVE Found!Kind(k) \notin {"code", "func", "close"}
      <3>1. k \in Found!Lines /\ k > l /\ k < least
        BY <2>4, LineFacts
      <3> QED BY <1>1, <2>3, <2>4, <3>1
    <2>6. least \in T
      BY <1>1, <2>3, <2>4, <2>5
    <2>7. ASSUME NEW n \in T PROVE n = least
      <3>1. n \in S /\ n \in Nat /\ least <= n
        BY <1>1, <1>2, <2>3
      <3>2. CASE least < n
        <4>1. least \in (l + 1)..(n - 1)
          BY <2>4, <3>1, <3>2
        <4>2. Found!Kind(least) \in {"code", "func", "close"}
          BY <1>1
        <4> QED BY <4>1, <4>2
      <3> QED BY <2>4, <3>1, <3>2
    <2>8. T = {least}
      BY <2>6, <2>7
    <2> QED BY <2>2, <2>3, <2>8
  <1> QED BY <1>3, <1>4

(* A directive applies where the documentation has it apply.               *)
LEMMA IndexFacts ==
    ASSUME source \in Sources, Found!NoLineComment,
           \A l \in Found!Lines : Found!Kind(l) # "block", NEW l \in Found!Lines,
           NEW n \in Found!Lines
    PROVE  n \in Found!Index(l) <=> n \in Found!AppliesTo(l)
  <1>1. CASE Found!Directive(l).form = "disable"
    BY <1>1, LineFacts DEF Found!Index, Found!AppliesTo
  <1>2. CASE Found!Directive(l).form = "next-line"
    <2>1. Found!Index(l) = Found!NextNonCommentLine(l)
      BY <1>2, LineFacts DEF Found!Index
    <2>2. Found!AppliesTo(l) =
             {k \in Found!Lines :
                /\ k > l /\ Found!Kind(k) \in {"code", "func", "close"}
                /\ \A j \in (l + 1)..(k - 1) : Found!Kind(j) \notin {"code", "func", "close"}}
      BY <1>2 DEF Found!AppliesTo
    <2> QED BY <2>1, <2>2, NextLineFacts
  <1>3. CASE Found!Directive(l).form = "func"
    <2>1. Found!Index(l) = UNION {f..Found!Close(f) : f \in Found!Documents(l)}
      <3>1. \A k : Found!PosLine(k) = k
        BY LineFacts
      <3> QED BY <1>3, <3>1 DEF Found!Index
    <2>2. Found!AppliesTo(l) =
            {k \in Found!Lines : \E f \in Found!Documents(l) : f <= k /\ k <= Found!Close(f)}
      BY <1>3 DEF Found!AppliesTo
    <2>3. ASSUME NEW f \in Found!Documents(l)
          PROVE  n \in f..Found!Close(f) <=> f <= n /\ n <= Found!Close(f)
      <3>1. f \in Found!Lines /\ Found!Kind(f) = "func"
        BY DEF Found!Documents
      <3>2. Found!Close(f) \in Nat /\ f \in Nat /\ n \in Nat
        BY <3>1, CloseFacts, LineFacts
      <3> QED BY <3>2
    <2> QED BY <2>1, <2>2, <2>3
  <1>4. CASE Found!Directive(l).form = "regexp"
    BY <1>4 DEF Found!Index, Found!AppliesTo
  <1>5. CASE Found!Directive(l).form \notin {"disable", "next-line", "func", "regexp"}
    BY <1>5 DEF Found!Index, Found!AppliesTo
  <1> QED BY <1>1, <1>2, <1>3, <1>4, <1>5

LEMMA FoundDirectives == FoundIInv => Found!DirectivesHitTheirTargets
  <1> SUFFICES ASSUME FoundIInv, Found!Finished, Found!NoLineComment,
                      \A l \in Found!Lines : Found!Kind(l) # "block"
               PROVE  Found!By("directive") = {m \in Found!Considered : Found!Disabled(m)}
    BY DEF Found!DirectivesHitTheirTargets
  <1>1. source \in Sources /\ Found!By("directive") = Hit
    BY SuppressedAre
  <1>2. ASSUME NEW m \in Found!Considered
        PROVE  Found!MatchMutant(m) <=> Found!Disabled(m)
    <2>1. m.line \in Found!Lines /\ m.type \in Found!Types
      BY ConsideredAreMutants DEF Found!Mutants
    <2>2. ASSUME NEW l \in Found!Lines
          PROVE  (/\ ~Found!Dropped(Found!Directive(l))
                  /\ Found!MatchesType(Found!Directive(l), m.type)
                  /\ m.line \in Found!Index(l))
                 <=> (/\ ~Found!Directive(l).bad /\ m.line \in Found!AppliesTo(l)
                      /\ Found!Directive(l).names = {} \/ m.type \in Found!Directive(l).names)
      <3>1. m.line \in Found!Index(l) <=> m.line \in Found!AppliesTo(l)
        BY <1>1, <2>1, IndexFacts
      <3> QED BY <2>1, <3>1 DEF Found!Dropped, Found!MatchesType
    <2>3. ~Found!InOther(m.line)
      BY <1>1, LineFacts
    <2> QED BY <2>2, <2>3 DEF Found!MatchMutant, Found!Disabled
  <1> QED BY <1>1, <1>2 DEF Hit

(* Places are ordered.                                                     *)
LEMMA PlaceOrder ==
    /\ \A p \in Nat \X Nat : Found!AtOrBefore(p, p)
    /\ \A p, q, r \in Nat \X Nat :
          Found!AtOrBefore(p, q) /\ Found!AtOrBefore(q, r) => Found!AtOrBefore(p, r)
    /\ \A p, q \in Nat \X Nat :
          Found!AtOrBefore(p, q) /\ Found!AtOrBefore(q, p) => p = q
  BY DEF Found!AtOrBefore

LEMMA CallFacts ==
    ASSUME source \in Sources
    PROVE  /\ IsFiniteSet(source.calls)
           /\ \A d \in source.calls : /\ d \in [start : Found!Places, end : Found!Places,
                                                excluded : BOOLEAN]
                                      /\ Found!AtOrBefore(d.start, d.end)
           /\ \A d, e \in source.calls :
                 \/ Found!Within(d, e) \/ Found!Within(e, d)
                 \/ Found!AtOrBefore(d.end, e.start) \/ Found!AtOrBefore(e.end, d.start)
           /\ \A d \in source.profile :
                 d \in [start : Found!Places, end : Found!Places, count : Nat]
  <1>1. /\ Found!IsFiniteSet(source.calls)
        /\ source.calls \subseteq [start : Found!Places, end : Found!Places, excluded : BOOLEAN]
        /\ source.profile \subseteq [start : Found!Places, end : Found!Places, count : Nat]
    BY SequentialAssumption DEF Found!SourcesAssumption
  <1>2. \A d \in source.calls : Found!AtOrBefore(d.start, d.end)
    BY SequentialAssumption DEF Found!SourcesAssumption
  <1>3. \A d, e \in source.calls :
           \/ Found!Within(d, e) \/ Found!Within(e, d)
           \/ Found!AtOrBefore(d.end, e.start) \/ Found!AtOrBefore(e.end, d.start)
    BY SequentialAssumption DEF Found!SourcesAssumption
  <1>4. IsFiniteSet(source.calls)
    BY <1>1 DEF IsFiniteSet, Found!IsFiniteSet
  <1> QED BY <1>1, <1>2, <1>3, <1>4

(* Every excluded call lies in one that is in no other.                    *)
LEMMA OutermostCall ==
    ASSUME source \in Sources, NEW call \in source.calls, call.excluded
    PROVE  \E d \in Found!Spans : Found!Within(call, d)
  <1> DEFINE Above(e) == {d \in source.calls : d.excluded /\ Found!Within(e, d)}
             F == {Above(e) : e \in Above(call)}
  <1>1. \A d \in source.calls : d.start \in Nat \X Nat /\ d.end \in Nat \X Nat
    BY CallFacts DEF Found!Places
  <1>2. \A d \in source.calls : Found!Within(d, d)
    BY <1>1, PlaceOrder DEF Found!Within
  <1>3. \A d, e, g \in source.calls :
           Found!Within(d, e) /\ Found!Within(e, g) => Found!Within(d, g)
    BY <1>1, PlaceOrder DEF Found!Within
  <1>4. \E T \in F : \A U \in F : U \subseteq T => U = T
    <2>1. F \in SUBSET (SUBSET source.calls)
      OBVIOUS
    <2>2. F # {}
      BY <1>2
    <2>3. IsFiniteSet(source.calls)
      BY CallFacts
    <2> HIDE DEF F
    <2> QED BY <2>1, <2>2, <2>3, SmallestSet
  <1>5. PICK T \in F : \A U \in F : U \subseteq T => U = T
    BY <1>4
  <1>6. PICK d \in Above(call) : T = Above(d)
    OBVIOUS
  <1>7. \A e \in Above(call) : Above(e) \subseteq Above(d) => Above(e) = Above(d)
    BY <1>5, <1>6
  <1>8. d \in source.calls /\ d.excluded /\ Found!Within(call, d)
    OBVIOUS
  <1>9. ASSUME NEW e \in source.calls, e.excluded, Found!Within(d, e)
        PROVE  e = d
    <2>1. e \in Above(call)
      BY <1>3, <1>8, <1>9
    <2>2. Above(e) \subseteq Above(d)
      BY <1>3, <1>8, <1>9
    <2>3. d \in Above(e)
      BY <1>2, <1>7, <1>8, <2>1, <2>2
    <2>4. d.start = e.start /\ d.end = e.end
      BY <1>1, <1>8, <1>9, <2>3, PlaceOrder DEF Found!Within
    <2>5. d.excluded = TRUE /\ e.excluded = TRUE
      BY <1>8, <1>9, CallFacts
    <2>6. d = [start |-> d.start, end |-> d.end, excluded |-> d.excluded]
          /\ e = [start |-> e.start, end |-> e.end, excluded |-> e.excluded]
      BY <1>8, CallFacts
    <2> QED BY <2>4, <2>5, <2>6
  <1>10. d \in Found!Spans
    BY <1>8, <1>9 DEF Found!Spans
  <1> QED BY <1>8, <1>10

LEMMA FoundCalls == FoundIInv => Found!NestedCallsAreExcluded
  <1> SUFFICES ASSUME FoundIInv, Found!Finished, Found!NoLineComment
               PROVE  Found!NestedCallsAreExcluded
    BY DEF Found!NestedCallsAreExcluded
  <1>1. source \in Sources /\ kept = Past \ Called
    BY SuppressedAre
  <1>2. ASSUME NEW d \in Found!Spans, NEW e \in Found!Spans, d # e
        PROVE  Found!AtOrBefore(d.end, e.start) \/ Found!AtOrBefore(e.end, d.start)
    <2>1. d \in source.calls /\ e \in source.calls
          /\ ~Found!Within(d, e) /\ ~Found!Within(e, d)
      BY <1>2 DEF Found!Spans
    <2> QED BY <1>1, <2>1, CallFacts
  <1>3. ASSUME NEW m \in kept, NEW call \in source.calls, call.excluded,
               Found!AtOrBefore(call.start, Found!Start(m)),
               Found!AtOrBefore(Found!End(m), call.end)
        PROVE  FALSE
    <2>1. PICK d \in Found!Spans : Found!Within(call, d)
      BY <1>1, <1>3, OutermostCall
    <2>2. /\ d.start \in Nat \X Nat /\ d.end \in Nat \X Nat
          /\ call.start \in Nat \X Nat /\ call.end \in Nat \X Nat
      BY <1>1, CallFacts DEF Found!Spans, Found!Places
    <2>3. Found!Start(m) \in Nat \X Nat /\ Found!End(m) \in Nat \X Nat
      <3>1. m.line \in Nat
        BY <1>1, ConsideredAreMutants, LineFacts DEF Past, Found!Mutants
      <3> QED BY <3>1 DEF Found!Start, Found!End
    <2>4. Found!AtOrBefore(d.start, Found!Start(m)) /\ Found!AtOrBefore(Found!End(m), d.end)
      BY <1>3, <2>1, <2>2, <2>3, PlaceOrder DEF Found!Within
    <2>5. ~Found!InOther(m.line)
      BY <1>1, LineFacts
    <2>6. Found!InCall(m)
      BY <2>1, <2>4, <2>5 DEF Found!InCall
    <2> QED BY <1>1, <2>6 DEF Called
  <1> QED BY <1>2, <1>3 DEF Found!NestedCallsAreExcluded

LEMMA FoundResult == FoundIInv => Found!FiltersInv
  BY FoundTypes, FoundDirectives, FoundCounts, FoundCalls DEF Found!FiltersInv

LEMMA FoundCoverage == FoundIInv => Found!NotCoveredNeverRan
  <1> SUFFICES ASSUME FoundIInv, Found!Finished, Found!NoLineComment
               PROVE  Found!NotCoveredNeverRan
    BY DEF Found!NotCoveredNeverRan
  <1>1. /\ source \in Sources /\ kept = Past \ Called
        /\ notCovered = {m \in kept : ~Found!Covered(m)}
    BY SuppressedAre
  <1>2. ASSUME NEW m \in kept
        PROVE  /\ ~Found!InOther(m.line) /\ m.line \in Nat
               /\ Found!Start(m) = <<m.line, 2>>
    BY <1>1, ConsideredAreMutants, LineFacts DEF Past, Found!Mutants, Found!Start
  <1>3. ASSUME NEW m \in notCovered, NEW d \in source.profile, d.count > 0,
               Found!Inside(d, Found!Start(m))
        PROVE  FALSE
    <2>1. m \in kept /\ ~Found!Covered(m)
      BY <1>1
    <2>2. /\ d.start \in Nat \X Nat /\ d.end \in Nat \X Nat
      BY <1>1, CallFacts DEF Found!Places
    <2>3. Found!InBlock(d, Found!Start(m))
      BY <1>2, <1>3, <2>1, <2>2 DEF Found!Inside, Found!InBlock, Found!AtOrBefore
    <2>4. Found!IsCovered(Found!Start(m))
      BY <1>3, <2>3 DEF Found!IsCovered
    <2> QED BY <1>2, <2>1, <2>4 DEF Found!Covered
  <1>4. ASSUME NEW m \in kept, ~Found!HasCoveredBlock
        PROVE  m \in notCovered
    BY <1>1, <1>4 DEF Found!Covered, Found!IsCovered, Found!HasCoveredBlock
  <1> QED BY <1>3, <1>4 DEF Found!NotCoveredNeverRan, Found!Ran

-----------------------------------------------------------------------------
(* Target: what an id is made of.  In each id the first colon ends the     *)
(* path and the second the anchor.                                         *)
Marks == Asked!Symbols \cup {"~"}
Alphabet == Marks \cup {":", "#", "unknown"}

LEMMA SameCardinality == \A S : Asked!Cardinality(S) = Cardinality(S)
  BY DEF Asked!Cardinality, Cardinality

LEMMA TargetConstants ==
    /\ \A f \in Asked!Files : Path[f] \in Seq(Asked!Symbols)
    /\ \A f, g \in Asked!Files : Path[f] = Path[g] => f = g
    /\ Names \subseteq Asked!Symbols
    /\ Digits \in Seq(Seq(Asked!Symbols))
    /\ \A m, n \in DOMAIN Digits : Digits[m] = Digits[n] => m = n
    /\ \A f \in Asked!Files : \A decls \in Contents[f] :
          /\ decls \in Seq(Asked!Decls) /\ Len(decls) <= Len(Digits)
          /\ Cardinality(Asked!Points(decls)) <= Len(Digits)
  BY SequentialAssumption, SameCardinality DEF Asked!TargetAssumption

LEMMA SymbolFacts ==
    /\ Asked!Symbols \subseteq Marks /\ Marks \subseteq Alphabet
    /\ ":" \notin Marks /\ ":" \in Alphabet /\ "#" \in Alphabet /\ "~" \in Marks
    /\ "unknown" \in Alphabet
  BY DEF Asked!Symbols, Marks, Alphabet

(* A text made of two.                                                     *)
MadeOf(S, w, s, t) ==
    /\ w \in Seq(S) /\ Len(s) \in Nat /\ Len(t) \in Nat
    /\ Len(w) = Len(s) + Len(t)
    /\ \A n \in 1..Len(s) : w[n] = s[n] /\ s[n] \in S
    /\ \A n \in 1..Len(t) : w[Len(s) + n] = t[n] /\ t[n] \in S

LEMMA Concatenation ==
    ASSUME NEW S, NEW s \in Seq(S), NEW t \in Seq(S)
    PROVE  MadeOf(S, s \o t, s, t)
  <1>1. /\ s \o t \in Seq(S) /\ Len(s) \in Nat /\ Len(t) \in Nat
        /\ Len(s \o t) = Len(s) + Len(t)
    BY ConcatProperties, LenProperties
  <1>2. /\ \A n \in 1..Len(s) : s[n] \in S
        /\ \A n \in 1..Len(t) : t[n] \in S
    BY ElementOfSeq
  <1>3. \A n \in 1..(Len(s) + Len(t)) :
           (s \o t)[n] = IF n <= Len(s) THEN s[n] ELSE t[n - Len(s)]
    BY ConcatProperties
  <1>4. \A n \in 1..Len(s) : (s \o t)[n] = s[n]
    BY <1>1, <1>3
  <1>5. ASSUME NEW n \in 1..Len(t) PROVE (s \o t)[Len(s) + n] = t[n]
    <2>1. /\ Len(s) + n \in 1..(Len(s) + Len(t)) /\ ~(Len(s) + n <= Len(s))
          /\ (Len(s) + n) - Len(s) = n
      BY <1>1
    <2> QED BY <1>3, <2>1
  <1> QED BY <1>1, <1>2, <1>4, <1>5 DEF MadeOf

UpToColon(w, s) == w[Len(s) + 1] = ":" /\ \A n \in 1..Len(s) : w[n] = s[n]

(* Where the text before a first colon has none, the colon splits a text   *)
(* in one way only.                                                        *)
LEMMA FirstColon ==
    ASSUME NEW s1 \in Seq(Marks), NEW s2 \in Seq(Marks),
           NEW w, UpToColon(w, s1), UpToColon(w, s2)
    PROVE  s1 = s2
  <1> USE DEF UpToColon
  <1>1. Len(s1) \in Nat /\ Len(s2) \in Nat
    BY LenProperties
  <1>2. /\ \A n \in 1..Len(s1) : s1[n] \in Marks
        /\ \A n \in 1..Len(s2) : s2[n] \in Marks
    BY ElementOfSeq
  <1>3. Len(s1) = Len(s2)
    <2>1. ASSUME Len(s1) < Len(s2) PROVE FALSE
      <3>1. Len(s1) + 1 \in 1..Len(s2)
        BY <1>1, <2>1
      <3> QED BY <1>2, <3>1, SymbolFacts
    <2>2. ASSUME Len(s2) < Len(s1) PROVE FALSE
      <3>1. Len(s2) + 1 \in 1..Len(s1)
        BY <1>1, <2>2
      <3> QED BY <1>2, <3>1, SymbolFacts
    <2> QED BY <1>1, <2>1, <2>2
  <1> QED BY <1>3, SeqEqual

(* A declaration's occurrence and a point's ordinal have digits.           *)
LEMMA PointFacts ==
    ASSUME NEW f \in Asked!Files, NEW decls \in Contents[f], NEW p \in Asked!Points(decls)
    PROVE  /\ p[1] \in 1..Len(decls) /\ p[2] \in Nat /\ p = <<p[1], p[2]>>
           /\ decls[p[1]].name \in Asked!Symbols
           /\ Asked!Point(decls, p).type \in Asked!Symbols
  <1>0. PICK d \in DOMAIN decls : \E n \in DOMAIN decls[d].body : p = <<d, n>>
    BY DEF Asked!Points
  <1>1. PICK n \in DOMAIN decls[d].body : p = <<d, n>>
    BY <1>0
  <1>2. decls \in Seq(Asked!Decls)
    BY TargetConstants
  <1>3. DOMAIN decls = 1..Len(decls) /\ Len(decls) \in Nat /\ decls[d] \in Asked!Decls
    BY <1>1, <1>2, LenProperties, ElementOfSeq
  <1>4. /\ decls[d].name \in Names
        /\ decls[d].body \in Seq([type : Asked!Symbols, code : Nat, keep : BOOLEAN])
    BY <1>3 DEF Asked!Decls
  <1>5. /\ DOMAIN decls[d].body = 1..Len(decls[d].body) /\ Len(decls[d].body) \in Nat
        /\ decls[d].body[n] \in [type : Asked!Symbols, code : Nat, keep : BOOLEAN]
    BY <1>1, <1>4, LenProperties, ElementOfSeq
  <1> QED BY <1>1, <1>3, <1>4, <1>5, TargetConstants DEF Asked!Point

LEMMA PointsAreFinite ==
    ASSUME NEW f \in Asked!Files, NEW decls \in Contents[f]
    PROVE  IsFiniteSet(Asked!Points(decls)) /\ Cardinality(Asked!Points(decls)) <= Len(Digits)
  <1>1. decls \in Seq(Asked!Decls) /\ Cardinality(Asked!Points(decls)) <= Len(Digits)
    BY TargetConstants
  <1>2. DOMAIN decls = 1..Len(decls) /\ Len(decls) \in Nat
    BY <1>1, LenProperties
  <1> DEFINE Of(d) == {<<d, n>> : n \in DOMAIN decls[d].body}
  <1>3. ASSUME NEW d \in DOMAIN decls PROVE IsFiniteSet(Of(d))
    <2>1. decls[d] \in Asked!Decls
      BY <1>1, <1>2, ElementOfSeq
    <2>2. decls[d].body \in Seq([type : Asked!Symbols, code : Nat, keep : BOOLEAN])
      BY <2>1 DEF Asked!Decls
    <2>3. DOMAIN decls[d].body = 1..Len(decls[d].body) /\ Len(decls[d].body) \in Nat
      BY <2>2, LenProperties
    <2>4. IsFiniteSet(DOMAIN decls[d].body)
      BY <2>3, FS_Interval
    <2>5. [n \in DOMAIN decls[d].body |-> <<d, n>>] \in Surjection(DOMAIN decls[d].body, Of(d))
      BY DEF Surjection
    <2> QED BY <2>4, <2>5, FS_Surjection
  <1>4. IsFiniteSet({Of(d) : d \in DOMAIN decls})
    <2>1. [d \in DOMAIN decls |-> Of(d)] \in Surjection(DOMAIN decls, {Of(d) : d \in DOMAIN decls})
      BY DEF Surjection
    <2>2. IsFiniteSet(DOMAIN decls)
      BY <1>2, FS_Interval
    <2> HIDE DEF Of
    <2> QED BY <2>1, <2>2, FS_Surjection
  <1>5. IsFiniteSet(UNION {Of(d) : d \in DOMAIN decls})
    <2>1. \A T \in {Of(d) : d \in DOMAIN decls} : IsFiniteSet(T)
      BY <1>3
    <2> HIDE DEF Of
    <2> QED BY <1>4, <2>1, FS_UNION
  <1> QED BY <1>1, <1>5 DEF Asked!Points

LEMMA OccurrenceBound ==
    ASSUME NEW f \in Asked!Files, NEW decls \in Contents[f], NEW d \in 1..Len(decls)
    PROVE  Asked!Occurrence(decls, d) \in DOMAIN Digits
  <1>1. decls \in Seq(Asked!Decls) /\ Len(decls) <= Len(Digits) /\ Digits \in Seq(Seq(Asked!Symbols))
    BY TargetConstants
  <1>2. Len(decls) \in Nat /\ Len(Digits) \in Nat /\ DOMAIN Digits = 1..Len(Digits)
    BY <1>1, LenProperties
  <1> DEFINE S == {e \in 1..d : decls[e].name = decls[d].name}
  <1>3. d \in 1..d /\ d \in Nat /\ d <= Len(Digits)
    BY <1>1, <1>2
  <1>4. IsFiniteSet(1..d) /\ Cardinality(1..d) = d
    BY <1>3, FS_Interval
  <1>5. IsFiniteSet(S) /\ Cardinality(S) <= d
    BY <1>4, FS_Subset
  <1>6. Cardinality(S) \in Nat /\ Cardinality(S) # 0
    BY <1>3, <1>5, FS_CardinalityType, FS_EmptySet
  <1>7. Asked!Occurrence(decls, d) = Cardinality(S)
    BY SameCardinality DEF Asked!Occurrence
  <1> QED BY <1>2, <1>3, <1>5, <1>6, <1>7

(* The points counted in the ordinal of another.                           *)
Counted(decls, p) ==
    {q \in Asked!Points(decls) :
        /\ Asked!Before(q, p)
        /\ Asked!Anchor(decls, q[1]) = Asked!Anchor(decls, p[1])
        /\ Asked!Point(decls, q).type = Asked!Point(decls, p).type}

LEMMA CountedFacts ==
    ASSUME NEW f \in Asked!Files, NEW decls \in Contents[f], NEW p \in Asked!Points(decls)
    PROVE  /\ IsFiniteSet(Counted(decls, p)) /\ p \in Counted(decls, p)
           /\ Asked!Ordinal(decls, p) = Cardinality(Counted(decls, p))
           /\ Asked!Ordinal(decls, p) \in DOMAIN Digits
  <1>1. /\ IsFiniteSet(Asked!Points(decls))
        /\ Cardinality(Asked!Points(decls)) <= Len(Digits)
    BY PointsAreFinite
  <1>2. Counted(decls, p) \subseteq Asked!Points(decls)
    BY DEF Counted
  <1>3. IsFiniteSet(Counted(decls, p))
        /\ Cardinality(Counted(decls, p)) <= Cardinality(Asked!Points(decls))
    BY <1>1, <1>2, FS_Subset
  <1>4. p \in Counted(decls, p)
    BY PointFacts DEF Counted, Asked!Before
  <1>5. /\ Cardinality(Counted(decls, p)) \in Nat /\ Cardinality(Counted(decls, p)) # 0
        /\ Cardinality(Asked!Points(decls)) \in Nat
    BY <1>1, <1>3, <1>4, FS_CardinalityType, FS_EmptySet
  <1>6. Asked!Ordinal(decls, p) = Cardinality(Counted(decls, p))
    BY SameCardinality DEF Asked!Ordinal, Counted
  <1>7. DOMAIN Digits = 1..Len(Digits) /\ Len(Digits) \in Nat
    BY TargetConstants, LenProperties
  <1> QED BY <1>1, <1>3, <1>4, <1>5, <1>6, <1>7

LEMMA AnchorFacts ==
    ASSUME NEW f \in Asked!Files, NEW decls \in Contents[f], NEW d \in 1..Len(decls)
    PROVE  Asked!Anchor(decls, d) \in Seq(Marks)
  <1>1. decls \in Seq(Asked!Decls)
    BY TargetConstants
  <1>2. decls[d] \in Asked!Decls
    BY <1>1, ElementOfSeq
  <1>3. decls[d].name \in Marks
    BY <1>2, TargetConstants, SymbolFacts DEF Asked!Decls
  <1>4. Digits[Asked!Occurrence(decls, d)] \in Seq(Marks)
    <2>1. Asked!Occurrence(decls, d) \in 1..Len(Digits)
      BY OccurrenceBound, TargetConstants, LenProperties
    <2>2. Digits[Asked!Occurrence(decls, d)] \in Seq(Asked!Symbols)
      BY <2>1, TargetConstants, ElementOfSeq
    <2> QED BY <2>2, SymbolFacts, SeqMonotonic
  <1>5. /\ <<decls[d].name>> \in Seq(Marks) /\ <<decls[d].name, "~">> \in Seq(Marks)
        /\ <<>> \in Seq(Marks)
    BY <1>3, SymbolFacts
  <1>6. <<decls[d].name, "~">> \o Digits[Asked!Occurrence(decls, d)] \in Seq(Marks)
    BY <1>4, <1>5, ConcatProperties
  <1> QED BY <1>5, <1>6 DEF Asked!Anchor

(* An id by its parts.                                                     *)
Joined(path, anchor, type, digits) ==
    path \o <<":">> \o anchor \o <<":", type, "#">> \o digits

HasParts(w, path, anchor, type, digits) ==
    /\ Len(path) \in Nat /\ Len(anchor) \in Nat /\ Len(digits) \in Nat
    /\ w \in Seq(Alphabet) /\ Len(w) = Len(path) + Len(anchor) + 4 + Len(digits)
    /\ \A n \in 1..Len(path) : w[n] = path[n]
    /\ w[Len(path) + 1] = ":"
    /\ \A n \in 1..Len(anchor) : w[Len(path) + 1 + n] = anchor[n]
    /\ w[Len(path) + 1 + Len(anchor) + 1] = ":"
    /\ w[Len(path) + Len(anchor) + 3] = type
    /\ \A n \in 1..Len(digits) : w[Len(path) + Len(anchor) + 4 + n] = digits[n]

LEMMA JoinedParts ==
    ASSUME NEW path \in Seq(Alphabet), NEW anchor \in Seq(Alphabet), NEW type \in Alphabet,
           NEW digits \in Seq(Alphabet)
    PROVE  HasParts(Joined(path, anchor, type, digits), path, anchor, type, digits)
  <1> DEFINE colon == <<":">>
             tag == <<":", type, "#">>
             u == path \o colon
             v == u \o anchor
             z == v \o tag
             y == z \o digits
  <1>4. /\ colon \in Seq(Alphabet) /\ Len(colon) = 1 /\ colon[1] = ":"
        /\ tag \in Seq(Alphabet) /\ Len(tag) = 3 /\ tag[1] = ":" /\ tag[2] = type
    BY SymbolFacts
  <1>5. y = Joined(path, anchor, type, digits)
    BY DEF Joined
  <1> HIDE DEF colon, tag
  <1>1. MadeOf(Alphabet, u, path, colon)
    BY <1>4, Concatenation
  <1>2. MadeOf(Alphabet, v, u, anchor)
    <2>1. u \in Seq(Alphabet)
      BY <1>1 DEF MadeOf
    <2> HIDE DEF u
    <2> QED BY <2>1, Concatenation
  <1>3. MadeOf(Alphabet, z, v, tag)
    <2>1. v \in Seq(Alphabet)
      BY <1>2 DEF MadeOf
    <2> HIDE DEF v
    <2> QED BY <1>4, <2>1, Concatenation
  <1>0. MadeOf(Alphabet, y, z, digits)
    <2>1. z \in Seq(Alphabet)
      BY <1>3 DEF MadeOf
    <2> HIDE DEF z
    <2> QED BY <2>1, Concatenation
  <1> HIDE DEF u, v, z, y
  <1>6. /\ Len(u) = Len(path) + 1 /\ Len(path) \in Nat
        /\ \A n \in 1..Len(path) : u[n] = path[n]
        /\ u[Len(path) + 1] = ":"
    BY <1>1, <1>4 DEF MadeOf
  <1>7. /\ Len(v) = Len(path) + 1 + Len(anchor) /\ Len(anchor) \in Nat
        /\ \A n \in 1..(Len(path) + 1) : v[n] = u[n]
        /\ \A n \in 1..Len(anchor) : v[Len(path) + 1 + n] = anchor[n]
    BY <1>2, <1>6 DEF MadeOf
  <1>8. /\ Len(z) = Len(path) + Len(anchor) + 4
        /\ \A n \in 1..(Len(path) + 1 + Len(anchor)) : z[n] = v[n]
        /\ z[Len(path) + 1 + Len(anchor) + 1] = ":"
        /\ z[Len(path) + 1 + Len(anchor) + 2] = type
    <2>1. z[Len(v) + 1] = ":" /\ z[Len(v) + 2] = type
      BY <1>3, <1>4 DEF MadeOf
    <2> QED BY <1>3, <1>4, <1>6, <1>7, <2>1 DEF MadeOf
  <1>9. /\ y \in Seq(Alphabet) /\ Len(digits) \in Nat /\ Len(y) = Len(z) + Len(digits)
        /\ \A n \in 1..Len(z) : y[n] = z[n]
        /\ \A n \in 1..Len(digits) : y[Len(z) + n] = digits[n]
    BY <1>0 DEF MadeOf
  <1>10. \A n \in 1..(Len(path) + 1 + Len(anchor)) : y[n] = v[n]
    BY <1>6, <1>7, <1>8, <1>9
  <1>11. /\ \A n \in 1..Len(path) : y[n] = path[n]
         /\ y[Len(path) + 1] = ":"
    <2>1. \A n \in 1..(Len(path) + 1) : y[n] = u[n]
      BY <1>6, <1>7, <1>10
    <2> QED BY <1>6, <2>1
  <1>12. \A n \in 1..Len(anchor) : y[Len(path) + 1 + n] = anchor[n]
    BY <1>6, <1>7, <1>10
  <1>13. /\ y[Len(path) + 1 + Len(anchor) + 1] = ":"
         /\ y[Len(path) + Len(anchor) + 3] = type
    <2>1. /\ Len(path) + 1 + Len(anchor) + 1 \in 1..Len(z)
          /\ Len(path) + Len(anchor) + 3 \in 1..Len(z)
          /\ Len(path) + Len(anchor) + 3 = Len(path) + 1 + Len(anchor) + 2
      BY <1>6, <1>7, <1>8
    <2> QED BY <1>8, <1>9, <2>1
  <1>14. \A n \in 1..Len(digits) : y[Len(path) + Len(anchor) + 4 + n] = digits[n]
    BY <1>8, <1>9
  <1>15. Len(y) = Len(path) + Len(anchor) + 4 + Len(digits)
    BY <1>8, <1>9
  <1>16. HasParts(y, path, anchor, type, digits)
    BY <1>6, <1>7, <1>9, <1>11, <1>12, <1>13, <1>14, <1>15 DEF HasParts
  <1> QED BY <1>5, <1>16

LEMMA IdIsJoined ==
    ASSUME NEW f \in Asked!Files, NEW decls \in Contents[f], NEW p \in Asked!Points(decls)
    PROVE  /\ Asked!StableID(f, decls, p) =
                Joined(Path[f], Asked!Anchor(decls, p[1]), Asked!Point(decls, p).type,
                       Digits[Asked!Ordinal(decls, p)])
           /\ Path[f] \in Seq(Marks) /\ Path[f] \in Seq(Alphabet)
           /\ Asked!Anchor(decls, p[1]) \in Seq(Marks)
           /\ Asked!Anchor(decls, p[1]) \in Seq(Alphabet)
           /\ Asked!Point(decls, p).type \in Alphabet
           /\ Digits[Asked!Ordinal(decls, p)] \in Seq(Asked!Symbols)
           /\ Digits[Asked!Ordinal(decls, p)] \in Seq(Alphabet)
  <1>1. Path[f] \in Seq(Asked!Symbols)
    BY TargetConstants
  <1>2. Asked!Anchor(decls, p[1]) \in Seq(Marks)
    BY AnchorFacts, PointFacts
  <1>3. Digits[Asked!Ordinal(decls, p)] \in Seq(Asked!Symbols)
    <2>1. Asked!Ordinal(decls, p) \in 1..Len(Digits)
      BY CountedFacts, TargetConstants, LenProperties
    <2> QED BY <2>1, TargetConstants, ElementOfSeq
  <1>4. Asked!Symbols \subseteq Marks /\ Marks \subseteq Alphabet /\ Asked!Symbols \subseteq Alphabet
    BY SymbolFacts
  <1>5. /\ Path[f] \in Seq(Marks) /\ Path[f] \in Seq(Alphabet)
        /\ Asked!Anchor(decls, p[1]) \in Seq(Alphabet)
        /\ Digits[Asked!Ordinal(decls, p)] \in Seq(Alphabet)
    BY <1>1, <1>2, <1>3, <1>4, SeqMonotonic
  <1>6. Asked!Point(decls, p).type \in Alphabet
    BY <1>4, PointFacts
  <1>7. Asked!StableID(f, decls, p) =
                Joined(Path[f], Asked!Anchor(decls, p[1]), Asked!Point(decls, p).type,
                       Digits[Asked!Ordinal(decls, p)])
    BY DEF Asked!StableID, Asked!Segment, Joined
  <1> QED BY <1>2, <1>3, <1>5, <1>6, <1>7

LEMMA SamePath ==
    ASSUME NEW path1 \in Seq(Marks), NEW path2 \in Seq(Marks),
           NEW anchor1 \in Seq(Marks), NEW anchor2 \in Seq(Marks),
           NEW type1 \in Alphabet, NEW type2 \in Alphabet,
           NEW digits1 \in Seq(Alphabet), NEW digits2 \in Seq(Alphabet),
           Joined(path1, anchor1, type1, digits1) = Joined(path2, anchor2, type2, digits2)
    PROVE  path1 = path2 /\ anchor1 = anchor2 /\ type1 = type2 /\ digits1 = digits2
  <1> DEFINE w1 == Joined(path1, anchor1, type1, digits1)
             w2 == Joined(path2, anchor2, type2, digits2)
  <1>1. /\ path1 \in Seq(Alphabet) /\ path2 \in Seq(Alphabet)
        /\ anchor1 \in Seq(Alphabet) /\ anchor2 \in Seq(Alphabet)
    BY SymbolFacts, SeqMonotonic
  <1>2. HasParts(w1, path1, anchor1, type1, digits1)
    BY <1>1, JoinedParts
  <1>3. HasParts(w2, path2, anchor2, type2, digits2)
    BY <1>1, JoinedParts
  <1>4. w1 = w2
    OBVIOUS
  <1> HIDE DEF w1, w2
  <1>5. path1 = path2
    <2>1. UpToColon(w1, path1) /\ UpToColon(w1, path2)
      BY <1>2, <1>3, <1>4 DEF HasParts, UpToColon
    <2> QED BY <2>1, FirstColon
  <1> DEFINE v == [n \in 1..Len(w1) |-> w1[Len(path1) + 1 + n]]
  <1>6. anchor1 = anchor2
    <2>1. UpToColon(v, anchor1)
      BY <1>2 DEF HasParts, UpToColon
    <2>2. UpToColon(v, anchor2)
      BY <1>2, <1>3, <1>4, <1>5 DEF HasParts, UpToColon
    <2> HIDE DEF v
    <2> QED BY <2>1, <2>2, FirstColon
  <1>7. type1 = type2 /\ Len(digits1) = Len(digits2)
    BY <1>2, <1>3, <1>4, <1>5, <1>6 DEF HasParts
  <1>8. \A n \in 1..Len(digits1) : digits1[n] = digits2[n]
    BY <1>2, <1>3, <1>4, <1>5, <1>6, <1>7 DEF HasParts
  <1>9. digits1 = digits2
    BY <1>7, <1>8, SeqEqual
  <1> QED BY <1>5, <1>6, <1>7, <1>9

(* The points of one anchor and type have ordinals of their own.           *)
LEMMA OrdinalsDiffer ==
    ASSUME NEW f \in Asked!Files, NEW decls \in Contents[f],
           NEW p \in Asked!Points(decls), NEW q \in Asked!Points(decls),
           Asked!Anchor(decls, p[1]) = Asked!Anchor(decls, q[1]),
           Asked!Point(decls, p).type = Asked!Point(decls, q).type,
           Asked!Before(p, q), p # q
    PROVE  Asked!Ordinal(decls, p) < Asked!Ordinal(decls, q)
  <1>1. /\ p[1] \in Nat /\ p[2] \in Nat /\ p = <<p[1], p[2]>>
        /\ q[1] \in Nat /\ q[2] \in Nat /\ q = <<q[1], q[2]>>
    BY PointFacts
  <1>2. Counted(decls, p) \subseteq Counted(decls, q)
    <2> SUFFICES ASSUME NEW r \in Counted(decls, p) PROVE r \in Counted(decls, q)
      OBVIOUS
    <2>1. r \in Asked!Points(decls) /\ Asked!Before(r, p)
      BY DEF Counted
    <2>2. r[1] \in Nat /\ r[2] \in Nat
      BY <2>1, PointFacts
    <2>3. Asked!Before(r, q)
      BY <1>1, <2>1, <2>2 DEF Asked!Before
    <2> QED BY <2>1, <2>3 DEF Counted
  <1>3. q \notin Counted(decls, p)
    <2>1. ~Asked!Before(q, p)
      BY <1>1 DEF Asked!Before
    <2> QED BY <2>1 DEF Counted
  <1>4. /\ IsFiniteSet(Counted(decls, p)) /\ IsFiniteSet(Counted(decls, q))
        /\ q \in Counted(decls, q)
        /\ Asked!Ordinal(decls, p) = Cardinality(Counted(decls, p))
        /\ Asked!Ordinal(decls, q) = Cardinality(Counted(decls, q))
    BY CountedFacts
  <1>5. /\ Cardinality(Counted(decls, p)) <= Cardinality(Counted(decls, q))
        /\ Cardinality(Counted(decls, p)) = Cardinality(Counted(decls, q))
             => Counted(decls, p) = Counted(decls, q)
    BY <1>2, <1>4, FS_Subset
  <1>6. Cardinality(Counted(decls, p)) \in Nat /\ Cardinality(Counted(decls, q)) \in Nat
    BY <1>4, FS_CardinalityType
  <1> QED BY <1>3, <1>4, <1>5, <1>6

(* An id names one file, and one point of what the file holds.             *)
LEMMA SamePoint ==
    ASSUME NEW f \in Asked!Files, NEW g \in Asked!Files,
           NEW decls1 \in Contents[f], NEW decls2 \in Contents[g],
           NEW p \in Asked!Points(decls1), NEW q \in Asked!Points(decls2),
           Asked!StableID(f, decls1, p) = Asked!StableID(g, decls2, q)
    PROVE  f = g /\ (decls1 = decls2 => p = q)
  <1>1. /\ Path[f] = Path[g]
        /\ Asked!Anchor(decls1, p[1]) = Asked!Anchor(decls2, q[1])
        /\ Asked!Point(decls1, p).type = Asked!Point(decls2, q).type
        /\ Digits[Asked!Ordinal(decls1, p)] = Digits[Asked!Ordinal(decls2, q)]
    <2> DEFINE path1 == Path[f]
               path2 == Path[g]
               anchor1 == Asked!Anchor(decls1, p[1])
               anchor2 == Asked!Anchor(decls2, q[1])
               type1 == Asked!Point(decls1, p).type
               type2 == Asked!Point(decls2, q).type
               digits1 == Digits[Asked!Ordinal(decls1, p)]
               digits2 == Digits[Asked!Ordinal(decls2, q)]
    <2>1. /\ Asked!StableID(f, decls1, p) = Joined(path1, anchor1, type1, digits1)
          /\ path1 \in Seq(Marks) /\ anchor1 \in Seq(Marks) /\ type1 \in Alphabet
          /\ digits1 \in Seq(Alphabet)
      BY IdIsJoined
    <2>2. /\ Asked!StableID(g, decls2, q) = Joined(path2, anchor2, type2, digits2)
          /\ path2 \in Seq(Marks) /\ anchor2 \in Seq(Marks) /\ type2 \in Alphabet
          /\ digits2 \in Seq(Alphabet)
      BY IdIsJoined
    <2> HIDE DEF path1, path2, anchor1, anchor2, type1, type2, digits1, digits2
    <2>3. Joined(path1, anchor1, type1, digits1) = Joined(path2, anchor2, type2, digits2)
      BY <2>1, <2>2
    <2>4. path1 = path2 /\ anchor1 = anchor2 /\ type1 = type2 /\ digits1 = digits2
      BY <2>1, <2>2, <2>3, SamePath
    <2> QED BY <2>4 DEF path1, path2, anchor1, anchor2, type1, type2, digits1, digits2
  <1>2. f = g
    BY <1>1, TargetConstants
  <1>3. Asked!Ordinal(decls1, p) = Asked!Ordinal(decls2, q)
    BY <1>1, CountedFacts, TargetConstants
  <1>4. Asked!Ordinal(decls1, p) \in Nat /\ Asked!Ordinal(decls2, q) \in Nat
    BY CountedFacts, TargetConstants, LenProperties
  <1>5. ASSUME decls1 = decls2 PROVE p = q
    <2>1. /\ p[1] \in Nat /\ p[2] \in Nat /\ q[1] \in Nat /\ q[2] \in Nat
      BY PointFacts
    <2>2. Asked!Before(p, q) \/ Asked!Before(q, p)
      BY <2>1 DEF Asked!Before
    <2>3. CASE Asked!Before(p, q)
      BY <1>1, <1>3, <1>4, <1>5, <2>3, OrdinalsDiffer
    <2>4. CASE Asked!Before(q, p)
      BY <1>1, <1>3, <1>4, <1>5, <2>4, OrdinalsDiffer
    <2> QED BY <2>2, <2>3, <2>4
  <1> QED BY <1>2, <1>5

(* A prefix agrees wherever it reaches.                                    *)
LEMMA PrefixFacts ==
    ASSUME NEW S, NEW s \in Seq(S), NEW t \in Seq(S)
    PROVE  Asked!IsPrefix(s, t) <=> (Len(s) <= Len(t) /\ \A n \in 1..Len(s) : s[n] = t[n])
  <1>1. Len(s) \in Nat /\ Len(t) \in Nat /\ s \in [1..Len(s) -> S] /\ t \in [1..Len(t) -> S]
    BY LenProperties
  <1>2. ASSUME Len(s) <= Len(t)
        PROVE  SubSeq(s, 1, Len(s)) = SubSeq(t, 1, Len(s))
                 <=> \A n \in 1..Len(s) : s[n] = t[n]
    <2>1. /\ SubSeq(s, 1, Len(s)) = [n \in 1..Len(s) |-> s[n]]
          /\ SubSeq(t, 1, Len(s)) = [n \in 1..Len(s) |-> t[n]]
      BY <1>1, <1>2, SubSeqProperties
    <2> QED BY <2>1
  <1>3. Asked!IsPrefix(s, t) <=>
           (Len(s) <= Len(t) /\ SubSeq(s, 1, Len(s)) = SubSeq(t, 1, Len(s)))
    BY Zenon DEF Asked!IsPrefix
  <1> QED BY <1>2, <1>3, Zenon

(* What files may hold together, and what is discovered in them.           *)
Held == {held \in [Asked!Files -> UNION {Contents[f] : f \in Asked!Files}] :
            \A f \in Asked!Files : held[f] \in Contents[f]}

Mutant(held, f, p) ==
    [file |-> f, at |-> Asked!Line(held[f], p), code |-> Asked!Point(held[f], p).code,
     keep |-> Asked!Point(held[f], p).keep, id |-> Asked!StableID(f, held[f], p)]

LEMMA Discovered ==
    ASSUME NEW fs \in SUBSET Asked!Files, NEW held \in Held, NEW m
    PROVE  m \in Asked!Discover(fs, held) <=>
              \E f \in fs : \E p \in Asked!Points(held[f]) : m = Mutant(held, f, p)
  BY DEF Asked!Discover, Mutant

LEMMA MutantFacts ==
    ASSUME NEW held \in Held, NEW m \in Asked!Discover(Asked!Files, held)
    PROVE  /\ m.file \in Asked!Files /\ m.id \in Seq(Alphabet)
           /\ m = [file |-> m.file, at |-> m.at, code |-> m.code, keep |-> m.keep, id |-> m.id]
           /\ \E p \in Asked!Points(held[m.file]) : m = Mutant(held, m.file, p)
           /\ Asked!Segment(m.file) \in Seq(Alphabet)
           /\ Asked!IsPrefix(Asked!Segment(m.file), m.id)
  <1>1. PICK f \in Asked!Files : \E p \in Asked!Points(held[f]) : m = Mutant(held, f, p)
    BY Discovered
  <1>2. PICK p \in Asked!Points(held[f]) : m = Mutant(held, f, p)
    BY <1>1
  <1>3. /\ m.file = f /\ m.id = Asked!StableID(f, held[f], p)
        /\ m = [file |-> m.file, at |-> m.at, code |-> m.code, keep |-> m.keep, id |-> m.id]
    BY <1>2 DEF Mutant
  <1>4. held[f] \in Contents[f]
    BY DEF Held
  <1> DEFINE path == Path[f]
             anchor == Asked!Anchor(held[f], p[1])
             type == Asked!Point(held[f], p).type
             digits == Digits[Asked!Ordinal(held[f], p)]
  <1>5. /\ m.id = Joined(path, anchor, type, digits)
        /\ path \in Seq(Alphabet) /\ anchor \in Seq(Alphabet)
        /\ type \in Alphabet /\ digits \in Seq(Alphabet)
    BY <1>3, <1>4, IdIsJoined
  <1>6. Asked!Segment(f) = path \o <<":">>
    BY DEF Asked!Segment
  <1> HIDE DEF path, anchor, type, digits
  <1>7. HasParts(m.id, path, anchor, type, digits)
    BY <1>5, JoinedParts
  <1>8. MadeOf(Alphabet, Asked!Segment(f), path, <<":">>)
    <2>1. <<":">> \in Seq(Alphabet)
      BY SymbolFacts
    <2> QED BY <1>5, <1>6, <2>1, Concatenation
  <1>9. /\ Asked!Segment(f) \in Seq(Alphabet) /\ m.id \in Seq(Alphabet)
        /\ Len(Asked!Segment(f)) = Len(path) + 1
        /\ \A n \in 1..Len(path) : Asked!Segment(f)[n] = path[n]
        /\ Asked!Segment(f)[Len(path) + 1] = ":"
    BY <1>7, <1>8 DEF MadeOf, HasParts
  <1>10. /\ Len(Asked!Segment(f)) <= Len(m.id)
         /\ \A n \in 1..Len(Asked!Segment(f)) : Asked!Segment(f)[n] = m.id[n]
    <2> DEFINE s == Asked!Segment(f)
               w == m.id
    <2>1. /\ Len(path) \in Nat /\ Len(anchor) \in Nat /\ Len(digits) \in Nat
          /\ Len(w) = Len(path) + Len(anchor) + 4 + Len(digits)
          /\ \A n \in 1..Len(path) : w[n] = path[n]
          /\ w[Len(path) + 1] = ":"
      BY <1>7 DEF HasParts
    <2>2. /\ Len(s) = Len(path) + 1 /\ s[Len(path) + 1] = ":"
          /\ \A n \in 1..Len(path) : s[n] = path[n]
      BY <1>9
    <2> HIDE DEF s, w
    <2>3. /\ Len(s) <= Len(w)
          /\ \A n \in 1..Len(s) : s[n] = w[n]
      BY <2>1, <2>2
    <2> QED BY <2>3 DEF s, w
  <1>11. Asked!IsPrefix(Asked!Segment(f), m.id)
    BY <1>9, <1>10, PrefixFacts
  <1> QED BY <1>1, <1>2, <1>3, <1>9, <1>11

LEMMA SameMutant ==
    ASSUME NEW held \in Held, NEW m \in Asked!Discover(Asked!Files, held),
           NEW n \in Asked!Discover(Asked!Files, held), m.id = n.id
    PROVE  m = n
  <1>1. PICK p \in Asked!Points(held[m.file]) : m = Mutant(held, m.file, p)
    BY MutantFacts
  <1>2. PICK q \in Asked!Points(held[n.file]) : n = Mutant(held, n.file, q)
    BY MutantFacts
  <1>3. /\ m.file \in Asked!Files /\ n.file \in Asked!Files
        /\ held[m.file] \in Contents[m.file] /\ held[n.file] \in Contents[n.file]
    BY MutantFacts DEF Held
  <1>4. Asked!StableID(m.file, held[m.file], p) = Asked!StableID(n.file, held[n.file], q)
    BY <1>1, <1>2 DEF Mutant
  <1>5. m.file = n.file
    BY <1>3, <1>4, SamePoint
  <1>6. p = q
    BY <1>3, <1>4, <1>5, SamePoint
  <1> QED BY <1>1, <1>2, <1>5, <1>6

(* What an id could name is in the files its scope has.                    *)
LEMMA InScope ==
    ASSUME NEW held \in Held, NEW i_ \in Seq(Alphabet),
           NEW m \in Asked!Discover(Asked!Files, held),
           m.id = i_ \/ Asked!IsPrefix(i_, m.id)
    PROVE  m \in Asked!Discover(Asked!Scope(i_), held)
  <1>1. /\ m.file \in Asked!Files /\ m.id \in Seq(Alphabet)
        /\ Asked!Segment(m.file) \in Seq(Alphabet)
        /\ Asked!IsPrefix(Asked!Segment(m.file), m.id)
        /\ \E p \in Asked!Points(held[m.file]) : m = Mutant(held, m.file, p)
    BY MutantFacts
  <1> DEFINE s == Asked!Segment(m.file)
             w == m.id
  <1>2. s \in Seq(Alphabet) /\ w \in Seq(Alphabet)
    BY <1>1
  <1>3. m.id = i_ => Asked!IsPrefix(s, i_)
    BY <1>1
  <1>4. Asked!IsPrefix(i_, w) => Asked!IsPrefix(s, i_) \/ Asked!IsPrefix(i_, s)
    <2>1. ASSUME Asked!IsPrefix(i_, w)
          PROVE  Asked!IsPrefix(s, i_) \/ Asked!IsPrefix(i_, s)
      <3>1. Asked!IsPrefix(s, w)
        BY <1>1
      <3> HIDE DEF s, w
      <3>2. Len(s) \in Nat /\ Len(i_) \in Nat /\ Len(w) \in Nat
        BY <1>2, LenProperties
      <3>3. Len(s) <= Len(w) /\ \A n \in 1..Len(s) : s[n] = w[n]
        BY <1>2, <3>1, PrefixFacts
      <3>4. Len(i_) <= Len(w) /\ \A n \in 1..Len(i_) : i_[n] = w[n]
        BY <1>2, <2>1, PrefixFacts
      <3>5. CASE Len(s) <= Len(i_)
        <4>1. \A n \in 1..Len(s) : s[n] = i_[n]
          BY <3>2, <3>3, <3>4, <3>5
        <4> QED BY <1>2, <3>5, <4>1, PrefixFacts
      <3>6. CASE Len(i_) <= Len(s)
        <4>1. \A n \in 1..Len(i_) : i_[n] = s[n]
          BY <3>2, <3>3, <3>4, <3>6
        <4> QED BY <1>2, <3>6, <4>1, PrefixFacts
      <3> QED BY <3>2, <3>5, <3>6
    <2> QED BY <2>1
  <1>5. m.file \in Asked!Scope(i_)
    BY <1>1, <1>3, <1>4 DEF Asked!Scope
  <1> QED BY <1>1, <1>5, Discovered DEF Asked!Scope

LEMMA ScopeKeeps ==
    ASSUME NEW held \in Held, NEW i_ \in Seq(Alphabet)
    PROVE  Asked!FilterByStableID(Asked!Discover(Asked!Scope(i_), held), i_)
              = Asked!FilterByStableID(Asked!All(held), i_)
  <1> DEFINE D1 == Asked!Discover(Asked!Scope(i_), held)
             D2 == Asked!Discover(Asked!Files, held)
  <1>1. D1 \subseteq D2
    BY Discovered DEF Asked!Scope
  <1>2. \A m \in D2 : (m.id = i_ \/ Asked!IsPrefix(i_, m.id)) => m \in D1
    BY InScope
  <1> HIDE DEF D1, D2
  <1>3. {m \in D1 : m.id = i_} = {m \in D2 : m.id = i_}
    BY <1>1, <1>2
  <1>4. {m \in D1 : Asked!IsPrefix(i_, m.id)} = {m \in D2 : Asked!IsPrefix(i_, m.id)}
    BY <1>1, <1>2
  <1>5. Asked!Matches(D1, i_) = Asked!Matches(D2, i_)
    BY <1>3, <1>4 DEF Asked!Matches
  <1>6. Asked!FilterByStableID(D1, i_) = Asked!FilterByStableID(D2, i_)
    BY <1>5 DEF Asked!FilterByStableID
  <1> QED BY <1>6 DEF D1, D2, Asked!All

LEMMA FilteredIsOne ==
    ASSUME NEW M, NEW i_, Asked!FilterByStableID(M, i_) # Asked!NoMutant
    PROVE  Asked!FilterByStableID(M, i_) \in M
  <1> DEFINE found_ == Asked!Matches(M, i_)
  <1>1. found_ \subseteq M
    BY DEF Asked!Matches
  <1>2. Asked!Cardinality(found_) = 1
    BY DEF Asked!FilterByStableID
  <1>3. found_ # {}
    BY <1>2, SameCardinality, FS_EmptySet
  <1>4. Asked!FilterByStableID(M, i_) = CHOOSE m \in found_ : TRUE
    BY <1>2 DEF Asked!FilterByStableID
  <1> HIDE DEF found_
  <1> QED BY <1>1, <1>3, <1>4

LEMMA WholeIds ==
    ASSUME NEW held \in Held, NEW m \in Asked!All(held)
    PROVE  Asked!FilterByStableID(Asked!All(held), m.id) = m
  <1> DEFINE D2 == Asked!Discover(Asked!Files, held)
             exact == {n \in D2 : n.id = m.id}
  <1>1. D2 = Asked!All(held) /\ m \in D2
    BY DEF Asked!All
  <1>2. exact = {m}
    BY <1>1, SameMutant
  <1> HIDE DEF D2
  <1>3. Asked!Matches(D2, m.id) = {m}
    BY <1>2 DEF Asked!Matches
  <1>4. Asked!Cardinality({m}) = 1
    BY SameCardinality, FS_Singleton
  <1> QED BY <1>1, <1>3, <1>4 DEF Asked!FilterByStableID

-----------------------------------------------------------------------------
(* Target: a function keeps its ids when others change.  An anchor is one  *)
(* function's own, so an ordinal counts points of its body only.           *)
LEMMA OccurrencesDiffer ==
    ASSUME NEW f \in Asked!Files, NEW decls \in Contents[f],
           NEW d \in 1..Len(decls), NEW e \in 1..Len(decls),
           decls[d].name = decls[e].name, d < e
    PROVE  Asked!Occurrence(decls, d) < Asked!Occurrence(decls, e)
  <1> DEFINE S == {n \in 1..d : decls[n].name = decls[d].name}
             T == {n \in 1..e : decls[n].name = decls[e].name}
  <1>1. Len(decls) \in Nat
    BY TargetConstants, LenProperties
  <1>2. d \in Nat /\ e \in Nat /\ e \in T /\ e \notin S /\ S \subseteq T
    BY <1>1
  <1>3. IsFiniteSet(T)
    <2>1. IsFiniteSet(1..e)
      BY <1>2, FS_Interval
    <2> QED BY <2>1, FS_Subset
  <1>4. /\ IsFiniteSet(S) /\ Cardinality(S) <= Cardinality(T)
        /\ Cardinality(S) = Cardinality(T) => S = T
    BY <1>2, <1>3, FS_Subset
  <1>5. Cardinality(S) \in Nat /\ Cardinality(T) \in Nat
    BY <1>3, <1>4, FS_CardinalityType
  <1>6. /\ Asked!Occurrence(decls, d) = Cardinality(S)
        /\ Asked!Occurrence(decls, e) = Cardinality(T)
    BY SameCardinality DEF Asked!Occurrence
  <1> HIDE DEF S, T
  <1> QED BY <1>2, <1>4, <1>5, <1>6

LEMMA AnchorOfNamed ==
    ASSUME NEW f \in Asked!Files, NEW decls \in Contents[f], NEW d \in 1..Len(decls),
           decls[d].name # Asked!Blank
    PROVE  /\ Len(Asked!Anchor(decls, d)) > 0 /\ Asked!Anchor(decls, d)[1] = decls[d].name
           /\ (Asked!Occurrence(decls, d) = 1) <=> (Len(Asked!Anchor(decls, d)) = 1)
           /\ Asked!Occurrence(decls, d) # 1 =>
                 MadeOf(Marks, Asked!Anchor(decls, d), <<decls[d].name, "~">>,
                        Digits[Asked!Occurrence(decls, d)])
  <1> DEFINE n == Asked!Occurrence(decls, d)
             anchor == Asked!Anchor(decls, d)
             mark == <<decls[d].name, "~">>
  <1> SUFFICES /\ Len(anchor) > 0 /\ anchor[1] = decls[d].name
               /\ (n = 1) <=> (Len(anchor) = 1)
               /\ n # 1 => MadeOf(Marks, anchor, mark, Digits[n])
    OBVIOUS
  <1>1. decls[d].name \in Marks
    <2>1. decls \in Seq(Asked!Decls)
      BY TargetConstants
    <2>2. decls[d] \in Asked!Decls
      BY <2>1, ElementOfSeq
    <2> QED BY <2>2, TargetConstants, SymbolFacts DEF Asked!Decls
  <1>2. CASE n = 1
    <2>1. anchor = <<decls[d].name>>
      BY <1>2 DEF Asked!Anchor
    <2> QED BY <1>2, <2>1
  <1>3. CASE n # 1
    <2>1. anchor = mark \o Digits[n]
      BY <1>3 DEF Asked!Anchor
    <2>2. Digits[n] \in Seq(Marks)
      <3>1. n \in 1..Len(Digits)
        BY OccurrenceBound, TargetConstants, LenProperties
      <3>2. Digits[n] \in Seq(Asked!Symbols)
        BY <3>1, TargetConstants, ElementOfSeq
      <3> QED BY <3>2, SymbolFacts, SeqMonotonic
    <2>3. mark \in Seq(Marks) /\ Len(mark) = 2 /\ mark[1] = decls[d].name
      BY <1>1, SymbolFacts
    <2> HIDE DEF n, anchor, mark
    <2>4. MadeOf(Marks, anchor, mark, Digits[n])
      BY <2>1, <2>2, <2>3, Concatenation
    <2>5. Len(anchor) \in Nat /\ Len(anchor) > 1 /\ anchor[1] = decls[d].name
      BY <2>3, <2>4 DEF MadeOf
    <2>6. Len(anchor) > 0 /\ Len(anchor) # 1
      <3>1. \A l \in Nat : l > 1 => l > 0 /\ l # 1
        OBVIOUS
      <3> QED BY <2>5, <3>1, Zenon
    <2>7. n # 1 /\ anchor[1] = decls[d].name
      BY <1>3, <2>5, Zenon
    <2> QED BY <2>4, <2>6, <2>7, Zenon
  <1> QED BY <1>2, <1>3

LEMMA OwnAnchor ==
    ASSUME NEW f \in Asked!Files, NEW decls \in Contents[f],
           NEW d \in 1..Len(decls), NEW e \in 1..Len(decls),
           decls[d].name # Asked!Blank,
           Asked!Anchor(decls, d) = Asked!Anchor(decls, e)
    PROVE  d = e
  <1> DEFINE m == Asked!Occurrence(decls, d)
             n == Asked!Occurrence(decls, e)
             anchor == Asked!Anchor(decls, d)
  <1>1. Len(anchor) > 0 /\ anchor[1] = decls[d].name
    BY AnchorOfNamed
  <1>2. decls[e].name # Asked!Blank
    <2> SUFFICES ASSUME decls[e].name = Asked!Blank PROVE FALSE
      OBVIOUS
    <2>1. Asked!Anchor(decls, e) = <<>>
      BY DEF Asked!Anchor
    <2>2. anchor = <<>>
      BY <2>1
    <2> HIDE DEF anchor
    <2> QED BY <1>1, <2>2
  <1>3. decls[e].name = decls[d].name
    BY <1>1, <1>2, AnchorOfNamed
  <1>4. m = n
    <2>1. m = 1 <=> n = 1
      BY <1>2, AnchorOfNamed
    <2>2. ASSUME m # 1, n # 1 PROVE m = n
      <3> DEFINE mark == <<decls[d].name, "~">>
      <3>1. MadeOf(Marks, anchor, mark, Digits[m]) /\ MadeOf(Marks, anchor, mark, Digits[n])
        BY <1>2, <1>3, <2>2, AnchorOfNamed
      <3>2. m \in DOMAIN Digits /\ n \in DOMAIN Digits
        BY OccurrenceBound
      <3>3. Digits[m] \in Seq(Asked!Symbols) /\ Digits[n] \in Seq(Asked!Symbols)
        BY <3>2, TargetConstants, LenProperties, ElementOfSeq
      <3> HIDE DEF m, n, anchor, mark
      <3>4. /\ Len(Digits[m]) = Len(Digits[n])
            /\ \A k \in 1..Len(Digits[m]) : Digits[m][k] = Digits[n][k]
        BY <3>1 DEF MadeOf
      <3>5. Digits[m] = Digits[n]
        BY <3>3, <3>4, SeqEqual
      <3> QED BY <3>2, <3>5, TargetConstants
    <2> QED BY <2>1, <2>2
  <1>5. m \in Nat /\ Len(decls) \in Nat
    BY OccurrenceBound, TargetConstants, LenProperties
  <1>6. ~(d < e) /\ ~(e < d)
    BY <1>3, <1>4, <1>5, OccurrencesDiffer
  <1> QED BY <1>5, <1>6

OrdinalIn(body, k) ==
    Cardinality({j \in DOMAIN body : j <= k /\ body[j].type = body[k].type})

LEMMA OrdinalInBody ==
    ASSUME NEW f \in Asked!Files, NEW decls \in Contents[f], NEW d \in DOMAIN decls,
           decls[d].name # Asked!Blank, NEW k \in DOMAIN decls[d].body
    PROVE  Asked!Ordinal(decls, <<d, k>>) = OrdinalIn(decls[d].body, k)
  <1> DEFINE p == <<d, k>>
             J == {j \in DOMAIN decls[d].body :
                     j <= k /\ decls[d].body[j].type = decls[d].body[k].type}
             C == Counted(decls, p)
             h == [q \in C |-> q[2]]
  <1> SUFFICES Asked!Ordinal(decls, p) = Cardinality(J)
    BY DEF OrdinalIn
  <1>1. p \in Asked!Points(decls)
    BY DEF Asked!Points
  <1>2. /\ IsFiniteSet(C) /\ Asked!Ordinal(decls, p) = Cardinality(C)
    BY <1>1, CountedFacts
  <1>3. d \in 1..Len(decls) /\ d \in Nat /\ k \in Nat
    BY <1>1, PointFacts
  <1>4. ASSUME NEW q \in C PROVE q = <<d, q[2]>> /\ q[2] \in J
    <2>1. /\ q \in Asked!Points(decls) /\ Asked!Before(q, p)
          /\ Asked!Anchor(decls, q[1]) = Asked!Anchor(decls, d)
          /\ Asked!Point(decls, q).type = decls[d].body[k].type
      BY DEF Counted, Asked!Point
    <2>2. q[1] \in 1..Len(decls) /\ q[2] \in Nat /\ q = <<q[1], q[2]>>
      BY <2>1, PointFacts
    <2>3. q[1] = d
      BY <1>3, <2>1, <2>2, OwnAnchor
    <2>4. q[2] <= k
      BY <1>3, <2>1, <2>2, <2>3 DEF Asked!Before
    <2>5. q[2] \in DOMAIN decls[d].body
      BY <2>1, <2>2, <2>3 DEF Asked!Points
    <2> QED BY <2>1, <2>2, <2>3, <2>4, <2>5 DEF Asked!Point
  <1>5. ASSUME NEW j \in J PROVE <<d, j>> \in C
    BY <1>3, <1>1 DEF Counted, Asked!Points, Asked!Before, Asked!Point
  <1> HIDE DEF C, J, p
  <1>6. h \in [C -> J]
    BY <1>4
  <1>7. \A j \in J : h[<<d, j>>] = j
    BY <1>5
  <1>8. h \in Surjection(C, J)
    BY <1>5, <1>6, <1>7 DEF Surjection
  <1>9. [j \in J |-> <<d, j>>] \in Surjection(J, C)
    <2>1. \A q \in C : q[2] \in J /\ q = <<d, q[2]>>
      BY <1>4
    <2> QED BY <1>5, <2>1 DEF Surjection
  <1>10. Cardinality(C) = Cardinality(J)
    <2> HIDE DEF h
    <2>1. IsFiniteSet(J) /\ Cardinality(J) <= Cardinality(C)
      BY <1>2, <1>8, FS_Surjection
    <2>2. Cardinality(C) <= Cardinality(J)
      BY <1>9, <2>1, FS_Surjection
    <2>3. Cardinality(C) \in Nat /\ Cardinality(J) \in Nat
      BY <1>2, <2>1, FS_CardinalityType
    <2> QED BY <2>1, <2>2, <2>3
  <1> QED BY <1>2, <1>10

LEMMA AlikeIds ==
    ASSUME NEW f \in Asked!Files, NEW decls \in Contents[f], NEW others \in Contents[f],
           NEW d \in DOMAIN decls, NEW e \in DOMAIN others, decls[d].name # Asked!Blank,
           Asked!Alike(decls, d, others, e), NEW k \in DOMAIN decls[d].body
    PROVE  Asked!StableID(f, decls, <<d, k>>) = Asked!StableID(f, others, <<e, k>>)
  <1>1. /\ others[e].name = decls[d].name /\ others[e].body = decls[d].body
        /\ Asked!Occurrence(others, e) = Asked!Occurrence(decls, d)
    BY DEF Asked!Alike
  <1>2. Asked!Anchor(decls, d) = Asked!Anchor(others, e)
    BY <1>1 DEF Asked!Anchor
  <1>3. Asked!Ordinal(decls, <<d, k>>) = Asked!Ordinal(others, <<e, k>>)
    BY <1>1, OrdinalInBody
  <1>4. Asked!Point(decls, <<d, k>>).type = Asked!Point(others, <<e, k>>).type
    BY <1>1 DEF Asked!Point
  <1> QED BY <1>2, <1>3, <1>4 DEF Asked!StableID

LEMMA IdsKept ==
    ASSUME NEW before \in Held, NEW after \in Held, NEW f \in Asked!Files,
           NEW d \in DOMAIN before[f], NEW e \in DOMAIN after[f],
           before[f][d].name # Asked!Blank, Asked!Alike(before[f], d, after[f], e)
    PROVE  Asked!IdsIn(before, f, d) = Asked!IdsIn(after, f, e)
  <1>1. before[f] \in Contents[f] /\ after[f] \in Contents[f]
    BY DEF Held
  <1>2. before[f][d].body = after[f][e].body
    BY DEF Asked!Alike
  <1>3. ASSUME NEW held \in Held, NEW n \in DOMAIN held[f], NEW one
        PROVE  one \in Asked!IdsIn(held, f, n) <=>
                 \E k \in DOMAIN held[f][n].body : one = Asked!StableID(f, held[f], <<n, k>>)
    <2>1. \A k \in DOMAIN held[f][n].body : <<n, k>> \in Asked!Points(held[f])
      BY DEF Asked!Points
    <2>2. ASSUME NEW q \in Asked!Points(held[f]), q[1] = n
          PROVE  q[2] \in DOMAIN held[f][n].body /\ q = <<n, q[2]>>
      BY <2>2 DEF Asked!Points
    <2>3. one \in Asked!IdsIn(held, f, n) <=>
             \E q \in Asked!Points(held[f]) : q[1] = n /\ one = Asked!StableID(f, held[f], q)
      BY DEF Asked!IdsIn
    <2> QED BY <2>1, <2>2, <2>3
  <1>4. \A k \in DOMAIN before[f][d].body :
           Asked!StableID(f, before[f], <<d, k>>) = Asked!StableID(f, after[f], <<e, k>>)
    BY <1>1, AlikeIds
  <1>5. ASSUME NEW one
        PROVE  one \in Asked!IdsIn(before, f, d) <=> one \in Asked!IdsIn(after, f, e)
    <2>1. one \in Asked!IdsIn(before, f, d) <=>
             \E k \in DOMAIN before[f][d].body : one = Asked!StableID(f, before[f], <<d, k>>)
      BY <1>3
    <2>2. one \in Asked!IdsIn(after, f, e) <=>
             \E k \in DOMAIN after[f][e].body : one = Asked!StableID(f, after[f], <<e, k>>)
      BY <1>3
    <2> QED BY <1>2, <1>4, <2>1, <2>2
  <1>6. /\ Asked!IdsIn(before, f, d) \subseteq Asked!IdsIn(after, f, e)
        /\ Asked!IdsIn(after, f, e) \subseteq Asked!IdsIn(before, f, d)
    BY <1>5
  <1> QED BY <1>6

-----------------------------------------------------------------------------
(* Target: what is known of the mutant checked, at each stage.             *)
Holding ==
    /\ stage \in {"start", "checked", "found", "usage", "failed"}
    /\ src \in Held /\ asked \in Held /\ id \in Seq(Alphabet)
    /\ stage = "start" => src = asked

CheckedFirst ==
    IF stage \in {"checked", "found", "failed"}
    THEN /\ early = Asked!FilterByStableID(Asked!Discover(Asked!Scope(id), asked), id)
         /\ Asked!Accepted(early)
    ELSE early = Asked!NoMutant

Retained ==
    IF stage = "found"
    THEN target = Asked!Resolved /\ target # Asked!NoMutant
         /\ Asked!SameRunTarget(target) /\ target.keep
    ELSE target = Asked!NoMutant

OnlyEditsFail == stage = "failed" => src # asked

IdsIInv == Holding /\ CheckedFirst /\ Retained /\ OnlyEditsFail

LEMMA IdsInit == Asked!Init => IdsIInv
  <1> SUFFICES ASSUME Asked!Init PROVE IdsIInv
    OBVIOUS
  <1>1. /\ stage = "start" /\ early = Asked!NoMutant /\ target = Asked!NoMutant
        /\ src \in Held /\ asked = src
    BY DEF Asked!Init, Held
  <1>2. id \in Seq(Alphabet)
    <2>1. CASE id = <<"unknown">>
      BY <2>1, SymbolFacts
    <2>2. CASE id \in Asked!Asks(src)
      <3>1. PICK m \in Asked!Discover(Asked!Files, src) :
                 \E n \in 1..Len(m.id) : id = SubSeq(m.id, 1, n)
        BY <2>2 DEF Asked!Asks
      <3>2. PICK n \in 1..Len(m.id) : id = SubSeq(m.id, 1, n)
        BY <3>1
      <3>3. m.id \in Seq(Alphabet)
        BY <1>1, MutantFacts
      <3>4. Len(m.id) \in Nat /\ \A k \in 1..n : m.id[k] \in Alphabet
        BY <3>2, <3>3, LenProperties, ElementOfSeq
      <3>5. SubSeq(m.id, 1, n) \in Seq(Alphabet)
        BY <3>2, <3>4, SubSeqProperties
      <3> QED BY <3>2, <3>5
    <2> QED BY <2>1, <2>2 DEF Asked!Init
  <1> QED BY <1>1, <1>2 DEF IdsIInv, Holding, CheckedFirst, Retained, OnlyEditsFail

LEMMA CheckKeeps == IdsIInv /\ Asked!CheckRunMutantID => IdsIInv'
  <1> SUFFICES ASSUME IdsIInv, Asked!CheckRunMutantID PROVE IdsIInv'
    OBVIOUS
  <1> USE DEF IdsIInv
  <1>1. stage = "start" /\ UNCHANGED <<id, src, target, asked>>
    BY DEF Asked!CheckRunMutantID
  <1>2. src = asked /\ early = Asked!NoMutant /\ target = Asked!NoMutant
    BY <1>1 DEF Holding, CheckedFirst, Retained
  <1>3. \/ stage' = "checked" /\ Asked!Accepted(Asked!Resolved) /\ early' = Asked!Resolved
        \/ stage' = "usage" /\ early' = early
    BY DEF Asked!CheckRunMutantID
  <1>4. Holding'
    BY <1>1, <1>3 DEF Holding
  <1>5. CheckedFirst'
    BY <1>1, <1>2, <1>3 DEF CheckedFirst, Asked!Resolved, Asked!Accepted
  <1>6. Retained' /\ OnlyEditsFail'
    BY <1>1, <1>2, <1>3 DEF Retained, OnlyEditsFail
  <1> QED BY <1>4, <1>5, <1>6

LEMMA EditKeeps == IdsIInv /\ Asked!Edit => IdsIInv'
  <1> SUFFICES ASSUME IdsIInv, Asked!Edit PROVE IdsIInv'
    OBVIOUS
  <1> USE DEF IdsIInv
  <1>1. stage = "checked" /\ UNCHANGED <<stage, id, early, target, asked>>
    BY DEF Asked!Edit
  <1>2. PICK f \in Asked!Files : \E content \in Contents[f] : src' = [src EXCEPT ![f] = content]
    BY DEF Asked!Edit
  <1>3. PICK content \in Contents[f] : src' = [src EXCEPT ![f] = content]
    BY <1>2
  <1>4. src' \in Held
    <2>1. src \in Held
      BY DEF Holding
    <2> QED BY <1>3, <2>1 DEF Held
  <1>5. Holding'
    BY <1>1, <1>4 DEF Holding
  <1>6. CheckedFirst'
    BY <1>1 DEF CheckedFirst, Asked!Accepted
  <1>7. Retained' /\ OnlyEditsFail'
    BY <1>1 DEF Retained, OnlyEditsFail
  <1> QED BY <1>5, <1>6, <1>7

LEMMA DiscoverKeeps == IdsIInv /\ Asked!DiscoverMutants => IdsIInv'
  <1> SUFFICES ASSUME IdsIInv, Asked!DiscoverMutants PROVE IdsIInv'
    OBVIOUS
  <1> USE DEF IdsIInv
  <1>1. stage = "checked" /\ UNCHANGED <<id, src, early, asked>>
    BY DEF Asked!DiscoverMutants
  <1>2. \/ /\ stage' = "found" /\ target' = Asked!Resolved
           /\ Asked!Resolved # Asked!NoMutant
           /\ Asked!SameRunTarget(Asked!Resolved) /\ Asked!Resolved.keep
        \/ /\ stage' = "failed" /\ target' = target
           /\ ~(/\ Asked!Resolved # Asked!NoMutant
                /\ Asked!SameRunTarget(Asked!Resolved) /\ Asked!Resolved.keep)
    BY DEF Asked!DiscoverMutants
  <1>3. /\ early = Asked!FilterByStableID(Asked!Discover(Asked!Scope(id), asked), id)
        /\ Asked!Accepted(early) /\ target = Asked!NoMutant
    BY <1>1 DEF CheckedFirst, Retained
  <1>4. Holding'
    BY <1>1, <1>2 DEF Holding
  <1>5. CheckedFirst'
    BY <1>1, <1>2, <1>3 DEF CheckedFirst, Asked!Accepted
  <1>6. Retained'
    BY <1>1, <1>2, <1>3 DEF Retained, Asked!Resolved, Asked!SameRunTarget
  <1>7. OnlyEditsFail'
    BY <1>1, <1>2, <1>3 DEF OnlyEditsFail, Asked!Resolved, Asked!SameRunTarget, Asked!Accepted
  <1> QED BY <1>4, <1>5, <1>6, <1>7

LEMMA IdsStepKeeps == IdsIInv /\ [Asked!Next]_(Asked!vars) => IdsIInv'
  <1> SUFFICES ASSUME IdsIInv, [Asked!Next]_(Asked!vars) PROVE IdsIInv'
    OBVIOUS
  <1>1. CASE UNCHANGED Asked!vars
    BY <1>1 DEF Asked!vars, IdsIInv, Holding, CheckedFirst, Retained, OnlyEditsFail,
                Asked!Accepted, Asked!Resolved, Asked!SameRunTarget
  <1>2. CASE Asked!Next
    BY <1>1, <1>2, CheckKeeps, EditKeeps, DiscoverKeeps DEF Asked!Next, Asked!Done
  <1> QED BY <1>1, <1>2

IdsStay ==
    \A f \in Asked!Files : \A d \in DOMAIN src[f] : \A e \in DOMAIN src'[f] :
       src[f][d].name # Asked!Blank /\ Asked!Alike(src[f], d, src'[f], e) =>
          Asked!IdsIn(src, f, d) = Asked!IdsIn(src', f, e)

LEMMA IdsStepStays == IdsIInv /\ [Asked!Next]_(Asked!vars) => IdsStay
  <1> SUFFICES ASSUME IdsIInv, [Asked!Next]_(Asked!vars) PROVE IdsStay
    OBVIOUS
  <1>1. src \in Held /\ src' \in Held
    BY IdsStepKeeps DEF IdsIInv, Holding
  <1> QED BY <1>1, IdsKept DEF IdsStay

LEMMA IdsResult == IdsIInv => Asked!TargetInv /\ Asked!MeasuresTheOneAsked
  <1> SUFFICES ASSUME IdsIInv PROVE Asked!TargetInv /\ Asked!MeasuresTheOneAsked
    OBVIOUS
  <1> USE DEF IdsIInv
  <1>1. src \in Held /\ asked \in Held /\ id \in Seq(Alphabet)
    BY DEF Holding
  <1>2. Asked!TypeOK
    <2>1. \A f \in Asked!Files : src[f] \in Contents[f]
      BY <1>1 DEF Held
    <2>2. early # Asked!NoMutant <=> stage \in {"checked", "found", "failed"}
      BY DEF CheckedFirst, Asked!Accepted
    <2>3. target # Asked!NoMutant <=> stage = "found"
      BY DEF Retained
    <2> QED BY <2>1, <2>2, <2>3 DEF Asked!TypeOK, Holding
  <1>3. Asked!IdsAreUnique
    <2> SUFFICES ASSUME NEW m \in Asked!All(src), NEW n \in Asked!All(src), m.id = n.id
                 PROVE  m.at = n.at /\ m.file = n.file
      BY DEF Asked!IdsAreUnique
    <2> QED BY <1>1, SameMutant DEF Asked!All
  <1>4. Asked!ScopeKeepsTheAnswer
    BY <1>1, ScopeKeeps DEF Asked!ScopeKeepsTheAnswer, Asked!Resolved
  <1>5. Asked!WholeIdsResolve
    BY <1>1, WholeIds DEF Asked!WholeIdsResolve
  <1>6. Asked!TargetInv
    BY <1>2, <1>3, <1>4, <1>5 DEF Asked!TargetInv
  <1>7. ASSUME stage = "found"
        PROVE  /\ Asked!FilterByStableID(Asked!All(src), id) = target
               /\ target = Asked!FilterByStableID(Asked!All(asked), id)
               /\ target.keep
    <2>1. /\ target = Asked!Resolved /\ target # Asked!NoMutant
          /\ target.id = early.id /\ target.at = early.at /\ target.code = early.code
          /\ target.keep
      BY <1>7 DEF Retained, Asked!SameRunTarget
    <2>2. target = Asked!FilterByStableID(Asked!All(src), id)
      BY <1>4, <2>1 DEF Asked!ScopeKeepsTheAnswer
    <2>3. early = Asked!FilterByStableID(Asked!All(asked), id)
      BY <1>1, <1>7, ScopeKeeps DEF CheckedFirst
    <2>4. early # Asked!NoMutant /\ early.keep
      BY <1>7 DEF CheckedFirst, Asked!Accepted
    <2>5. /\ target \in Asked!Discover(Asked!Files, src)
          /\ early \in Asked!Discover(Asked!Files, asked)
      BY <2>1, <2>2, <2>3, <2>4, FilteredIsOne DEF Asked!All
    <2>6. PICK p \in Asked!Points(src[target.file]) : target = Mutant(src, target.file, p)
      BY <1>1, <2>5, MutantFacts
    <2>7. PICK q \in Asked!Points(asked[early.file]) : early = Mutant(asked, early.file, q)
      BY <1>1, <2>5, MutantFacts
    <2>8. /\ target.file \in Asked!Files /\ early.file \in Asked!Files
          /\ src[target.file] \in Contents[target.file]
          /\ asked[early.file] \in Contents[early.file]
      BY <1>1, <2>5, MutantFacts DEF Held
    <2>9. Asked!StableID(target.file, src[target.file], p)
            = Asked!StableID(early.file, asked[early.file], q)
      BY <2>1, <2>6, <2>7 DEF Mutant
    <2>10. target.file = early.file
      BY <2>8, <2>9, SamePoint
    <2>11. target = early
      BY <1>1, <2>1, <2>4, <2>5, <2>10, MutantFacts
    <2> QED BY <2>1, <2>2, <2>3, <2>11
  <1>8. Asked!MeasuresTheOneAsked
    BY <1>7 DEF Asked!MeasuresTheOneAsked, OnlyEditsFail
  <1> QED BY <1>6, <1>8

-----------------------------------------------------------------------------
(* Closure, for any module, targets and import graphs: what the search     *)
(* returns is closed under importers, is the least such set, and no        *)
(* package is left out whose test binary links a target.                   *)

(* Every importer of a visited package is visited, or the search has still *)
(* to come to it.                                                          *)
Frontier ==
    \A p \in visited : \A q \in Module :
        p \in ModuleLocalImports(q) =>
            q \in visited \/ InSeq(p, queue) \/ (p = cur /\ q \in rest)

Shape ==
    /\ pc \in {"list", "seed", "search", "fallback", "returned"}
    /\ graph \in Graphs
    /\ seeded \in 0..Len(Targets)
    /\ visited \subseteq Module
    /\ queue \in Seq(Module)
    /\ rest \subseteq Module
    /\ patterns \subseteq Module
    /\ cur \in Module \cup {"none"}

Queued == \A p \in Module : InSeq(p, queue) => p \in visited

Waiting ==
    /\ \A q \in rest : cur \in visited /\ cur \in Needs(q)
    /\ pc \in {"list", "seed", "fallback"} => rest = {}

Seeds ==
    /\ \A k \in 1..seeded : Targets[k] \in visited
    /\ pc = "search" => seeded = Len(Targets)
    /\ pc \in {"list", "fallback"} => visited = {}

Least == \A S \in SUBSET Module : Closed(S) => visited \subseteq S

Result ==
    pc = "returned" =>
        \/ /\ visited = {} /\ patterns = Module
        \/ /\ patterns = visited /\ queue = <<>> /\ rest = {}
           /\ seeded = Len(Targets)

ClosureIInv ==
    Shape /\ Frontier /\ Queued /\ Waiting /\ Seeds /\ Least /\ Result

-----------------------------------------------------------------------------
LEMMA InAppend ==
    ASSUME NEW S, NEW s \in Seq(S), NEW e \in S, NEW y
    PROVE  InSeq(y, Append(s, e)) <=> InSeq(y, s) \/ y = e
  <1>1. Append(s, e) \in Seq(S) /\ Len(Append(s, e)) = Len(s) + 1
    OBVIOUS
  <1>2. Append(s, e)[Len(s) + 1] = e
    OBVIOUS
  <1>3. \A k \in 1..Len(s) : Append(s, e)[k] = s[k]
    OBVIOUS
  <1>4. DOMAIN Append(s, e) = 1..(Len(s) + 1) /\ DOMAIN s = 1..Len(s)
    OBVIOUS
  <1>5. Len(s) \in Nat
    OBVIOUS
  <1> QED
    BY <1>1, <1>2, <1>3, <1>4, <1>5 DEF InSeq

LEMMA InTail ==
    ASSUME NEW S, NEW s \in Seq(S), s # <<>>, NEW y
    PROVE  /\ Head(s) \in S /\ Tail(s) \in Seq(S)
           /\ InSeq(Head(s), s)
           /\ InSeq(y, s) <=> InSeq(y, Tail(s)) \/ y = Head(s)
  <1>1. Head(s) = s[1] /\ Len(s) \in Nat /\ Len(s) > 0
    OBVIOUS
  <1>2. Tail(s) \in Seq(S) /\ Len(Tail(s)) = Len(s) - 1
    OBVIOUS
  <1>3. \A k \in 1..(Len(s) - 1) : Tail(s)[k] = s[k + 1]
    OBVIOUS
  <1>4. DOMAIN Tail(s) = 1..(Len(s) - 1) /\ DOMAIN s = 1..Len(s)
    BY <1>1, <1>2
  <1>5. Head(s) \in S /\ InSeq(Head(s), s)
    BY <1>1, <1>4 DEF InSeq
  <1>6. InSeq(y, s) => InSeq(y, Tail(s)) \/ y = Head(s)
    <2> SUFFICES ASSUME NEW k \in 1..Len(s), s[k] = y, k # 1
                 PROVE  InSeq(y, Tail(s))
      BY <1>1, <1>4 DEF InSeq
    <2>1. k - 1 \in 1..(Len(s) - 1) /\ Tail(s)[k - 1] = s[k]
      BY <1>1, <1>3
    <2> QED
      BY <1>4, <2>1 DEF InSeq
  <1>7. InSeq(y, Tail(s)) => InSeq(y, s)
    <2> SUFFICES ASSUME NEW k \in 1..(Len(s) - 1), Tail(s)[k] = y
                 PROVE  InSeq(y, s)
      BY <1>4 DEF InSeq
    <2>1. k + 1 \in 1..Len(s) /\ Tail(s)[k] = s[k + 1]
      BY <1>1, <1>3
    <2> QED
      BY <1>4, <2>1 DEF InSeq
  <1> QED
    BY <1>2, <1>5, <1>6, <1>7

LEMMA InEmpty == \A y : ~InSeq(y, <<>>)
  BY DEF InSeq

LEMMA TargetsInModule ==
    /\ Len(Targets) \in Nat
    /\ \A k \in 1..Len(Targets) : Targets[k] \in TargetSet
    /\ TargetSet \subseteq Module
  <1>1. Len(Targets) \in Nat /\ DOMAIN Targets = 1..Len(Targets)
    BY TargetsAssumption
  <1>2. \A k \in 1..Len(Targets) : Targets[k] \in Module
    BY TargetsAssumption
  <1> QED
    BY <1>1, <1>2 DEF TargetSet, InSeq

(* moduleLocalImports are the module's part of what a package needs.       *)
LEMMA LocalNeeds ==
    \A q : \A p \in Module : p \in ModuleLocalImports(q) <=> p \in Needs(q)
  BY DEF ModuleLocalImports, Needs

-----------------------------------------------------------------------------
LEMMA ClosureInit == Init => ClosureIInv
  <1> SUFFICES ASSUME Init PROVE ClosureIInv
    OBVIOUS
  <1>1. Shape
    BY TargetsInModule DEF Init, Shape
  <1>2. Queued
    BY InEmpty DEF Init, Queued
  <1> QED
    BY <1>1, <1>2 DEF Init, ClosureIInv, Frontier, Waiting, Seeds, Least, Result

(* What a package joins the visited with keeps the visited least, if every *)
(* closed set has it.                                                      *)
LEMMA EnqueueKeeps ==
    ASSUME NEW p \in Module, Enqueue(p), UNCHANGED graph,
           visited \subseteq Module, queue \in Seq(Module), Queued, Least,
           \A S \in SUBSET Module : Closed(S) => p \in S
    PROVE  /\ visited' = visited \cup {p}
           /\ queue' \in Seq(Module)
           /\ \A q : InSeq(q, queue') <=>
                         InSeq(q, queue) \/ (q = p /\ p \notin visited)
           /\ Queued' /\ Least'
  <1>1. CASE p \in visited
    <2>1. visited' = visited /\ queue' = queue
      BY <1>1 DEF Enqueue
    <2>2. Queued'
      BY <2>1 DEF Queued, InSeq
    <2>3. Least'
      BY <2>1 DEF Least, Closed, Needs
    <2> QED
      BY <1>1, <2>1, <2>2, <2>3
  <1>2. CASE p \notin visited
    <2>1. visited' = visited \cup {p} /\ queue' = Append(queue, p)
      BY <1>2 DEF Enqueue
    <2>2. \A q : InSeq(q, queue') <=> InSeq(q, queue) \/ q = p
      BY <2>1, InAppend
    <2>3. queue' \in Seq(Module)
      BY <2>1
    <2>4. Queued'
      BY <2>1, <2>2 DEF Queued
    <2>5. Least'
      <3>1. \A S \in SUBSET Module : Closed(S)' => Closed(S)
        BY DEF Closed, Needs
      <3> QED
        BY <2>1, <3>1 DEF Least
    <2> QED
      BY <1>2, <2>1, <2>2, <2>3, <2>4, <2>5
  <1> QED
    BY <1>1, <1>2

LEMMA SeedStep == ClosureIInv /\ Seed => ClosureIInv'
  <1> SUFFICES ASSUME ClosureIInv, Seed PROVE ClosureIInv'
    OBVIOUS
  <1> DEFINE p == Targets[seeded + 1]
  <1> USE DEF ClosureIInv
  <1>1. /\ p \in TargetSet /\ p \in Module /\ seeded + 1 \in 1..Len(Targets)
        /\ seeded \in Nat
    BY TargetsInModule DEF Seed, Shape
  <1>2. /\ visited' = visited \cup {p}
        /\ queue' \in Seq(Module)
        /\ \A q : InSeq(q, queue') <=>
                      InSeq(q, queue) \/ (q = p /\ p \notin visited)
        /\ Queued' /\ Least'
    <2>1. \A S \in SUBSET Module : Closed(S) => p \in S
      BY <1>1 DEF Closed
    <2>2. Enqueue(p) /\ UNCHANGED graph
      BY DEF Seed
    <2> HIDE DEF p
    <2> QED
      BY <1>1, <2>1, <2>2, EnqueueKeeps DEF Shape
  <1> HIDE DEF p
  <1>3. Shape'
    BY <1>1, <1>2 DEF Seed, Shape
  <1>4. Frontier'
    <2> SUFFICES ASSUME NEW m \in visited', NEW q \in Module',
                        (m \in ModuleLocalImports(q))'
                 PROVE  (q \in visited \/ InSeq(m, queue) \/ (m = cur /\ q \in rest))'
      BY DEF Frontier
    <2>1. m \in ModuleLocalImports(q)
      BY DEF ModuleLocalImports, Seed
    <2> QED
      BY <1>2, <2>1 DEF Frontier, Seed
  <1>5. Waiting'
    BY DEF Seed, Waiting
  <1>6. Seeds'
    <2>1. Targets[seeded'] = p /\ seeded' = seeded + 1
      BY DEF p, Seed
    <2>2. \A k \in 1..seeded' : Targets[k] \in visited'
      BY <1>1, <1>2, <2>1 DEF Seeds
    <2> QED
      BY <2>2 DEF Seeds, Seed
  <1>7. Result'
    BY DEF Seed, Result
  <1> QED
    BY <1>2, <1>3, <1>4, <1>5, <1>6, <1>7

LEMMA DequeueStep == ClosureIInv /\ Dequeue => ClosureIInv'
  <1> SUFFICES ASSUME ClosureIInv, Dequeue PROVE ClosureIInv'
    OBVIOUS
  <1> USE DEF ClosureIInv
  <1>1. /\ cur' \in Module /\ queue' \in Seq(Module)
        /\ InSeq(cur', queue)
        /\ \A y : InSeq(y, queue) <=> InSeq(y, queue') \/ y = cur'
    BY InTail DEF Dequeue, Shape
  <1>2. cur' \in visited /\ visited' = visited /\ graph' = graph
    BY <1>1 DEF Queued, Dequeue
  <1>3. \A q : q \in rest' <=> q \in Module /\ cur' \in ModuleLocalImports(q)
    BY DEF Dequeue, Importers
  <1>4. Shape'
    BY <1>1, <1>2, <1>3 DEF Dequeue, Shape
  <1>5. Frontier'
    <2> SUFFICES ASSUME NEW m \in visited', NEW q \in Module',
                        (m \in ModuleLocalImports(q))'
                 PROVE  (q \in visited \/ InSeq(m, queue) \/ (m = cur /\ q \in rest))'
      BY DEF Frontier
    <2>1. m \in ModuleLocalImports(q) /\ rest = {}
      BY <1>2 DEF ModuleLocalImports, Dequeue
    <2> QED
      BY <1>1, <1>2, <1>3, <2>1 DEF Frontier
  <1>6. Queued'
    BY <1>1, <1>2 DEF Queued
  <1>7. Waiting'
    <2>1. \A q \in rest' : cur' \in Needs(q)
      BY <1>1, <1>3, LocalNeeds
    <2> QED
      BY <1>2, <2>1 DEF Dequeue, Waiting, Needs
  <1>8. Seeds'
    BY DEF Dequeue, Seeds
  <1>9. Least'
    BY <1>2 DEF Least, Closed, Needs
  <1>10. Result'
    BY DEF Dequeue, Result
  <1> QED
    BY <1>4, <1>5, <1>6, <1>7, <1>8, <1>9, <1>10

LEMMA LookStep == ClosureIInv /\ Look => ClosureIInv'
  <1> SUFFICES ASSUME ClosureIInv, Look PROVE ClosureIInv'
    OBVIOUS
  <1> USE DEF ClosureIInv
  <1> PICK p \in rest : rest' = rest \ {p} /\ Enqueue(p)
    BY DEF Look
  <1>1. /\ p \in Module /\ cur \in visited /\ cur \in Needs(p)
        /\ UNCHANGED <<pc, graph, seeded, cur, patterns>>
    BY DEF Shape, Waiting, Look
  <1>2. /\ visited' = visited \cup {p}
        /\ queue' \in Seq(Module)
        /\ \A q : InSeq(q, queue') <=>
                      InSeq(q, queue) \/ (q = p /\ p \notin visited)
        /\ Queued' /\ Least'
    <2>1. \A S \in SUBSET Module : Closed(S) => p \in S
      BY <1>1 DEF Closed, Least
    <2> QED
      BY <1>1, <2>1, EnqueueKeeps DEF Shape
  <1>3. Shape'
    BY <1>1, <1>2 DEF Shape
  <1>4. Frontier'
    <2> SUFFICES ASSUME NEW m \in visited', NEW q \in Module',
                        (m \in ModuleLocalImports(q))'
                 PROVE  (q \in visited \/ InSeq(m, queue) \/ (m = cur /\ q \in rest))'
      BY DEF Frontier
    <2>1. m \in ModuleLocalImports(q)
      BY <1>1 DEF ModuleLocalImports
    <2>2. CASE m \in visited
      BY <1>1, <1>2, <2>1, <2>2 DEF Frontier
    <2>3. CASE m \notin visited
      BY <1>2, <2>3
    <2> QED
      BY <2>2, <2>3
  <1>5. Waiting'
    BY <1>1, <1>2 DEF Waiting, Look, Needs
  <1>6. Seeds'
    BY <1>1, <1>2 DEF Seeds, Look
  <1>7. Result'
    BY <1>1 DEF Result, Look
  <1> QED
    BY <1>2, <1>3, <1>4, <1>5, <1>6, <1>7

(* The steps that leave the graph and the search as they are.              *)
LEMMA OtherStep ==
    ClosureIInv /\ (List \/ StartSearch \/ Return \/ FallBack \/ UNCHANGED vars) => ClosureIInv'
  <1> SUFFICES ASSUME ClosureIInv,
                      List \/ StartSearch \/ Return \/ FallBack \/ UNCHANGED vars
               PROVE  ClosureIInv'
    OBVIOUS
  <1> USE DEF ClosureIInv
  <1>1. UNCHANGED <<graph, seeded, visited, queue, cur, rest>>
    BY DEF List, StartSearch, Return, FallBack, vars
  <1>2. Shape'
    BY <1>1 DEF Shape, List, StartSearch, Return, FallBack, vars
  <1>3. Frontier' /\ Queued' /\ Least'
    BY <1>1 DEF Frontier, Queued, Least, Closed, Needs, ModuleLocalImports, InSeq
  <1>4. Waiting'
    BY <1>1 DEF Waiting, Needs, List, StartSearch, Return, FallBack, vars
  <1>5. Seeds'
    BY <1>1 DEF Seeds, List, StartSearch, Return, FallBack, vars
  <1>6. Result'
    BY <1>1 DEF Result, Seeds, List, StartSearch, Return, FallBack, vars
  <1> QED
    BY <1>2, <1>3, <1>4, <1>5, <1>6

-----------------------------------------------------------------------------
LEMMA ClosedFromInv == ClosureIInv => ClosedUnderImporters
  <1> SUFFICES ASSUME ClosureIInv, Returned, visited # {}
               PROVE  Closed(patterns)
    BY DEF ClosedUnderImporters, Searched
  <1>1. \/ patterns = visited /\ queue = <<>> /\ rest = {} /\ seeded = Len(Targets)
        \/ visited = {}
    BY DEF ClosureIInv, Result, Returned
  <1>2. patterns = visited /\ queue = <<>> /\ rest = {} /\ seeded = Len(Targets)
    BY <1>1
  <1>3. TargetSet \subseteq visited
    <2>1. DOMAIN Targets = 1..Len(Targets)
      BY TargetsAssumption
    <2> QED
      BY <1>2, <2>1 DEF ClosureIInv, Seeds, TargetSet, InSeq
  <1>4. \A p \in Module : Needs(p) \cap visited # {} => p \in visited
    BY <1>2, InEmpty, LocalNeeds DEF ClosureIInv, Shape, Frontier
  <1> QED
    BY <1>2, <1>3, <1>4 DEF Closed

LEMMA NothingElseFromInv == ClosureIInv => NothingElse
  BY DEF ClosureIInv, Least, Result, NothingElse, Searched, Returned

(* The packages that are not run are closed under imports, and so what     *)
(* links one of the targets is run.                                        *)
LEMMA KillersFromInv == ClosureIInv => KillersAreRun
  <1> SUFFICES ASSUME ClosureIInv, Returned, OutsideImportsNone,
                      NEW p \in Module, Links(p) \cap TargetSet # {},
                      p \notin patterns
               PROVE  FALSE
    BY DEF KillersAreRun
  <1>1. visited # {} /\ patterns \subseteq Module
    <2>1. Len(Targets) > 0
      BY TargetsAssumption
    <2> QED
      BY <2>1, TargetsInModule DEF ClosureIInv, Result, Returned, Shape, Seeds
  <1>2. Closed(patterns)
    BY <1>1, ClosedFromInv DEF ClosedUnderImporters, Searched
  <1> DEFINE S == Packages \ patterns
  <1>3. graph.imports \in [Packages -> SUBSET Packages]
        /\ graph.tests \in [Packages -> SUBSET Packages]
    BY GraphsAssumption DEF ClosureIInv, Shape
  <1>4. Needs(p) \subseteq S
    BY <1>2, <1>3, ModuleAssumption DEF Closed, Needs
  <1>5. ClosedUnderImports(S)
    <2> SUFFICES ASSUME NEW q \in S, NEW r \in graph.imports[q], r \in patterns
                 PROVE  FALSE
      BY <1>3 DEF ClosedUnderImports
    <2>1. CASE q \in Module
      BY <1>2, <2>1 DEF Closed, Needs
    <2>2. CASE q \notin Module
      BY <1>1, <2>2 DEF OutsideImportsNone
    <2> QED
      BY <2>1, <2>2
  <1>6. Links(p) \subseteq {p} \cup S
    BY <1>4, <1>5 DEF Links, Needs
  <1>7. TargetSet \subseteq patterns
    BY <1>2 DEF Closed
  <1> QED
    BY <1>6, <1>7

-----------------------------------------------------------------------------
(* TestFlags: what reads the fields in one pass has a mode at each, by     *)
(* steps from the first.                                                   *)
LEMMA Reaches ==
    ASSUME NEW N \in Nat, NEW S, 1 \in S, \A n \in 1..N : n \in S => n + 1 \in S
    PROVE  1..N \subseteq S
  <1> DEFINE Left == {n \in 1..N : n \notin S}
  <1> SUFFICES ASSUME Left # {} PROVE FALSE
    OBVIOUS
  <1>1. Left \in SUBSET Nat
    OBVIOUS
  <1>2. PICK n \in Left : \A m \in Left : n <= m
    <2> HIDE DEF Left
    <2> QED BY <1>1, LeastNat
  <1>3. n \in 1..N /\ n \notin S /\ n # 1
    OBVIOUS
  <1>4. n - 1 \in 1..N /\ (n - 1) + 1 = n
    BY <1>3
  <1>5. n - 1 \in S
    BY <1>2, <1>4
  <1> QED BY <1>3, <1>4, <1>5

(* Going on from one mode to the next.                                     *)
Follows(mode, N, start, step) ==
    /\ N > 0 => mode[1] = start
    /\ \A n \in 1..N : n < N => mode[n + 1] = step[n][mode[n]]

LEMMA FollowersExist ==
    ASSUME NEW N \in Nat, NEW S, NEW start \in S, NEW step \in [1..N -> [S -> S]]
    PROVE  \E mode \in [1..N -> S] : Follows(mode, N, start, step)
  <1> DEFINE Good == {k \in Nat : \E mode \in [1..k -> S] : Follows(mode, k, start, step)}
             Bad == {k \in 0..N : k \notin Good}
  <1> SUFFICES Bad = {}
    OBVIOUS
  <1> SUFFICES ASSUME Bad # {} PROVE FALSE
    OBVIOUS
  <1>1. Bad \in SUBSET Nat
    OBVIOUS
  <1>2. PICK k \in Bad : \A m \in Bad : k <= m
    <2> HIDE DEF Bad
    <2> QED BY <1>1, LeastNat
  <1>3. k \in 0..N /\ k \notin Good
    OBVIOUS
  <1>4. CASE k = 0 \/ k = 1
    <2>1. [n \in 1..k |-> start] \in [1..k -> S]
      OBVIOUS
    <2>2. Follows([n \in 1..k |-> start], k, start, step)
      BY <1>4 DEF Follows
    <2> QED BY <1>3, <2>1, <2>2
  <1>5. CASE k > 1
    <2>1. k - 1 \in 0..N /\ k - 1 \in 1..N /\ k - 1 < k /\ k - 1 \notin Bad
      BY <1>2, <1>3, <1>5
    <2>2. PICK mode \in [1..(k - 1) -> S] : Follows(mode, k - 1, start, step)
      BY <2>1
    <2> DEFINE more == [n \in 1..k |-> IF n = k THEN step[k - 1][mode[k - 1]] ELSE mode[n]]
    <2>3. mode[k - 1] \in S /\ step[k - 1] \in [S -> S]
      BY <2>1
    <2>4. more \in [1..k -> S]
      BY <1>3, <1>5, <2>3
    <2>5. Follows(more, k, start, step)
      <3>1. more[1] = start
        BY <1>3, <1>5, <2>1, <2>2 DEF Follows
      <3>2. ASSUME NEW n \in 1..k, n < k PROVE more[n + 1] = step[n][more[n]]
        <4>1. CASE n = k - 1
          BY <1>3, <3>2, <4>1
        <4>2. CASE n # k - 1
          <5>1. n \in 1..(k - 1) /\ n < k - 1 /\ n + 1 \in 1..k /\ n + 1 # k /\ n # k
            BY <1>3, <3>2, <4>2
          <5> QED BY <2>2, <5>1 DEF Follows
        <4> QED BY <4>1, <4>2
      <3> HIDE DEF more
      <3> QED BY <3>1, <3>2 DEF Follows
    <2> QED BY <1>3, <2>4, <2>5
  <1> QED BY <1>3, <1>4, <1>5

LEMMA ModesFollow ==
    ASSUME NEW N \in Nat, NEW S, NEW start \in S, NEW step \in [1..N -> [S -> S]]
    PROVE  /\ Scan!Modes(start, step) \in [1..N -> S]
           /\ Follows(Scan!Modes(start, step), N, start, step)
  <1> DEFINE Rule(mode) == [n \in DOMAIN step |->
                              IF n = 1 THEN start ELSE step[n - 1][mode[n - 1]]]
             mode == CHOOSE mode : mode = Rule(mode)
  <1>1. Scan!Modes(start, step) = mode
    BY DEF Scan!Modes
  <1>2. PICK some \in [1..N -> S] : Follows(some, N, start, step)
    BY FollowersExist
  <1>3. some = Rule(some)
    <2>1. ASSUME NEW n \in 1..N
          PROVE  some[n] = IF n = 1 THEN start ELSE step[n - 1][some[n - 1]]
      <3>1. CASE n = 1
        BY <1>2, <3>1 DEF Follows
      <3>2. CASE n # 1
        <4>1. n - 1 \in 1..N /\ n - 1 < N /\ (n - 1) + 1 = n
          BY <3>2
        <4> QED BY <1>2, <3>2, <4>1 DEF Follows
      <3> QED BY <3>1, <3>2
    <2> QED BY <2>1
  <1>4. mode = Rule(mode)
    <2> HIDE DEF Rule
    <2> QED BY <1>3
  <1> HIDE DEF mode
  <1>5. DOMAIN mode = 1..N /\ mode = [n \in 1..N |-> mode[n]]
    BY <1>4
  <1>6. Follows(mode, N, start, step)
    <2>1. N > 0 => mode[1] = start
      BY <1>4
    <2>2. ASSUME NEW n \in 1..N, n < N PROVE mode[n + 1] = step[n][mode[n]]
      <3>1. n + 1 \in 1..N /\ n + 1 # 1 /\ (n + 1) - 1 = n
        BY <2>2
      <3> QED BY <1>4, <3>1
    <2> HIDE DEF Rule
    <2> QED BY <2>1, <2>2 DEF Follows
  <1>7. ASSUME NEW n \in 1..N PROVE mode[n] \in S
    <2> DEFINE Typed == {k \in Nat : k \in 1..N => mode[k] \in S}
    <2>1. 1 \in Typed
      BY <1>6 DEF Follows
    <2>2. ASSUME NEW k \in 1..N, k \in Typed PROVE k + 1 \in Typed
      <3>1. CASE k < N
        BY <1>6, <2>2, <3>1 DEF Follows
      <3>2. CASE ~(k < N)
        BY <3>2
      <3> QED BY <3>1, <3>2
    <2> HIDE DEF Typed
    <2>3. 1..N \subseteq Typed
      BY <2>1, <2>2, Reaches
    <2> QED BY <2>3 DEF Typed
  <1>8. mode \in [1..N -> S]
    BY <1>5, <1>7
  <1> QED BY <1>1, <1>6, <1>8

(* What a list may hold.                                                   *)
ListOf(fs) == fs \in Seq(Scan!Fields)

LEMMA FieldFacts ==
    ASSUME NEW fs, ListOf(fs)
    PROVE  /\ Len(fs) \in Nat /\ DOMAIN fs = 1..Len(fs)
           /\ \A n \in 1..Len(fs) :
                /\ fs[n].kind \in {"flag", "value", "args", "terminator"}
                /\ fs[n].kind = "flag" <=> fs[n].name \in {"managed", "x", "race", "gcflags"}
                /\ fs[n].inline \in BOOLEAN /\ fs[n].test \in BOOLEAN
                /\ fs[n].kind # "flag" \/ fs[n].name = "gcflags" => ~fs[n].inline
  <1>1. Len(fs) \in Nat /\ DOMAIN fs = 1..Len(fs)
    BY LenProperties DEF ListOf
  <1>2. \A f \in Scan!Fields :
           /\ f.kind \in {"flag", "value", "args", "terminator"}
           /\ f.kind = "flag" <=> f.name \in {"managed", "x", "race", "gcflags"}
           /\ f.inline \in BOOLEAN /\ f.test \in BOOLEAN
           /\ f.kind # "flag" \/ f.name = "gcflags" => ~f.inline
    BY DEF Scan!Fields
  <1>3. \A n \in 1..Len(fs) : fs[n] \in Scan!Fields
    BY <1>1, ElementOfSeq DEF ListOf
  <1> QED BY <1>1, <1>2, <1>3

(* The modes of the three passes.                                          *)
BuildModes(fs, mode) ==
    /\ mode \in [1..Len(fs) -> {"flag", "value", "stop"}]
    /\ Len(fs) > 0 => mode[1] = "flag"
    /\ \A n \in 1..Len(fs) : n < Len(fs) =>
         mode[n + 1] =
           IF mode[n] = "stop" \/ (mode[n] = "flag" /\ Scan!IsFlagBoundary(fs[n])) THEN "stop"
           ELSE IF mode[n] = "flag" /\ Scan!TakesNext(fs[n]) THEN "value"
           ELSE "flag"

LEMMA BuildModesHold ==
    ASSUME NEW fs, ListOf(fs) PROVE BuildModes(fs, Scan!BuildMode(fs))
  <1> DEFINE M == {"flag", "value", "stop"}
             To(n, mode) ==
               IF mode = "stop" \/ (mode = "flag" /\ Scan!IsFlagBoundary(fs[n])) THEN "stop"
               ELSE IF mode = "flag" /\ Scan!TakesNext(fs[n]) THEN "value"
               ELSE "flag"
             step == [n \in DOMAIN fs |-> [mode \in M |-> To(n, mode)]]
             pass == Scan!BuildMode(fs)
  <1>1. DOMAIN fs = 1..Len(fs) /\ Len(fs) \in Nat
    BY FieldFacts
  <1>2. step \in [1..Len(fs) -> [M -> M]]
    BY <1>1
  <1>3. pass = Scan!Modes("flag", step)
    BY DEF Scan!BuildMode
  <1>4. /\ Scan!Modes("flag", step) \in [1..Len(fs) -> M]
        /\ Follows(Scan!Modes("flag", step), Len(fs), "flag", step)
    <2> HIDE DEF step
    <2> QED BY <1>1, <1>2, ModesFollow
  <1>5. ASSUME NEW n \in 1..Len(fs), NEW mode \in M PROVE step[n][mode] = To(n, mode)
    BY <1>1
  <1> HIDE DEF step, To, pass
  <1>6. /\ pass \in [1..Len(fs) -> M]
        /\ Len(fs) > 0 => pass[1] = "flag"
        /\ \A n \in 1..Len(fs) : n < Len(fs) => pass[n + 1] = To(n, pass[n])
    BY <1>3, <1>4, <1>5 DEF Follows
  <1> QED BY <1>6 DEF BuildModes, To, pass

GoModes(fs, ar, mode) ==
    /\ mode \in [1..Len(fs) -> Scan!Looking \cup {"value", "rest"}]
    /\ Len(fs) > 0 => mode[1] = IF ar.listing THEN "listing" ELSE "flags"
    /\ \A n \in 1..Len(fs) : n < Len(fs) =>
         mode[n + 1] =
           IF mode[n] = "value" THEN "flags"
           ELSE IF mode[n] = "rest" \/ Scan!IsFlagBoundary(fs[n]) THEN "rest"
           ELSE IF fs[n].kind = "value"
           THEN IF mode[n] = "listing" THEN "listing"
                ELSE IF mode[n] = "after" THEN "flags" ELSE "rest"
           ELSE IF n \in ar.unknown THEN IF fs[n].inline THEN "flags" ELSE "after"
           ELSE IF fs[n].name = "gcflags" \/ n \in ar.go THEN "value"
           ELSE "flags"

LEMMA GoModesHold ==
    ASSUME NEW fs, ListOf(fs), NEW ar
    PROVE  GoModes(fs, ar, Scan!GoMode(fs, ar))
  <1> DEFINE M == Scan!Looking \cup {"value", "rest"}
             start == IF ar.listing THEN "listing" ELSE "flags"
             Case(n, mode) ==
               IF mode = "value" THEN "flags"
               ELSE IF mode = "rest" \/ Scan!IsFlagBoundary(fs[n]) THEN "rest"
               ELSE IF fs[n].kind = "value"
               THEN CASE mode = "listing" -> "listing"
                      [] mode = "after" -> "flags"
                      [] mode = "flags" -> "rest"
               ELSE IF n \in ar.unknown THEN IF fs[n].inline THEN "flags" ELSE "after"
               ELSE IF fs[n].name = "gcflags" \/ n \in ar.go THEN "value"
               ELSE "flags"
             To(n, mode) ==
               IF mode = "value" THEN "flags"
               ELSE IF mode = "rest" \/ Scan!IsFlagBoundary(fs[n]) THEN "rest"
               ELSE IF fs[n].kind = "value"
               THEN IF mode = "listing" THEN "listing"
                    ELSE IF mode = "after" THEN "flags" ELSE "rest"
               ELSE IF n \in ar.unknown THEN IF fs[n].inline THEN "flags" ELSE "after"
               ELSE IF fs[n].name = "gcflags" \/ n \in ar.go THEN "value"
               ELSE "flags"
             step == [n \in DOMAIN fs |-> [mode \in M |-> Case(n, mode)]]
             pass == Scan!GoMode(fs, ar)
  <1>1. DOMAIN fs = 1..Len(fs) /\ Len(fs) \in Nat /\ start \in M
    BY FieldFacts DEF Scan!Looking
  <1>2. ASSUME NEW n, NEW mode \in M PROVE Case(n, mode) = To(n, mode) /\ To(n, mode) \in M
    BY DEF Scan!Looking
  <1>3. pass = Scan!Modes(start, step)
    BY DEF Scan!GoMode
  <1>4. step \in [1..Len(fs) -> [M -> M]]
    <2> HIDE DEF Case, To, M
    <2> QED BY <1>1, <1>2
  <1>5. /\ Scan!Modes(start, step) \in [1..Len(fs) -> M]
        /\ Follows(Scan!Modes(start, step), Len(fs), start, step)
    <2> HIDE DEF step, M, start
    <2> QED BY <1>1, <1>4, ModesFollow
  <1>6. ASSUME NEW n \in 1..Len(fs), NEW mode \in M PROVE step[n][mode] = To(n, mode)
    <2> HIDE DEF Case, To, M
    <2> QED BY <1>1, <1>2
  <1> HIDE DEF step, Case, To, pass, M, start
  <1>7. /\ pass \in [1..Len(fs) -> M]
        /\ Len(fs) > 0 => pass[1] = start
        /\ \A n \in 1..Len(fs) : n < Len(fs) => pass[n + 1] = To(n, pass[n])
    BY <1>3, <1>5, <1>6 DEF Follows
  <1> QED BY <1>7 DEF GoModes, To, pass, M, start

BinaryModes(fs, ar, go, mode) ==
    /\ mode \in [1..Len(fs) -> {"flag", "value", "stop"}]
    /\ Len(fs) > 0 => mode[1] = "flag"
    /\ \A n \in 1..Len(fs) : n < Len(fs) =>
         mode[n + 1] =
           IF mode[n] = "stop" \/ n \notin Scan!Handed(fs, go) THEN mode[n]
           ELSE IF mode[n] = "value" THEN "flag"
           ELSE IF fs[n].kind \in {"value", "terminator"} THEN "stop"
           ELSE IF n \in ar.binary \cap go.raw THEN "value"
           ELSE "flag"

LEMMA BinaryModesHold ==
    ASSUME NEW fs, ListOf(fs), NEW ar, NEW go
    PROVE  BinaryModes(fs, ar, go, Scan!BinaryMode(fs, ar, go))
  <1> DEFINE M == {"flag", "value", "stop"}
             To(n, mode) ==
               IF mode = "stop" \/ n \notin Scan!Handed(fs, go) THEN mode
               ELSE IF mode = "value" THEN "flag"
               ELSE IF fs[n].kind \in {"value", "terminator"} THEN "stop"
               ELSE IF n \in ar.binary \cap go.raw THEN "value"
               ELSE "flag"
             step == [n \in DOMAIN fs |-> [mode \in M |-> To(n, mode)]]
             pass == Scan!BinaryMode(fs, ar, go)
  <1>1. DOMAIN fs = 1..Len(fs) /\ Len(fs) \in Nat
    BY FieldFacts
  <1>2. step \in [1..Len(fs) -> [M -> M]]
    BY <1>1
  <1>3. pass = Scan!Modes("flag", step)
    BY DEF Scan!BinaryMode
  <1>4. /\ Scan!Modes("flag", step) \in [1..Len(fs) -> M]
        /\ Follows(Scan!Modes("flag", step), Len(fs), "flag", step)
    <2> HIDE DEF step
    <2> QED BY <1>1, <1>2, ModesFollow
  <1>5. ASSUME NEW n \in 1..Len(fs), NEW mode \in M PROVE step[n][mode] = To(n, mode)
    BY <1>1
  <1> HIDE DEF step, To, pass
  <1>6. /\ pass \in [1..Len(fs) -> M]
        /\ Len(fs) > 0 => pass[1] = "flag"
        /\ \A n \in 1..Len(fs) : n < Len(fs) => pass[n + 1] = To(n, pass[n])
    BY <1>3, <1>4, <1>5 DEF Follows
  <1> QED BY <1>6 DEF BinaryModes, To, pass

(* What the go command makes of each field.                                *)
IsRaw(fs, ar, mode, n) ==
    \/ fs[n].kind = "flag" /\ n \in ar.unknown
    \/ fs[n].kind = "value" /\ mode[n] # "listing"
    \/ fs[n].kind = "terminator"
GoParts(fs, ar, mode, go) ==
    \A n \in 1..Len(fs) :
      /\ n \in go.read <=>
           mode[n] \in Scan!Looking /\ fs[n].kind = "flag" /\ n \notin ar.unknown
      /\ n \in go.values <=> mode[n] = "value"
      /\ n \in go.raw <=>
           mode[n] = "rest" \/ (mode[n] \in Scan!Looking /\ IsRaw(fs, ar, mode, n))

LEMMA GoCommandParts ==
    ASSUME NEW fs, ListOf(fs), NEW ar
    PROVE  /\ GoParts(fs, ar, Scan!GoMode(fs, ar), Scan!GoCommand(fs, ar))
           /\ Scan!GoCommand(fs, ar).read \subseteq 1..Len(fs)
           /\ Scan!GoCommand(fs, ar).values \subseteq 1..Len(fs)
           /\ Scan!GoCommand(fs, ar).raw \subseteq 1..Len(fs)
  <1> DEFINE mode == Scan!GoMode(fs, ar)
             go == Scan!GoCommand(fs, ar)
             seen == {n \in DOMAIN fs : mode[n] \in Scan!Looking}
             Raw(n) == CASE fs[n].kind = "flag" -> n \in ar.unknown
                         [] fs[n].kind = "value" -> mode[n] # "listing"
                         [] fs[n].kind = "terminator" -> TRUE
                         [] fs[n].kind = "args" -> FALSE
  <1>1. DOMAIN fs = 1..Len(fs)
    BY FieldFacts
  <1>2. /\ go.read = {n \in seen : fs[n].kind = "flag" /\ n \notin ar.unknown}
        /\ go.values = {n \in DOMAIN fs : mode[n] = "value"}
        /\ go.raw = {n \in DOMAIN fs : mode[n] = "rest"} \cup {n \in seen : Raw(n)}
    BY DEF Scan!GoCommand
  <1>3. ASSUME NEW n \in 1..Len(fs) PROVE Raw(n) <=> IsRaw(fs, ar, mode, n)
    <2>1. fs[n].kind \in {"flag", "value", "args", "terminator"}
      BY FieldFacts
    <2> QED BY <2>1 DEF IsRaw
  <1> HIDE DEF mode, go, Raw
  <1> QED BY <1>1, <1>2, <1>3 DEF GoParts, mode, go

(* A value is taken by the flag in front of it.                            *)
LEMMA TakenByFlag ==
    ASSUME NEW fs, ListOf(fs), NEW ar, NEW mode, GoModes(fs, ar, mode),
           NEW n \in 1..Len(fs), mode[n] = "value"
    PROVE  /\ n > 1 /\ n - 1 \in 1..Len(fs) /\ fs[n - 1].kind = "flag"
           /\ mode[n - 1] \in Scan!Looking /\ n - 1 \notin ar.unknown
           /\ fs[n - 1].name = "gcflags" \/ n - 1 \in ar.go
  <1>1. Len(fs) \in Nat
    BY FieldFacts
  <1>2. n > 1 /\ n - 1 \in 1..Len(fs) /\ n - 1 < Len(fs) /\ (n - 1) + 1 = n
    BY <1>1 DEF GoModes
  <1>3. /\ mode[n - 1] \notin {"value", "rest"} /\ ~Scan!IsFlagBoundary(fs[n - 1])
        /\ fs[n - 1].kind # "value" /\ n - 1 \notin ar.unknown
        /\ fs[n - 1].name = "gcflags" \/ n - 1 \in ar.go
    BY <1>2 DEF GoModes
  <1>4. fs[n - 1].kind = "flag"
    BY <1>2, <1>3, FieldFacts DEF Scan!IsFlagBoundary
  <1>5. mode[n - 1] \in Scan!Looking
    BY <1>2, <1>3 DEF GoModes
  <1> QED BY <1>2, <1>3, <1>4, <1>5

LEMMA ModesMatch ==
    ASSUME NEW fs, ListOf(fs), NEW ar \in Scan!Arity(fs), ar.go = {},
           NEW build, BuildModes(fs, build), NEW mode, GoModes(fs, ar, mode),
           \A n \in 1..Len(fs) : fs[n].kind = "value" => mode[n] = "value"
    PROVE  \A n \in 1..Len(fs) : /\ build[n] = "value" <=> mode[n] = "value"
                                 /\ build[n] = "stop" <=> mode[n] = "rest"
  <1> DEFINE Like(n) == /\ build[n] = "value" <=> mode[n] = "value"
                        /\ build[n] = "stop" <=> mode[n] = "rest"
             Alike == {n \in Nat : n \in 1..Len(fs) => Like(n)}
  <1>1. Len(fs) \in Nat
    BY FieldFacts
  <1>2. 1 \in Alike
    BY <1>1 DEF BuildModes, GoModes
  <1>3. ASSUME NEW n \in 1..Len(fs), n < Len(fs), Like(n) PROVE Like(n + 1)
    <2>1. /\ fs[n].kind \in {"flag", "value", "args", "terminator"}
          /\ fs[n].name = "gcflags" => ~fs[n].inline /\ fs[n].kind = "flag"
      BY FieldFacts
    <2>2. build[n] \in {"flag", "value", "stop"} /\ mode[n] \in Scan!Looking \cup {"value", "rest"}
      BY DEF BuildModes, GoModes
    <2>3. n \in ar.unknown => fs[n].name = "x" /\ fs[n].kind = "flag"
      BY DEF Scan!Arity, Scan!Free
    <2>4. CASE mode[n] = "value"
      <3>1. build[n] = "value"
        BY <1>3, <2>4
      <3>2. mode[n + 1] = "flags" /\ build[n + 1] = "flag"
        BY <1>3, <2>4, <3>1 DEF BuildModes, GoModes
      <3> QED BY <3>2
    <2>5. CASE mode[n] = "rest"
      <3>1. build[n] = "stop"
        BY <1>3, <2>5
      <3>2. mode[n + 1] = "rest" /\ build[n + 1] = "stop"
        BY <1>3, <2>5, <3>1 DEF BuildModes, GoModes
      <3> QED BY <3>2
    <2>6. CASE mode[n] \in Scan!Looking
      <3>1. mode[n] # "value" /\ mode[n] # "rest" /\ build[n] = "flag"
        BY <1>3, <2>2, <2>6 DEF Scan!Looking
      <3>2. fs[n].kind # "value"
        BY <3>1
      <3>3. CASE Scan!IsFlagBoundary(fs[n])
        <4>1. mode[n + 1] = "rest" /\ build[n + 1] = "stop"
          BY <1>3, <3>1, <3>3 DEF BuildModes, GoModes
        <4> QED BY <4>1
      <3>4. CASE fs[n].kind = "flag"
        <4>1. ~Scan!IsFlagBoundary(fs[n])
          BY <3>4 DEF Scan!IsFlagBoundary
        <4>2. Scan!TakesNext(fs[n]) <=> fs[n].name = "gcflags"
          BY <2>1 DEF Scan!TakesNext
        <4>3. build[n + 1] = IF fs[n].name = "gcflags" THEN "value" ELSE "flag"
          BY <1>3, <3>1, <4>1, <4>2 DEF BuildModes
        <4>4. CASE n \in ar.unknown
          <5>1. mode[n + 1] \in {"flags", "after"}
            BY <1>3, <3>1, <3>2, <4>1, <4>4 DEF GoModes
          <5> QED BY <2>3, <4>3, <4>4, <5>1
        <4>5. CASE n \notin ar.unknown
          <5>1. mode[n + 1] = IF fs[n].name = "gcflags" THEN "value" ELSE "flags"
            BY <1>3, <3>1, <3>2, <4>1, <4>5 DEF GoModes
          <5> QED BY <4>3, <5>1
        <4> QED BY <4>4, <4>5
      <3> QED BY <2>1, <3>2, <3>3, <3>4 DEF Scan!IsFlagBoundary
    <2> QED BY <2>2, <2>4, <2>5, <2>6
  <1>4. ASSUME NEW n \in 1..Len(fs), n \in Alike PROVE n + 1 \in Alike
    <2>1. Like(n)
      BY <1>4
    <2>2. n + 1 \in 1..Len(fs) => n < Len(fs)
      BY <1>1
    <2> HIDE DEF Like
    <2> QED BY <1>3, <2>1, <2>2
  <1> HIDE DEF Alike
  <1>5. 1..Len(fs) \subseteq Alike
    BY <1>1, <1>2, <1>4, Reaches
  <1> QED BY <1>5 DEF Alike

LEMMA BuiltAlike ==
    ASSUME NEW fs, ListOf(fs), NEW ar \in Scan!Arity(fs), ar.go = {},
           \A n \in DOMAIN fs : fs[n].kind = "value" => n \in Scan!GoCommand(fs, ar).values
    PROVE  Scan!BuildFlags(fs) = Scan!BuildRead(fs, ar)
  <1> DEFINE mode == Scan!GoMode(fs, ar)
             go == Scan!GoCommand(fs, ar)
             build == Scan!BuildMode(fs)
             read == {n \in go.read : Scan!IsBuild(fs[n])}
  <1>1. DOMAIN fs = 1..Len(fs) /\ Len(fs) \in Nat
    BY FieldFacts
  <1>2. /\ GoParts(fs, ar, mode, go) /\ GoModes(fs, ar, mode) /\ BuildModes(fs, build)
        /\ go.read \subseteq 1..Len(fs) /\ go.values \subseteq 1..Len(fs)
    BY GoCommandParts, GoModesHold, BuildModesHold
  <1>3. Scan!BuildFlags(fs) =
            {n \in 1..Len(fs) : build[n] = "value" \/ (build[n] = "flag" /\ Scan!IsBuild(fs[n]))}
    BY <1>1 DEF Scan!BuildFlags
  <1>4. Scan!BuildRead(fs, ar) = read \cup {n \in go.values : n - 1 \in read}
    BY DEF Scan!BuildRead
  <1> HIDE DEF mode, go, build
  <1>5. \A n \in 1..Len(fs) : fs[n].kind = "value" => mode[n] = "value"
    BY <1>1, <1>2 DEF GoParts, go
  <1>6. \A n \in 1..Len(fs) : /\ build[n] = "value" <=> mode[n] = "value"
                              /\ build[n] = "stop" <=> mode[n] = "rest"
    BY <1>2, <1>5, ModesMatch
  <1>7. ASSUME NEW n \in 1..Len(fs)
        PROVE  n \in read <=> build[n] = "flag" /\ Scan!IsBuild(fs[n])
    <2>1. n \in ar.unknown => ~Scan!IsBuild(fs[n])
      BY DEF Scan!Arity, Scan!Free, Scan!IsBuild
    <2>2. build[n] = "flag" <=> mode[n] \in Scan!Looking
      BY <1>2, <1>6 DEF BuildModes, GoModes, Scan!Looking
    <2> QED BY <1>2, <2>1, <2>2 DEF GoParts, Scan!IsBuild
  <1>8. ASSUME NEW n \in 1..Len(fs)
        PROVE  n \in go.values /\ n - 1 \in read <=> build[n] = "value"
    <2>1. n \in go.values <=> build[n] = "value"
      BY <1>2, <1>6 DEF GoParts
    <2>2. ASSUME build[n] = "value" PROVE n - 1 \in read
      <3>1. mode[n] = "value"
        BY <1>6, <2>2
      <3>2. /\ n - 1 \in 1..Len(fs) /\ fs[n - 1].kind = "flag"
            /\ mode[n - 1] \in Scan!Looking /\ n - 1 \notin ar.unknown
            /\ fs[n - 1].name = "gcflags"
        BY <1>2, <3>1, TakenByFlag
      <3> QED BY <1>2, <3>2 DEF GoParts, Scan!IsBuild
    <2> QED BY <2>1, <2>2
  <1>9. read \subseteq 1..Len(fs)
    BY <1>2
  <1> HIDE DEF read
  <1> QED BY <1>2, <1>3, <1>4, <1>7, <1>8, <1>9

(* A boundary the scan reads as one, in a list.                            *)
Bound(fs, n) == Scan!IsFlagBoundary(fs[n]) /\ ~Scan!BoundaryConsumed(fs, n)

LEMMA BoundFacts ==
    ASSUME NEW fs, NEW n
    PROVE  /\ Bound(fs, n) <=>
                fs[n].kind \in {"args", "terminator"}
                /\ (n > 1 => ~Scan!Detached(fs[n - 1]))
           /\ Bound(fs, n) => fs[n].kind \in {"args", "terminator"}
  BY DEF Bound, Scan!IsFlagBoundary, Scan!BoundaryConsumed

(* What the go command takes as a value is no boundary.                    *)
LEMMA TakenIsNoBound ==
    ASSUME NEW fs, ListOf(fs), NEW ar \in Scan!Arity(fs), NEW mode, GoModes(fs, ar, mode),
           NEW n \in 1..Len(fs), mode[n] = "value"
    PROVE  ~Bound(fs, n)
  <1>1. /\ n > 1 /\ n - 1 \in 1..Len(fs) /\ fs[n - 1].kind = "flag"
        /\ fs[n - 1].name = "gcflags" \/ n - 1 \in ar.go
    BY TakenByFlag
  <1>2. n - 1 \in ar.go => Scan!Detached(fs[n - 1])
    BY DEF Scan!Arity
  <1>3. fs[n - 1].name = "gcflags" => ~fs[n - 1].inline
    BY <1>1, FieldFacts
  <1>4. Scan!Detached(fs[n - 1])
    BY <1>1, <1>2, <1>3 DEF Scan!Detached
  <1> QED BY <1>1, <1>4, BoundFacts

(* The go command reads no flag behind a boundary.                         *)
LEMMA GoStopsAtBound ==
    ASSUME NEW fs, ListOf(fs), NEW ar \in Scan!Arity(fs), NEW mode, GoModes(fs, ar, mode)
    PROVE  \A n \in 1..Len(fs) : mode[n] # "rest" => \A m \in 1..(n - 1) : ~Bound(fs, m)
  <1> DEFINE Free(n) == mode[n] # "rest" => \A m \in 1..(n - 1) : ~Bound(fs, m)
             S == {n \in Nat : n \in 1..Len(fs) => Free(n)}
  <1>1. Len(fs) \in Nat
    BY FieldFacts
  <1>2. 1 \in S
    OBVIOUS
  <1>3. ASSUME NEW n \in 1..Len(fs), n < Len(fs), Free(n), mode[n + 1] # "rest"
        PROVE  \A m \in 1..n : ~Bound(fs, m)
    <2>1. mode[n] # "rest"
      BY <1>3 DEF GoModes
    <2>2. CASE mode[n] = "value"
      <3>1. ~Bound(fs, n)
        BY <2>2, TakenIsNoBound
      <3> QED BY <1>3, <2>1, <3>1
    <2>3. CASE mode[n] # "value"
      <3>1. ~Scan!IsFlagBoundary(fs[n])
        BY <1>3, <2>1, <2>3 DEF GoModes
      <3> QED BY <1>3, <2>1, <3>1 DEF Bound
    <2> QED BY <2>2, <2>3
  <1>4. ASSUME NEW n \in 1..Len(fs), n \in S PROVE n + 1 \in S
    <2>1. Free(n)
      BY <1>4
    <2>2. SUFFICES ASSUME n + 1 \in 1..Len(fs), mode[n + 1] # "rest"
                   PROVE  \A m \in 1..((n + 1) - 1) : ~Bound(fs, m)
      OBVIOUS
    <2>3. n < Len(fs) /\ (n + 1) - 1 = n
      BY <1>1, <2>2
    <2> HIDE DEF Free
    <2> QED BY <1>3, <2>1, <2>2, <2>3
  <1> HIDE DEF S
  <1>5. 1..Len(fs) \subseteq S
    BY <1>1, <1>2, <1>4, Reaches
  <1> QED BY <1>5 DEF S

(* A value in the test binary's reading is the first field handed to it    *)
(* behind the flag it belongs to.                                          *)
LEMMA BinaryValueFollows ==
    ASSUME NEW fs, ListOf(fs), NEW ar, NEW go, NEW mode, BinaryModes(fs, ar, go, mode),
           NEW n \in 1..Len(fs), mode[n] = "value"
    PROVE  \E q \in 1..Len(fs) : /\ q < n /\ q \in ar.binary /\ q \in go.raw
                                 /\ \A m \in (q + 1)..(n - 1) : m \notin Scan!Handed(fs, go)
  <1> DEFINE Taken(k) ==
               \E q \in 1..Len(fs) : /\ q < k /\ q \in ar.binary /\ q \in go.raw
                                     /\ \A m \in (q + 1)..(k - 1) : m \notin Scan!Handed(fs, go)
             S == {k \in Nat : k \in 1..Len(fs) => (mode[k] = "value" => Taken(k))}
  <1>1. Len(fs) \in Nat
    BY FieldFacts
  <1>2. 1 \in S
    BY <1>1 DEF BinaryModes
  <1>3. ASSUME NEW k \in 1..Len(fs), k < Len(fs), mode[k] = "value" => Taken(k),
               mode[k + 1] = "value"
        PROVE  Taken(k + 1)
    <2>1. CASE mode[k] = "value"
      <3>1. k \notin Scan!Handed(fs, go)
        BY <1>3, <2>1 DEF BinaryModes
      <3>2. PICK q \in 1..Len(fs) :
              /\ q < k /\ q \in ar.binary /\ q \in go.raw
              /\ \A m \in (q + 1)..(k - 1) : m \notin Scan!Handed(fs, go)
        BY <1>3, <2>1
      <3>3. q < k + 1 /\ \A m \in (q + 1)..((k + 1) - 1) : m \notin Scan!Handed(fs, go)
        BY <3>1, <3>2
      <3> QED BY <3>2, <3>3
    <2>2. CASE mode[k] # "value"
      <3>1. k \in ar.binary \cap go.raw
        BY <1>3, <2>2 DEF BinaryModes
      <3>2. k < k + 1 /\ (k + 1)..((k + 1) - 1) = {}
        OBVIOUS
      <3> QED BY <3>1, <3>2
    <2> QED BY <2>1, <2>2
  <1>4. ASSUME NEW k \in 1..Len(fs), k \in S PROVE k + 1 \in S
    <2>1. k + 1 \in 1..Len(fs) => k < Len(fs)
      BY <1>1
    <2> HIDE DEF Taken
    <2> QED BY <1>3, <1>4, <2>1
  <1> HIDE DEF S
  <1>5. 1..Len(fs) \subseteq S
    BY <1>1, <1>2, <1>4, Reaches
  <1> QED BY <1>5 DEF S

(* What the go command hands on right behind a field it handed on.         *)
LEMMA NextIsHanded ==
    ASSUME NEW fs, ListOf(fs), NEW ar \in Scan!Arity(fs), NEW mode, GoModes(fs, ar, mode),
           NEW go, GoParts(fs, ar, mode, go), Scan!NoGap(fs, ar),
           NEW q \in 1..Len(fs), q < Len(fs), q \in go.raw, q \in ar.binary
    PROVE  \/ q + 1 \in Scan!Handed(fs, go)
           \/ fs[q + 1].kind = "args" /\ mode[q + 1] \in Scan!Looking
  <1>1. Len(fs) \in Nat /\ q + 1 \in 1..Len(fs)
    BY FieldFacts
  <1>2. Scan!Detached(fs[q]) /\ fs[q].kind # "terminator"
    BY DEF Scan!Arity
  <1>3. fs[q].kind \in {"flag", "args"}
    BY <1>2, FieldFacts DEF Scan!Detached
  <1>4. CASE mode[q] = "rest"
    <2>1. mode[q + 1] = "rest"
      BY <1>4 DEF GoModes
    <2> QED BY <1>1, <2>1 DEF GoParts, Scan!Handed
  <1>5. CASE mode[q] # "rest"
    <2>1. mode[q] \in Scan!Looking /\ fs[q].kind = "flag" /\ q \in ar.unknown
      BY <1>3, <1>5 DEF GoParts, IsRaw
    <2>2. mode[q] \notin {"value", "rest"} /\ ~fs[q].inline /\ ~Scan!IsFlagBoundary(fs[q])
      BY <1>2, <2>1 DEF Scan!Looking, Scan!Detached, Scan!IsFlagBoundary
    <2>3. mode[q + 1] = "after"
      BY <2>1, <2>2 DEF GoModes
    <2>4. mode[q + 1] \in Scan!Looking /\ mode[q + 1] # "listing"
      BY <2>3 DEF Scan!Looking
    <2>5. ~Scan!IsBuild(fs[q + 1])
      BY <1>2, <2>1 DEF Scan!NoGap
    <2>6. CASE fs[q + 1].kind = "flag"
      BY <1>1, <2>4, <2>5, <2>6 DEF GoParts, IsRaw, Scan!Handed
    <2>7. CASE fs[q + 1].kind \in {"value", "terminator"}
      BY <1>1, <2>4, <2>7 DEF GoParts, IsRaw, Scan!Handed
    <2> QED BY <1>1, <2>4, <2>6, <2>7, FieldFacts
  <1> QED BY <1>4, <1>5

(* The test binary stops at a `--` the scan stops at.                      *)
LEMMA BinaryStopsAtBound ==
    ASSUME NEW fs, ListOf(fs), NEW ar \in Scan!Arity(fs), Scan!NoGap(fs, ar),
           NEW mode, GoModes(fs, ar, mode), NEW go, GoParts(fs, ar, mode, go),
           NEW bin, BinaryModes(fs, ar, go, bin),
           NEW t \in 1..Len(fs), Bound(fs, t), fs[t].kind = "terminator"
    PROVE  \A n \in 1..Len(fs) : n > t => bin[n] = "stop"
  <1>1. Len(fs) \in Nat
    BY FieldFacts
  <1>2. t \in go.raw
    <2>1. mode[t] # "value"
      BY TakenIsNoBound
    <2>2. mode[t] = "rest" \/ mode[t] \in Scan!Looking
      BY <2>1 DEF GoModes
    <2> QED BY <2>2 DEF GoParts, IsRaw
  <1>3. bin[t] # "value"
    <2> SUFFICES ASSUME bin[t] = "value" PROVE FALSE
      OBVIOUS
    <2>1. PICK q \in 1..Len(fs) :
            /\ q < t /\ q \in ar.binary /\ q \in go.raw
            /\ \A m \in (q + 1)..(t - 1) : m \notin Scan!Handed(fs, go)
      BY BinaryValueFollows
    <2>2. Scan!Detached(fs[q])
      BY <2>1 DEF Scan!Arity
    <2>3. q + 1 # t
      BY <2>2, BoundFacts
    <2>4. q + 1 \in (q + 1)..(t - 1) /\ q < Len(fs) /\ q + 1 \in 1..Len(fs) /\ q + 1 < Len(fs)
      BY <1>1, <2>1, <2>3
    <2>5. fs[q + 1].kind = "args" /\ mode[q + 1] \in Scan!Looking
      BY <2>1, <2>4, NextIsHanded
    <2>6. Scan!Detached(fs[q + 1])
      BY <2>4, <2>5, FieldFacts DEF Scan!Detached
    <2>7. (q + 1) + 1 # t
      <3>1. (q + 1) + 1 = t => t > 1 /\ t - 1 = q + 1
        OBVIOUS
      <3> QED BY <2>6, <3>1, BoundFacts
    <2>8. (q + 1) + 1 \in (q + 1)..(t - 1) /\ (q + 1) + 1 \in 1..Len(fs)
      BY <1>1, <2>1, <2>3, <2>7
    <2>9. mode[(q + 1) + 1] = "rest"
      <3>1. mode[q + 1] # "value" /\ Scan!IsFlagBoundary(fs[q + 1])
        BY <2>5 DEF Scan!Looking, Scan!IsFlagBoundary
      <3> QED BY <2>4, <3>1 DEF GoModes
    <2>10. (q + 1) + 1 \in Scan!Handed(fs, go)
      BY <2>8, <2>9 DEF GoParts, Scan!Handed
    <2> QED BY <2>1, <2>8, <2>10
  <1> DEFINE S == {n \in Nat : n \in 1..Len(fs) /\ n > t => bin[n] = "stop"}
  <1>4. 1 \in S
    OBVIOUS
  <1>5. ASSUME NEW n \in 1..Len(fs), n \in S PROVE n + 1 \in S
    <2> SUFFICES ASSUME n + 1 \in 1..Len(fs), n + 1 > t PROVE bin[n + 1] = "stop"
      OBVIOUS
    <2>1. n < Len(fs) /\ n >= t
      BY <1>1
    <2>2. CASE n > t
      <3>1. bin[n] = "stop"
        BY <1>5, <2>2
      <3> QED BY <2>1, <3>1 DEF BinaryModes
    <2>3. CASE n = t
      <3>1. t \in Scan!Handed(fs, go)
        BY <1>2 DEF Scan!Handed
      <3> QED BY <1>3, <2>1, <2>3, <3>1 DEF BinaryModes
    <2> QED BY <2>1, <2>2, <2>3
  <1> HIDE DEF S
  <1>6. 1..Len(fs) \subseteq S
    BY <1>1, <1>4, <1>5, Reaches
  <1> QED BY <1>6 DEF S

(* What the scan has let through, up to the field it is at.                *)
Behind(fs, n) == \E m \in 1..(n - 1) : Bound(fs, m)
Passed(fs, k) ==
    \A n \in 1..(k - 1) :
      /\ Bound(fs, n) => fs[n].kind = "args"
      /\ ~Bound(fs, n) => ~(Scan!Managed(fs[n]) /\ (Behind(fs, n) => fs[n].test))

LEMMA NothingOverridden ==
    ASSUME NEW fs, ListOf(fs), NEW ar \in Scan!Arity(fs), Scan!NoGap(fs, ar),
           NEW k \in 1..(Len(fs) + 1), Passed(fs, k),
           k <= Len(fs) => Bound(fs, k) /\ fs[k].kind = "terminator"
    PROVE  Scan!Overrides(fs, ar) = {}
  <1> DEFINE mode == Scan!GoMode(fs, ar)
             go == Scan!GoCommand(fs, ar)
             bin == Scan!BinaryMode(fs, ar, go)
  <1>1. Len(fs) \in Nat /\ DOMAIN fs = 1..Len(fs)
    BY FieldFacts
  <1>2. /\ GoParts(fs, ar, mode, go) /\ GoModes(fs, ar, mode) /\ BinaryModes(fs, ar, go, bin)
        /\ go.read \subseteq 1..Len(fs) /\ go.raw \subseteq 1..Len(fs)
    BY GoCommandParts, GoModesHold, BinaryModesHold
  <1>3. Scan!Overrides(fs, ar) =
          {n \in go.read : fs[n].name = "managed"}
          \cup {n \in Scan!Binary(fs, ar, go) : fs[n].name = "managed" /\ fs[n].test}
    BY DEF Scan!Overrides
  <1>4. Scan!Binary(fs, ar, go) =
          {n \in Scan!Handed(fs, go) :
             bin[n] = "flag" /\ fs[n].kind \notin {"value", "terminator"}}
    BY DEF Scan!Binary
  <1> HIDE DEF mode, go, bin
  <1>5. ASSUME NEW n \in go.read, fs[n].name = "managed" PROVE FALSE
    <2>1. n \in 1..Len(fs) /\ mode[n] # "rest" /\ fs[n].kind = "flag"
      BY <1>2 DEF GoParts, Scan!Looking
    <2>2. ~Behind(fs, n) /\ ~Bound(fs, n) /\ Scan!Managed(fs[n])
      BY <1>2, <1>5, <2>1, GoStopsAtBound, BoundFacts DEF Behind, Scan!Managed
    <2>3. ~(n < k)
      <3>1. n < k => n \in 1..(k - 1)
        BY <2>1
      <3> QED BY <2>2, <3>1 DEF Passed
    <2>4. k <= Len(fs) /\ k # n /\ k \in 1..(n - 1)
      BY <1>1, <2>1, <2>2, <2>3
    <2> QED BY <2>2, <2>4 DEF Behind
  <1>6. ASSUME NEW n \in Scan!Binary(fs, ar, go), fs[n].name = "managed", fs[n].test PROVE FALSE
    <2>1. n \in 1..Len(fs) /\ bin[n] = "flag"
      BY <1>2, <1>4 DEF Scan!Handed
    <2>2. fs[n].kind = "flag" /\ ~Bound(fs, n) /\ Scan!Managed(fs[n])
      BY <1>6, <2>1, FieldFacts, BoundFacts DEF Scan!Managed
    <2>3. ~(n < k)
      <3>1. n < k => n \in 1..(k - 1)
        BY <2>1
      <3> QED BY <1>6, <2>2, <3>1 DEF Passed
    <2>4. k <= Len(fs) /\ k # n /\ k < n /\ k \in 1..Len(fs)
      BY <1>1, <2>1, <2>2, <2>3
    <2>5. bin[n] = "stop"
      BY <1>2, <2>1, <2>4, BinaryStopsAtBound
    <2> QED BY <2>1, <2>5
  <1> QED BY <1>3, <1>5, <1>6

(* In a readable list, a value or a boundary is taken by the detached flag *)
(* in front of it, and a boundary takes nothing.                           *)
LEMMA ReadableFacts ==
    ASSUME NEW fs, ListOf(fs), Scan!Readable(fs), NEW n \in 1..Len(fs)
    PROVE  /\ n = 1 /\ fs[n].kind # "flag" => Bound(fs, n)
           /\ fs[n].name = "gcflags" => n < Len(fs) /\ fs[n + 1].kind = "value"
           /\ n < Len(fs) =>
                /\ Scan!Detached(fs[n]) => ~Bound(fs, n + 1)
                /\ fs[n + 1].kind # "flag" /\ ~Bound(fs, n + 1) =>
                     fs[n].kind = "flag" /\ Scan!Detached(fs[n]) /\ fs[n].name # "race"
                /\ Scan!IsFlagBoundary(fs[n]) => fs[n + 1].kind = "flag"
  <1>1. Len(fs) \in Nat /\ DOMAIN fs = 1..Len(fs)
    BY FieldFacts
  <1>2. \A m \in 1..Len(fs) :
          /\ fs[m].kind = "value" => m > 1 /\ Scan!MayTake(fs[m - 1])
          /\ (m > 1 /\ Scan!IsFlagBoundary(fs[m])) =>
                fs[m - 1].name # "race" /\ ~Scan!IsFlagBoundary(fs[m - 1])
          /\ fs[m].name = "gcflags" => m < Len(fs) /\ fs[m + 1].kind = "value"
    BY <1>1 DEF Scan!Readable
  <1>3. n = 1 /\ fs[n].kind # "flag" => Bound(fs, n)
    BY <1>1, <1>2, FieldFacts, BoundFacts
  <1>4. ASSUME n < Len(fs)
        PROVE  /\ Scan!Detached(fs[n]) => ~Bound(fs, n + 1)
               /\ fs[n + 1].kind # "flag" /\ ~Bound(fs, n + 1) =>
                    fs[n].kind = "flag" /\ Scan!Detached(fs[n]) /\ fs[n].name # "race"
               /\ Scan!IsFlagBoundary(fs[n]) => fs[n + 1].kind = "flag"
    <2>1. n + 1 \in 1..Len(fs) /\ n + 1 > 1 /\ (n + 1) - 1 = n
      BY <1>1, <1>4
    <2>2. /\ fs[n].kind \in {"flag", "value", "args", "terminator"}
          /\ fs[n + 1].kind \in {"flag", "value", "args", "terminator"}
      BY <2>1, FieldFacts
    <2>3. Bound(fs, n + 1) <=> Scan!IsFlagBoundary(fs[n + 1]) /\ ~Scan!Detached(fs[n])
      BY <2>1 DEF Bound, Scan!BoundaryConsumed
    <2>4. fs[n + 1].kind = "value" => Scan!MayTake(fs[n])
      BY <1>2, <2>1
    <2>5. Scan!IsFlagBoundary(fs[n + 1]) => fs[n].name # "race" /\ ~Scan!IsFlagBoundary(fs[n])
      BY <1>2, <2>1
    <2> QED
      BY <2>2, <2>3, <2>4, <2>5 DEF Scan!IsFlagBoundary, Scan!MayTake, Scan!Detached
  <1> QED BY <1>2, <1>3, <1>4

(* The arities for which every value is taken: the go command knows each   *)
(* flag, and a detached flag in front of what is no flag takes it.         *)
Takes(fs, n) == Scan!Detached(fs[n]) /\ n < Len(fs) /\ fs[n + 1].kind # "flag"
Taking(fs) ==
    [unknown |-> {},
     go |-> {n \in DOMAIN fs : fs[n].name \in {"x", "managed"} /\ Takes(fs, n)},
     binary |-> {n \in DOMAIN fs : fs[n].kind = "flag" /\ Takes(fs, n)},
     listing |-> FALSE]

LEMMA TakingIsArity == ASSUME NEW fs PROVE Taking(fs) \in Scan!Arity(fs)
  BY DEF Taking, Takes, Scan!Arity

LEMMA GoTakes ==
    ASSUME NEW fs, ListOf(fs), Scan!Readable(fs),
           NEW mode, GoModes(fs, Taking(fs), mode)
    PROVE  \A n \in 1..Len(fs) : ~Behind(fs, n) =>
             /\ mode[n] \in {"flags", "value"}
             /\ mode[n] = "value" <=> fs[n].kind # "flag" /\ ~Bound(fs, n)
  <1> DEFINE Fits(n) == /\ mode[n] \in {"flags", "value"}
                        /\ mode[n] = "value" <=> fs[n].kind # "flag" /\ ~Bound(fs, n)
             S == {n \in Nat : n \in 1..Len(fs) /\ ~Behind(fs, n) => Fits(n)}
  <1>1. Len(fs) \in Nat /\ DOMAIN fs = 1..Len(fs)
    BY FieldFacts
  <1>2. /\ Taking(fs).unknown = {} /\ Taking(fs).listing = FALSE
        /\ \A n \in 1..Len(fs) : n \in Taking(fs).go <=>
             fs[n].name \in {"x", "managed"} /\ Takes(fs, n)
    BY <1>1 DEF Taking
  <1>3. 1 \in S
    <2> SUFFICES ASSUME 1 \in 1..Len(fs) PROVE Fits(1)
      OBVIOUS
    <2>1. mode[1] = "flags"
      BY <1>1, <1>2 DEF GoModes
    <2> QED BY <2>1, ReadableFacts
  <1>4. ASSUME NEW n \in 1..Len(fs), n < Len(fs), Fits(n), ~Bound(fs, n) PROVE Fits(n + 1)
    <2>1. n + 1 \in 1..Len(fs)
      BY <1>1, <1>4
    <2>2. /\ fs[n].kind = "flag" <=> fs[n].name \in {"managed", "x", "race", "gcflags"}
          /\ fs[n].name = "gcflags" => ~fs[n].inline
      BY FieldFacts
    <2>3. CASE fs[n].kind = "flag"
      <3>1. mode[n] = "flags" /\ ~Scan!IsFlagBoundary(fs[n])
        BY <1>4, <2>3 DEF Scan!IsFlagBoundary
      <3>2. mode[n + 1] = IF fs[n].name = "gcflags" \/ n \in Taking(fs).go THEN "value" ELSE "flags"
        BY <1>2, <1>4, <2>3, <3>1 DEF GoModes
      <3>3. fs[n].name = "gcflags" => fs[n + 1].kind # "flag" /\ ~Bound(fs, n + 1)
        <4>1. fs[n].name = "gcflags" => fs[n + 1].kind = "value"
          BY ReadableFacts
        <4> QED BY <4>1, BoundFacts
      <3>4. n \in Taking(fs).go => fs[n + 1].kind # "flag" /\ ~Bound(fs, n + 1)
        BY <1>2, <1>4, ReadableFacts DEF Takes
      <3>5. fs[n + 1].kind # "flag" /\ ~Bound(fs, n + 1) =>
              fs[n].name = "gcflags" \/ n \in Taking(fs).go
        BY <1>2, <1>4, <2>2, <2>3, ReadableFacts DEF Takes
      <3> QED BY <3>2, <3>3, <3>4, <3>5
    <2>4. CASE fs[n].kind # "flag"
      <3>1. mode[n] = "value"
        BY <1>4, <2>4
      <3>2. mode[n + 1] = "flags"
        BY <1>4, <3>1 DEF GoModes
      <3>3. fs[n + 1].kind = "flag" \/ Bound(fs, n + 1)
        BY <1>4, <2>4, ReadableFacts
      <3> QED BY <3>2, <3>3
    <2> QED BY <2>3, <2>4
  <1>5. ASSUME NEW n \in 1..Len(fs), n \in S PROVE n + 1 \in S
    <2> SUFFICES ASSUME n + 1 \in 1..Len(fs), ~Behind(fs, n + 1) PROVE Fits(n + 1)
      OBVIOUS
    <2>1. n < Len(fs) /\ ~Behind(fs, n) /\ ~Bound(fs, n)
      BY <1>1 DEF Behind
    <2> HIDE DEF Fits
    <2> QED BY <1>4, <1>5, <2>1
  <1> HIDE DEF S
  <1>6. 1..Len(fs) \subseteq S
    BY <1>1, <1>3, <1>5, Reaches
  <1> QED BY <1>6 DEF S

(* Behind the -args at k, the test binary takes what the scan takes it to. *)
LEMMA BinaryTakes ==
    ASSUME NEW fs, ListOf(fs), Scan!Readable(fs),
           NEW mode, GoModes(fs, Taking(fs), mode), NEW go, GoParts(fs, Taking(fs), mode, go),
           NEW bin, BinaryModes(fs, Taking(fs), go, bin),
           NEW k \in 1..Len(fs), Bound(fs, k), ~Behind(fs, k), NEW last \in 1..Len(fs), k < last,
           \A n \in 1..(last - 1) : Bound(fs, n) => fs[n].kind = "args"
    PROVE  last \in go.raw /\ (fs[last].kind = "flag" => bin[last] = "flag")
  <1>1. Len(fs) \in Nat /\ DOMAIN fs = 1..Len(fs)
    BY FieldFacts
  <1>2. /\ Taking(fs).unknown = {}
        /\ \A n \in 1..Len(fs) : n \in Taking(fs).binary <=> fs[n].kind = "flag" /\ Takes(fs, n)
    BY <1>1 DEF Taking
  <1>3. fs[k].kind = "args" /\ Scan!IsFlagBoundary(fs[k]) /\ k + 1 \in 1..Len(fs) /\ k < Len(fs)
    BY <1>1 DEF Bound
  <1>4. mode[k] = "flags"
    BY GoTakes
  <1>5. \A n \in 1..Len(fs) : n > k => mode[n] = "rest"
    <2> DEFINE S == {n \in Nat : n \in 1..Len(fs) /\ n > k => mode[n] = "rest"}
    <2>1. 1 \in S
      OBVIOUS
    <2>2. ASSUME NEW n \in 1..Len(fs), n \in S PROVE n + 1 \in S
      <3> SUFFICES ASSUME n + 1 \in 1..Len(fs), n + 1 > k PROVE mode[n + 1] = "rest"
        OBVIOUS
      <3>1. n < Len(fs) /\ n >= k
        BY <1>1
      <3>2. CASE n > k
        <4>1. mode[n] = "rest"
          BY <2>2, <3>2
        <4> QED BY <3>1, <4>1 DEF GoModes
      <3>3. CASE n = k
        BY <1>3, <1>4, <3>1, <3>3 DEF GoModes
      <3> QED BY <3>1, <3>2, <3>3
    <2> HIDE DEF S
    <2>3. 1..Len(fs) \subseteq S
      BY <1>1, <2>1, <2>2, Reaches
    <2> QED BY <2>3 DEF S
  <1>6. \A n \in 1..Len(fs) : n > k => n \in go.raw
    BY <1>5 DEF GoParts
  <1>7. \A n \in 1..Len(fs) : n <= k =>
          n \notin go.raw /\ (n \in Scan!Handed(fs, go) => fs[n].kind = "flag")
    <2> SUFFICES ASSUME NEW n \in 1..Len(fs), n <= k
                 PROVE  n \notin go.raw /\ (n \in Scan!Handed(fs, go) => fs[n].kind = "flag")
      OBVIOUS
    <2>1. n \in Scan!Handed(fs, go) => n \in go.raw \/ (n \in go.read /\ fs[n].kind = "flag")
      BY DEF Scan!Handed, GoParts
    <2>2. n \notin go.raw
      <3>1. CASE n = k
        BY <1>3, <1>4, <3>1 DEF GoParts, IsRaw, Scan!Looking
      <3>2. CASE n < k
        <4>1. ~Behind(fs, n) /\ ~Bound(fs, n)
          BY <3>2 DEF Behind
        <4>2. mode[n] \in {"flags", "value"} /\ (mode[n] = "value" <=> fs[n].kind # "flag")
          BY <4>1, GoTakes
        <4> QED BY <1>2, <4>2 DEF GoParts, IsRaw, Scan!Looking
      <3> QED BY <3>1, <3>2
    <2> QED BY <2>1, <2>2
  <1>8. \A n \in 1..Len(fs) : n <= k + 1 => bin[n] = "flag"
    <2> DEFINE S == {n \in Nat : n \in 1..Len(fs) /\ n <= k + 1 => bin[n] = "flag"}
    <2>1. 1 \in S
      BY <1>1 DEF BinaryModes
    <2>2. ASSUME NEW n \in 1..Len(fs), n \in S PROVE n + 1 \in S
      <3> SUFFICES ASSUME n + 1 \in 1..Len(fs), n + 1 <= k + 1 PROVE bin[n + 1] = "flag"
        OBVIOUS
      <3>1. n < Len(fs) /\ n <= k /\ bin[n] = "flag"
        BY <1>1, <2>2
      <3>2. n \notin go.raw /\ (n \in Scan!Handed(fs, go) => fs[n].kind = "flag")
        BY <1>7, <3>1
      <3> QED BY <3>1, <3>2 DEF BinaryModes
    <2> HIDE DEF S
    <2>3. 1..Len(fs) \subseteq S
      BY <1>1, <2>1, <2>2, Reaches
    <2> QED BY <2>3 DEF S
  <1> DEFINE Fits(n) == /\ bin[n] \in {"flag", "value"}
                        /\ bin[n] = "value" <=> fs[n].kind # "flag" /\ ~Bound(fs, n)
             Run == {n \in Nat : n \in 1..Len(fs) /\ k < n /\ n <= last => Fits(n)}
  <1>9. Fits(k + 1)
    <2>1. bin[k + 1] = "flag"
      BY <1>3, <1>8
    <2>2. fs[k + 1].kind = "flag"
      BY <1>3, ReadableFacts
    <2> QED BY <2>1, <2>2
  <1>10. ASSUME NEW n \in 1..Len(fs), k < n, n < last, Fits(n) PROVE Fits(n + 1)
    <2>1. n < Len(fs) /\ n + 1 \in 1..Len(fs) /\ n \in 1..(last - 1)
      BY <1>1, <1>10
    <2>2. n \in go.raw /\ n \in Scan!Handed(fs, go)
      BY <1>6, <1>10 DEF Scan!Handed
    <2>3. CASE fs[n].kind = "flag"
      <3>1. bin[n] = "flag"
        BY <1>10, <2>3
      <3>2. bin[n + 1] = IF n \in Taking(fs).binary THEN "value" ELSE "flag"
        BY <2>1, <2>2, <2>3, <3>1 DEF BinaryModes
      <3>3. n \in Taking(fs).binary <=> fs[n + 1].kind # "flag" /\ ~Bound(fs, n + 1)
        BY <1>2, <2>1, <2>3, ReadableFacts DEF Takes
      <3> QED BY <3>2, <3>3
    <2>4. CASE fs[n].kind # "flag" /\ ~Bound(fs, n)
      <3>1. bin[n] = "value"
        BY <1>10, <2>4
      <3>2. bin[n + 1] = "flag"
        BY <2>1, <2>2, <3>1 DEF BinaryModes
      <3>3. fs[n + 1].kind = "flag" \/ Bound(fs, n + 1)
        BY <2>1, <2>4, ReadableFacts
      <3> QED BY <3>2, <3>3
    <2>5. CASE fs[n].kind # "flag" /\ Bound(fs, n)
      <3>1. bin[n] = "flag" /\ fs[n].kind = "args" /\ Scan!IsFlagBoundary(fs[n])
        BY <1>10, <2>1, <2>5 DEF Bound
      <3>2. n \notin Taking(fs).binary
        BY <1>2, <2>5
      <3>3. bin[n + 1] = "flag"
        BY <2>1, <2>2, <3>1, <3>2 DEF BinaryModes
      <3>4. fs[n + 1].kind = "flag"
        BY <2>1, <3>1, ReadableFacts
      <3> QED BY <3>3, <3>4
    <2> QED BY <2>3, <2>4, <2>5
  <1>11. 1 \in Run
    OBVIOUS
  <1>12. ASSUME NEW n \in 1..Len(fs), n \in Run PROVE n + 1 \in Run
    <2> HIDE DEF Fits
    <2> SUFFICES ASSUME n + 1 \in 1..Len(fs), k < n + 1, n + 1 <= last PROVE Fits(n + 1)
      OBVIOUS
    <2>1. CASE n = k
      BY <1>9, <2>1
    <2>2. CASE n # k
      <3>1. k < n /\ n < last
        BY <2>2
      <3> QED BY <1>10, <1>12, <3>1
    <2> QED BY <2>1, <2>2
  <1>13. Fits(last)
    <2> HIDE DEF Run
    <2>1. 1..Len(fs) \subseteq Run
      BY <1>1, <1>11, <1>12, Reaches
    <2> QED BY <2>1 DEF Run
  <1> QED BY <1>6, <1>13

LEMMA CouldOverride ==
    ASSUME NEW fs, ListOf(fs), Scan!Readable(fs), NEW n \in 1..Len(fs),
           Scan!Managed(fs[n]), Behind(fs, n) => fs[n].test,
           \A m \in 1..(n - 1) : Bound(fs, m) => fs[m].kind = "args"
    PROVE  \E ar \in Scan!Arity(fs) : n \in Scan!Overrides(fs, ar)
  <1> DEFINE ar == Taking(fs)
             mode == Scan!GoMode(fs, ar)
             go == Scan!GoCommand(fs, ar)
             bin == Scan!BinaryMode(fs, ar, go)
  <1>1. Len(fs) \in Nat /\ ar.unknown = {} /\ fs[n].kind = "flag" /\ fs[n].name = "managed"
    BY FieldFacts DEF Taking, Scan!Managed
  <1>2. GoParts(fs, ar, mode, go) /\ GoModes(fs, ar, mode) /\ BinaryModes(fs, ar, go, bin)
    BY GoCommandParts, GoModesHold, BinaryModesHold
  <1>3. Scan!Overrides(fs, ar) =
          {m \in go.read : fs[m].name = "managed"}
          \cup {m \in Scan!Binary(fs, ar, go) : fs[m].name = "managed" /\ fs[m].test}
    BY DEF Scan!Overrides
  <1>4. Scan!Binary(fs, ar, go) =
          {m \in Scan!Handed(fs, go) :
             bin[m] = "flag" /\ fs[m].kind \notin {"value", "terminator"}}
    BY DEF Scan!Binary
  <1>5. ar \in Scan!Arity(fs)
    BY TakingIsArity
  <1> SUFFICES n \in Scan!Overrides(fs, ar)
    BY <1>5
  <1>6. CASE ~Behind(fs, n)
    <2> HIDE DEF mode, go, bin
    <2>1. mode[n] = "flags"
      BY <1>1, <1>2, <1>6, GoTakes
    <2>2. n \in go.read
      BY <1>1, <1>2, <2>1 DEF GoParts, Scan!Looking
    <2> QED BY <1>1, <1>3, <2>2
  <1>7. CASE Behind(fs, n)
    <2> DEFINE Ends == {m \in Nat : m \in 1..(n - 1) /\ Bound(fs, m)}
    <2>1. Ends # {} /\ Ends \in SUBSET Nat
      BY <1>7 DEF Behind
    <2>2. PICK k \in Ends : \A m \in Ends : k <= m
      <3> HIDE DEF Ends
      <3> QED BY <2>1, LeastNat
    <2>3. k \in 1..Len(fs) /\ k < n /\ Bound(fs, k) /\ ~Behind(fs, k)
      BY <1>1, <2>2 DEF Behind
    <2> HIDE DEF mode, go, bin
    <2>4. n \in go.raw /\ bin[n] = "flag"
      BY <1>1, <1>2, <2>3, BinaryTakes
    <2>5. n \in Scan!Binary(fs, ar, go)
      BY <1>1, <1>4, <2>4 DEF Scan!Handed
    <2> QED BY <1>1, <1>3, <1>7, <2>5
  <1> QED BY <1>6, <1>7

(* The scan: what it has let through, and whether it is behind -args.      *)
ScanIInv ==
    /\ Scan!TypeOK
    /\ afterArgs <=> Behind(fields, i)
    /\ Passed(fields, i)
    /\ verdict = "accepted" /\ i <= Len(fields) =>
         Bound(fields, i) /\ fields[i].kind = "terminator"
    /\ verdict = "rejected" => i <= Len(fields) /\ Scan!Refused(i)

LEMMA ScanInit == Scan!Init => ScanIInv
  <1> SUFFICES ASSUME Scan!Init PROVE ScanIInv
    OBVIOUS
  <1> USE DEF Scan!Init
  <1>1. PICK m \in 0..MaxFields : fields \in [1..m -> Scan!Fields]
    BY DEF Scan!SeqOf
  <1>2. m \in Nat /\ MaxFields \in Nat /\ m <= MaxFields
    BY SequentialAssumption DEF Scan!MaxFieldsAssumption
  <1>3. fields \in Seq(Scan!Fields) /\ Len(fields) = m
    BY <1>1, <1>2, SeqDef, LenProperties
  <1>4. Len(fields) \in Nat /\ 1 \in 1..(Len(fields) + 1)
    BY <1>2, <1>3
  <1>5. Scan!TypeOK
    BY <1>2, <1>3, <1>4 DEF Scan!TypeOK
  <1> QED BY <1>5 DEF ScanIInv, Behind, Passed

LEMMA ScanStepKeeps == ScanIInv /\ [Scan!Next]_(Scan!vars) => ScanIInv'
  <1> SUFFICES ASSUME ScanIInv, [Scan!Next]_(Scan!vars) PROVE ScanIInv'
    OBVIOUS
  <1> USE DEF ScanIInv
  <1>1. ListOf(fields) /\ Len(fields) \in Nat /\ i \in 1..(Len(fields) + 1)
    BY LenProperties DEF ListOf, Scan!TypeOK
  <1>2. \A n : Scan!Boundary(n) <=> Bound(fields, n)
    BY DEF Scan!Boundary, Bound
  <1>3. CASE Scan!Terminator
    BY <1>2, <1>3 DEF Scan!Terminator, Scan!Scanning, Scan!TypeOK
  <1>4. CASE Scan!Args
    <2>1. /\ i \in 1..Len(fields) /\ i' = i + 1 /\ afterArgs' = TRUE
          /\ UNCHANGED <<fields, verdict>> /\ verdict = "scanning"
          /\ Bound(fields, i) /\ fields[i].kind = "args"
      BY <1>1, <1>2, <1>4 DEF Scan!Args, Scan!Scanning
    <2>2. Behind(fields, i + 1)
      BY <2>1 DEF Behind
    <2>3. Passed(fields, i + 1)
      BY <2>1 DEF Passed
    <2>4. Scan!TypeOK'
      BY <1>1, <2>1 DEF Scan!TypeOK
    <2> QED BY <2>1, <2>2, <2>3, <2>4
  <1>5. CASE Scan!Pass
    <2>1. /\ i \in 1..Len(fields) /\ i' = i + 1
          /\ UNCHANGED <<fields, afterArgs, verdict>> /\ verdict = "scanning"
          /\ ~Bound(fields, i) /\ ~Scan!Refused(i)
      BY <1>1, <1>2, <1>5 DEF Scan!Pass, Scan!Scanning
    <2>2. Behind(fields, i + 1) <=> Behind(fields, i)
      BY <2>1 DEF Behind
    <2>3. ~(Scan!Managed(fields[i]) /\ (Behind(fields, i) => fields[i].test))
      BY <2>1 DEF Scan!Refused
    <2>4. Passed(fields, i + 1)
      BY <2>1, <2>3 DEF Passed
    <2>5. Scan!TypeOK'
      BY <1>1, <2>1 DEF Scan!TypeOK
    <2> QED BY <2>1, <2>2, <2>4, <2>5
  <1>6. CASE Scan!Refuse
    <2>1. /\ i <= Len(fields) /\ UNCHANGED <<fields, i, afterArgs>> /\ verdict' = "rejected"
          /\ Scan!Refused(i)
      BY <1>6 DEF Scan!Refuse, Scan!Scanning
    <2>2. Scan!Refused(i)' /\ Scan!TypeOK'
      BY <2>1 DEF Scan!Refused, Scan!TypeOK
    <2> QED BY <2>1, <2>2
  <1>7. CASE Scan!Accept
    <2>1. ~(i <= Len(fields)) /\ UNCHANGED <<fields, i, afterArgs>> /\ verdict' = "accepted"
      BY <1>1, <1>7 DEF Scan!Accept
    <2> QED BY <2>1 DEF Scan!TypeOK
  <1>8. CASE Scan!Done \/ UNCHANGED Scan!vars
    <2>1. UNCHANGED <<fields, i, afterArgs, verdict>>
      BY <1>8 DEF Scan!Done, Scan!vars
    <2> QED BY <2>1 DEF Scan!TypeOK, Scan!Refused
  <1> QED BY <1>3, <1>4, <1>5, <1>6, <1>7, <1>8 DEF Scan!Next

LEMMA ScanResult == ScanIInv => Scan!ScanInv
  <1> SUFFICES ASSUME ScanIInv PROVE Scan!ScanInv
    OBVIOUS
  <1> USE DEF ScanIInv
  <1>1. ListOf(fields) /\ Len(fields) \in Nat /\ i \in 1..(Len(fields) + 1)
    BY LenProperties DEF ListOf, Scan!TypeOK
  <1>2. Scan!WithoutGapOverridesNothing
    BY <1>1, NothingOverridden DEF Scan!WithoutGapOverridesNothing
  <1>3. Scan!RefusedCouldOverride
    <2> SUFFICES ASSUME verdict = "rejected", Scan!Readable(fields)
                 PROVE  \E ar \in Scan!Arity(fields) : i \in Scan!Overrides(fields, ar)
      BY DEF Scan!RefusedCouldOverride
    <2>1. i \in 1..Len(fields) /\ Scan!Managed(fields[i])
          /\ (Behind(fields, i) => fields[i].test)
      BY <1>1 DEF Scan!Refused
    <2> QED BY <1>1, <2>1, CouldOverride DEF Passed
  <1>4. Scan!InlineFlagsBuildAlike
    BY <1>1, BuiltAlike DEF Scan!InlineFlagsBuildAlike
  <1> QED BY <1>2, <1>3, <1>4 DEF Scan!ScanInv

-----------------------------------------------------------------------------
(* MCSequential: the part that runs keeps its invariant.                   *)
Parts ==
    /\ part = "outcome" => OutcomeIInv
    /\ part = "scan" => ScanIInv
    /\ part = "config" => ConfigIInv
    /\ part = "ids" => IdsIInv
    /\ part = "found" => FoundIInv
    /\ part = "closure" => ClosureIInv
    /\ part # "closure" => pc = "idle"

LEMMA ClosureStepKeeps == ClosureIInv /\ [Next]_vars => ClosureIInv'
  BY SeedStep, DequeueStep, LookStep, OtherStep DEF Next, Done

LEMMA PartsInit == PartInit => Parts
  <1> SUFFICES ASSUME PartInit PROVE Parts
    OBVIOUS
  <1>1. /\ part = "outcome" => Outcome!Init
        /\ part = "scan" => Scan!Init
        /\ part = "config" => Config!Init
        /\ part = "ids" => Asked!Init
        /\ part = "found" => Found!Init
        /\ part = "closure" => Init
        /\ part # "closure" => pc = "idle"
    BY DEF PartInit, ClosureIdle
  <1> QED BY <1>1, OutcomeInit, ScanInit, ConfigInit, IdsInit, FoundInit, ClosureInit DEF Parts

LEMMA PartsStep == Parts /\ [PartNext]_all => Parts'
  <1> SUFFICES ASSUME Parts, [PartNext]_all PROVE Parts'
    OBVIOUS
  <1>1. CASE OutcomeStep(Outcome!Next)
    <2>1. part = "outcome" /\ part' = part /\ pc' = pc /\ Outcome!Next
      BY <1>1 DEF OutcomeStep, closure
    <2>2. OutcomeIInv'
      BY <2>1, OutcomeStepKeeps DEF Parts
    <2> QED BY <2>1, <2>2 DEF Parts
  <1>2. CASE ScanStep(Scan!Next)
    <2>1. part = "scan" /\ part' = part /\ pc' = pc /\ Scan!Next
      BY <1>2 DEF ScanStep, closure
    <2>2. ScanIInv'
      BY <2>1, ScanStepKeeps DEF Parts
    <2> QED BY <2>1, <2>2 DEF Parts
  <1>3. CASE ConfigStep(Config!Next)
    <2>1. part = "config" /\ part' = part /\ pc' = pc /\ Config!Next
      BY <1>3 DEF ConfigStep, closure
    <2>2. ConfigIInv'
      BY <2>1, ConfigStepKeeps DEF Parts
    <2> QED BY <2>1, <2>2 DEF Parts
  <1>4. CASE IdsStep(Asked!Next)
    <2>1. part = "ids" /\ part' = part /\ pc' = pc /\ Asked!Next
      BY <1>4 DEF IdsStep, closure
    <2>2. IdsIInv'
      BY <2>1, IdsStepKeeps DEF Parts
    <2> QED BY <2>1, <2>2 DEF Parts
  <1>5. CASE FoundStep(Found!Next)
    <2>1. part = "found" /\ part' = part /\ pc' = pc /\ Found!Next
      BY <1>5 DEF FoundStep, closure
    <2>2. FoundIInv'
      BY <2>1, FoundStepKeeps DEF Parts
    <2> QED BY <2>1, <2>2 DEF Parts
  <1>6. CASE ClosureStep(Next)
    <2>1. part = "closure" /\ part' = part /\ Next
      BY <1>6 DEF ClosureStep
    <2>2. ClosureIInv'
      BY <2>1, ClosureStepKeeps DEF Parts
    <2> QED BY <2>1, <2>2 DEF Parts
  <1>7. CASE UNCHANGED all
    <2>1. /\ part' = part /\ pc' = pc
          /\ UNCHANGED Outcome!vars /\ UNCHANGED Scan!vars
          /\ UNCHANGED Config!vars /\ UNCHANGED Asked!vars
          /\ UNCHANGED Found!vars /\ UNCHANGED vars
      BY <1>7 DEF all, outcome, scan, config, ids, found, closure,
                  Outcome!vars, Scan!vars, Config!vars, Asked!vars, Found!vars, vars
    <2>2. /\ OutcomeIInv => OutcomeIInv'
          /\ ScanIInv => ScanIInv'
          /\ ConfigIInv => ConfigIInv'
          /\ IdsIInv => IdsIInv'
          /\ FoundIInv => FoundIInv'
          /\ ClosureIInv => ClosureIInv'
      BY <2>1, OutcomeStepKeeps, ScanStepKeeps, ConfigStepKeeps, IdsStepKeeps, FoundStepKeeps,
         ClosureStepKeeps
    <2> QED BY <2>1, <2>2 DEF Parts
  <1> QED BY <1>1, <1>2, <1>3, <1>4, <1>5, <1>6, <1>7 DEF PartNext

LEMMA PartsHold == PartSpec => []Parts
  BY PartsInit, PartsStep, PTL DEF PartSpec

(* VerdictFitsCause (worker.go:197): whatever the end of a process and     *)
(* whatever raced with it, a verdict that was reached is one of those the  *)
(* cause allows.                                                           *)
THEOREM VerdictFitsCauseHolds ==
    /\ Outcome!Spec => []Outcome!VerdictFitsCause
    /\ PartSpec => []VerdictFitsCause
  <1>1. Outcome!Spec => []Outcome!VerdictFitsCause
    BY OutcomeInit, OutcomeStepKeeps, OutcomeResult, PTL DEF Outcome!Spec
  <1>2. Parts => VerdictFitsCause
    BY OutcomeResult DEF Parts, VerdictFitsCause
  <1>3. PartSpec => []VerdictFitsCause
    BY <1>2, PartsHold, PTL
  <1> QED BY <1>1, <1>3

(* ScanInv (main.go:430, testmap.go:725): for any list of fields, and      *)
(* whichever flags the parsers downstream know and take to have a value,   *)
(* the scan and the picking of build flags agree with how they read it.    *)
THEOREM ScanInvHolds ==
    /\ Scan!Spec => []Scan!ScanInv
    /\ PartSpec => []ScanInv
  <1>1. Scan!Spec => []Scan!ScanInv
    BY ScanInit, ScanStepKeeps, ScanResult, PTL DEF Scan!Spec
  <1>2. Parts => ScanInv
    BY ScanResult DEF Parts, ScanInv
  <1>3. PartSpec => []ScanInv
    BY <1>2, PartsHold, PTL
  <1> QED BY <1>1, <1>3

(* SettingsInv (config.go, flags.go): for any settings of a file and of    *)
(* the command line, what a run goes by is what its checks let through.    *)
THEOREM SettingsInvHolds ==
    /\ Config!Spec => []Config!SettingsInv
    /\ PartSpec => []SettingsInv
  <1>1. Config!Spec => []Config!SettingsInv
    BY ConfigInit, ConfigStepKeeps, ConfigResult, PTL DEF Config!Spec
  <1>2. Parts => SettingsInv
    BY ConfigResult DEF Parts, SettingsInv
  <1>3. PartSpec => []SettingsInv
    BY <1>2, PartsHold, PTL
  <1> QED BY <1>1, <1>3

(* TargetInv (stableid.go:128): for any files, whose paths and names have  *)
(* no colon, ids are unique, an id copied whole names its own mutant, and  *)
(* parsing only the files an id could name changes no answer.              *)
THEOREM TargetInvHolds ==
    /\ Asked!Spec => []Asked!TargetInv
    /\ PartSpec => []TargetInv
  <1>1. Asked!Spec => []Asked!TargetInv
    BY IdsInit, IdsStepKeeps, IdsResult, PTL DEF Asked!Spec
  <1>2. Parts => TargetInv
    BY IdsResult DEF Parts, TargetInv
  <1>3. PartSpec => []TargetInv
    BY <1>2, PartsHold, PTL
  <1> QED BY <1>1, <1>3

(* MeasuresTheOneAsked (pipeline.go:265): for any files and any edit       *)
(* between the two checks, the mutant measured is the one the id named     *)
(* when it was accepted, and without an edit none that was accepted fails. *)
THEOREM MeasuresTheOneAskedHolds ==
    /\ Asked!Spec => []Asked!MeasuresTheOneAsked
    /\ PartSpec => []MeasuresTheOneAsked
  <1>1. Asked!Spec => []Asked!MeasuresTheOneAsked
    BY IdsInit, IdsStepKeeps, IdsResult, PTL DEF Asked!Spec
  <1>2. Parts => MeasuresTheOneAsked
    BY IdsResult DEF Parts, MeasuresTheOneAsked
  <1>3. PartSpec => []MeasuresTheOneAsked
    BY <1>2, PartsHold, PTL
  <1> QED BY <1>1, <1>3

LEMMA PartsStay == Parts /\ [PartNext]_all => [IdsStay]_src
  <1> SUFFICES ASSUME Parts, [PartNext]_all, src' # src PROVE IdsStay
    OBVIOUS
  <1>1. IdsStep(Asked!Next)
    BY DEF PartNext, OutcomeStep, ScanStep, ConfigStep, FoundStep, ClosureStep, all, ids
  <1> QED BY <1>1, IdsStepStays DEF IdsStep, Parts

(* EditsElsewhereKeepIds (README.md:881): for any files and any edit, the  *)
(* points of a function keep their ids when its body stays as it was and   *)
(* as many of its name come before it.                                     *)
THEOREM EditsElsewhereKeepIdsHolds ==
    /\ Asked!Spec => Asked!EditsElsewhereKeepIds
    /\ PartSpec => EditsElsewhereKeepIds
  <1>1. Asked!Spec => [][IdsStay]_src
    <2>1. IdsIInv /\ [Asked!Next]_(Asked!vars) => [IdsStay]_src
      BY IdsStepStays
    <2> QED BY <2>1, IdsInit, IdsStepKeeps, PTL DEF Asked!Spec
  <1>2. PartSpec => [][IdsStay]_src
    BY PartsHold, PartsStay, PTL DEF PartSpec
  <1> QED BY <1>1, <1>2 DEF EditsElsewhereKeepIds, Asked!EditsElsewhereKeepIds, IdsStay

(* FiltersInv (pipeline.go:503): for files of any length, with any         *)
(* directives, changes, calls and profile, each mutant found is kept,      *)
(* suppressed or outside what was asked for, by the rules of each filter.  *)
THEOREM FiltersInvHolds ==
    /\ Found!Spec => []Found!FiltersInv
    /\ PartSpec => []FiltersInv
  <1>1. Found!Spec => []Found!FiltersInv
    BY FoundInit, FoundStepKeeps, FoundResult, PTL DEF Found!Spec
  <1>2. Parts => FiltersInv
    BY FoundResult DEF Parts, FiltersInv
  <1>3. PartSpec => []FiltersInv
    BY <1>2, PartsHold, PTL
  <1> QED BY <1>1, <1>3

(* NotCoveredNeverRan (filter.go:14): for any file and profile, no test    *)
(* executed the place of a mutant that is reported as not covered.         *)
THEOREM NotCoveredNeverRanHolds ==
    /\ Found!Spec => []Found!NotCoveredNeverRan
    /\ PartSpec => []NotCoveredNeverRan
  <1>1. Found!Spec => []Found!NotCoveredNeverRan
    BY FoundInit, FoundStepKeeps, FoundCoverage, PTL DEF Found!Spec
  <1>2. Parts => NotCoveredNeverRan
    BY FoundCoverage DEF Parts, NotCoveredNeverRan
  <1>3. PartSpec => []NotCoveredNeverRan
    BY <1>2, PartsHold, PTL
  <1> QED BY <1>1, <1>3

(* A search that is idle has returned nothing.                             *)
LEMMA IdleSearch == pc = "idle" => NothingElse /\ KillersAreRun
  BY DEF NothingElse, KillersAreRun, Searched, Returned

LEMMA ClosureInvariance == Spec => []ClosureIInv
  BY ClosureInit, ClosureStepKeeps, PTL DEF Spec

(* ClosedUnderImporters (revdeps.go:93) for any graph: the frontier is     *)
(* empty when the search returns.                                          *)
THEOREM ClosedUnderImportersHolds == Spec => []ClosedUnderImporters
  BY ClosureInvariance, ClosedFromInv, PTL

(* NothingElse (revdeps.go:94) for any graph: what was visited is in every *)
(* set that is closed under importers.                                     *)
THEOREM NothingElseHolds ==
    /\ Spec => []NothingElse
    /\ PartSpec => []NothingElse
  <1>1. Spec => []NothingElse
    BY ClosureInvariance, NothingElseFromInv, PTL
  <1>2. Parts => NothingElse
    BY NothingElseFromInv, IdleSearch DEF Parts
  <1>3. PartSpec => []NothingElse
    BY <1>2, PartsHold, PTL
  <1> QED BY <1>1, <1>3

(* KillersAreRun (revdeps.go:18) for any graph in which nothing outside    *)
(* the module imports it.                                                  *)
THEOREM KillersAreRunHolds ==
    /\ Spec => []KillersAreRun
    /\ PartSpec => []KillersAreRun
  <1>1. Spec => []KillersAreRun
    BY ClosureInvariance, KillersFromInv, PTL
  <1>2. Parts => KillersAreRun
    BY KillersFromInv, IdleSearch DEF Parts
  <1>3. PartSpec => []KillersAreRun
    BY <1>2, PartsHold, PTL
  <1> QED BY <1>1, <1>3
=============================================================================
