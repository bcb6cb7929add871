------------------------------ MODULE Settings ------------------------------
(***************************************************************************)
(* How a run gets its settings: parseFlags screens the command line,       *)
(* config.Load reads the file over the defaults, ApplyFlags lays the flags *)
(* over both, ResolveCache and loadConfig's checks follow, and             *)
(* timeoutPolicyFor sizes the deadlines.  A flag whose value ApplyFlags    *)
(* cannot tell from an absent one is dropped, and each kind of setting     *)
(* draws that line elsewhere.                                              *)
(*                                                                         *)
(* A setting is given as <<v>>, or not given: <<>>.  Values are numbers    *)
(* throughout: a toggle is No or Yes, a text is Blank, Text or the cache's *)
(* OffWord.                                                                *)
(***************************************************************************)
EXTENDS Integers, Sequences

No == 0
Yes == 1
Blank == 0
Text == 1
OffWord == 2

Counts == {"workers", "coefficient"}
Scaled == {"margin", "min"}
Toggles == {"dryRun", "quiet", "verbose", "integration"}
ThreeState == {"adaptive", "detect", "callsDefaults"}
Texts == {"coverpkg", "testFlags", "cache", "id"}
Settings ==
    Counts \cup Scaled \cup Toggles \cup ThreeState \cup Texts
      \cup {"testCPU", "checkpoint"}

CONSTANTS Focus,    \* the sets of settings that are given values together
          Numbers,  \* the numbers given, some of them senseless
          Baseline  \* the measured duration of the suites

SettingsAssumption ==
    /\ Focus \subseteq SUBSET Settings
    /\ Numbers \subseteq Int
    /\ Baseline \in Nat \ {0}

VARIABLES
    stage,  \* "start", "parsed", "loaded", "merged", "checked", "running",
            \* or "usage" after a usage error
    file,   \* what .gomutants.yml gives
    flags,  \* what the command line gives
    cfg,    \* config.Config
    policy  \* runner.TimeoutPolicy

vars == <<stage, file, flags, cfg, policy>>

Values(s) ==
    IF s \in Toggles \cup ThreeState THEN {No, Yes}
    ELSE IF s = "cache" THEN {Blank, Text, OffWord}
    ELSE IF s \in Texts THEN {Blank, Text}
    ELSE Numbers
Optional(s) == {<<>>} \cup {<<v>> : v \in Values(s)}

(* NumCPU workers is at least 1, and so are the other defaults.            *)
Default ==
    [s \in Settings |->
        IF s \in Counts \cup Scaled \cup {"checkpoint"} THEN 1
        ELSE IF s \in {"adaptive", "callsDefaults"} THEN Yes
        ELSE 0]

NoPolicy == [global |-> 0, min |-> 0, adaptive |-> FALSE]

(* What a setting may be once the file is read; a negative count is not    *)
(* turned away.                                                            *)
Legal(s) ==
    IF s \in Counts THEN Int \ {0}
    ELSE IF s \in Scaled THEN Nat \ {0}
    ELSE IF s = "checkpoint" THEN Nat
    ELSE IF s = "testCPU" THEN Int
    ELSE Values(s)

TypeOK ==
    /\ stage \in {"start", "parsed", "loaded", "merged", "checked", "running", "usage"}
    /\ \A s \in Settings : file[s] \in Optional(s) /\ flags[s] \in Optional(s)
    /\ \A s \in Settings : cfg[s] \in Legal(s)
    /\ policy \in [global : Int, min : Int, adaptive : BOOLEAN]

Choices(varied) ==
    {f \in [varied -> UNION {Optional(s) : s \in varied}] :
        \A s \in varied : f[s] \in Optional(s)}
Given(f) == [s \in Settings |-> IF s \in DOMAIN f THEN f[s] ELSE <<>>]

(* The file has no key for the mutant's id.                                *)
Init ==
    /\ stage = "start" /\ cfg = Default /\ policy = NoPolicy
    /\ \E varied \in Focus :
         /\ file \in {Given(f) : f \in Choices(varied \ {"id"})}
         /\ flags \in {Given(f) : f \in Choices(varied)}

---------------------------------------------------------------------------
Has(given, s, v) == given[s] = <<v>>

(* parseFlags: what is refused whatever the file says.                     *)
Misused ==
    \/ flags["testCPU"] # <<>> /\ flags["testCPU"][1] < 0
    \/ flags["checkpoint"] # <<>> /\ flags["checkpoint"][1] < 0
    \/ Has(flags, "quiet", Yes) /\ Has(flags, "verbose", Yes)

ParseFlags ==
    /\ stage = "start"
    /\ stage' = IF Misused THEN "usage" ELSE "parsed"
    /\ UNCHANGED <<file, flags, cfg, policy>>

\* Faulty: only zero reverts to the default.
FaultyKeptFromFile(s, v) == s \in Counts \cup Scaled => v # 0

(* Load: what the file gives stands, unless it has no sense for its kind.  *)
KeptFromFile(s, v) ==
    /\ s \in Counts => v # 0
    /\ s \in Scaled => v > 0
    /\ s = "checkpoint" => v >= 0

Load ==
    /\ stage = "parsed" /\ stage' = "loaded"
    /\ cfg' = [s \in Settings |->
                 IF file[s] # <<>> /\ KeptFromFile(s, file[s][1])
                 THEN file[s][1] ELSE Default[s]]
    /\ UNCHANGED <<file, flags, policy>>

\* Faulty: no setting has a Set bit.
FaultyKeptFromFlags(s, v) == v > 0

(* ApplyFlags: a number above 0, a toggle that is set, a text that is not  *)
(* blank, and what has a Set bit.                                          *)
KeptFromFlags(s, v) ==
    s \notin ThreeState \cup {"checkpoint"} => v > 0

ApplyFlags ==
    /\ stage = "loaded" /\ stage' = "merged"
    /\ LET merged == [s \in Settings |->
                        IF flags[s] # <<>> /\ KeptFromFlags(s, flags[s][1])
                        THEN flags[s][1] ELSE cfg[s]]
       IN  \* ResolveCache: a blank path is the default one, "off" is none.
           cfg' = [merged EXCEPT !["cache"] = IF @ = OffWord THEN Blank ELSE Text]
    /\ UNCHANGED <<file, flags, policy>>

\* Faulty: the checks look at the command line only.
FaultyConflicts ==
    \/ Has(flags, "integration", Yes) /\ Has(flags, "coverpkg", Text)
    \/ Has(flags, "id", Text) /\ Has(flags, "dryRun", Yes)

Conflicts ==
    \/ cfg["integration"] = Yes /\ cfg["coverpkg"] = Text
    \/ cfg["id"] = Text /\ cfg["dryRun"] = Yes

Check ==
    /\ stage = "merged"
    /\ stage' = IF Conflicts THEN "usage" ELSE "checked"
    /\ UNCHANGED <<file, flags, cfg, policy>>

\* Faulty: the floor raises no ceiling.
FaultyCeiling(global, floor) == global

Ceiling(global, floor) == IF global > floor THEN global ELSE floor

(* measureBaseline and timeoutPolicyFor.                                   *)
TimeoutPolicyFor ==
    LET global == Baseline * cfg["coefficient"]
        adaptive == cfg["adaptive"] = Yes
    IN [global |-> IF adaptive THEN Ceiling(global, cfg["min"]) ELSE global,
        min |-> cfg["min"], adaptive |-> adaptive]

Run ==
    /\ stage = "checked" /\ stage' = "running"
    /\ policy' = TimeoutPolicyFor
    /\ UNCHANGED <<file, flags, cfg>>

Done == stage \in {"running", "usage"} /\ UNCHANGED vars

Next == ParseFlags \/ Load \/ ApplyFlags \/ Check \/ Run \/ Done

Spec == Init /\ [][Next]_vars

---------------------------------------------------------------------------
Running == stage = "running"

(* timeout.go:66, main.go:401: with adaptive sizing every mutant gets at   *)
(* least the floor, and the floor is a duration above 0: whatever numbers  *)
(* the file and the flags give, the clamps of TimeoutPolicy.For leave      *)
(* room, as the ceiling is never below the floor.                          *)
AdaptiveDeadlinesAreFloored ==
    Running /\ policy.adaptive => 0 < policy.min /\ policy.min <= policy.global

(* flags.go:197: a run asked about one mutant by its id tests it, so its   *)
(* exit code is a verdict, though dry-run may come from the file; and in   *)
(* integration mode nothing but the run sets -coverpkg, whichever of the   *)
(* two sources each came from.                                             *)
NoSilentConflict ==
    Running =>
        /\ cfg["id"] = Text => cfg["dryRun"] = No
        /\ cfg["integration"] = Yes => cfg["coverpkg"] = Blank

(* README.md:44, README.md:567: the command line overrides the file for    *)
(* one run, where a value given there can be told from none: for any       *)
(* toggle that is switched on, and in either sense for the settings that   *)
(* have a Set bit.                                                         *)
SetFlagsOverride ==
    Running =>
        /\ \A s \in ThreeState \cup {"checkpoint"} :
              flags[s] # <<>> => cfg[s] = flags[s][1]
        /\ \A s \in Toggles : Has(flags, s, Yes) => cfg[s] = Yes
        /\ flags["cache"] = <<OffWord>> => cfg["cache"] = Blank

(* config.go, flags.go: what a run runs with follows from the two sources  *)
(* it was given, whichever setting came from which.                        *)
SettingsInv == TypeOK /\ AdaptiveDeadlinesAreFloored /\ NoSilentConflict /\ SetFlagsOverride
=============================================================================
