------------------------------ MODULE RssProbe ------------------------------
(***************************************************************************)
(* internal/runner/worker_unix.go: pgroupRSSBytes and resetRSSProbe, the   *)
(* health of the memory probe.  The monitors of all workers count failed   *)
(* polls in a row in one atomic counter and keep one atomic flag, "down",  *)
(* with no lock around the two; whoever flips the flag prints a line.      *)
(* What a poll reads, and when, is module RssCap.                          *)
(*                                                                         *)
(* Only whether the counter has reached OutageAfter matters, so it stops   *)
(* there (the code's goes on).                                             *)
(***************************************************************************)
EXTENDS Integers, FiniteSets

CONSTANTS Monitors,     \* the goroutines polling at the same time
          OutageAfter,  \* rssProbeOutageAfter
          Runs          \* how often Pool.Run is called in the process

ProbeAssumption ==
    IsFiniteSet(Monitors) /\ OutageAfter \in Nat \ {0} /\ Runs \in Nat

VARIABLES
    works,   \* a scan succeeds and shows the groups that are alive
    at,      \* where each monitor is in pgroupRSSBytes
    fails,   \* rssProbe.fails
    down,    \* rssProbe.down
    runs,    \* how many calls of Pool.Run were made
    lines    \* the "off" lines printed in this run less its "on" lines

vars == <<works, at, fails, down, runs, lines>>

TypeOK ==
    /\ works \in BOOLEAN
    /\ at \in [Monitors -> {"tick", "read", "unread", "up?", "down?", "on", "off"}]
    /\ fails \in 0..OutageAfter
    /\ down \in BOOLEAN
    /\ runs \in 0..Runs
    /\ lines \in -Cardinality(Monitors)..Cardinality(Monitors)

Init ==
    /\ works \in BOOLEAN
    /\ at = [m \in Monitors |-> "tick"]
    /\ fails = 0 /\ down = FALSE
    /\ runs = 0
    /\ lines = 0

Go(m, from, to) == at[m] = from /\ at' = [at EXCEPT ![m] = to]

(* groupRSSFunc returns: a reading, or an error of a probe that failed or  *)
(* does not see a group that is alive.                                     *)
Read(m) ==
    /\ runs > 0
    /\ Go(m, "tick", IF works THEN "read" ELSE "unread")
    /\ UNCHANGED <<works, fails, down, runs, lines>>

(* Faulty: a group that has exited counts as a success of the probe.       *)
FaultyReadExited(m) ==
    /\ runs > 0 /\ at[m] = "tick"
    /\ fails' = 0
    /\ UNCHANGED <<works, at, down, runs, lines>>

(* It is not listed and has exited: the poll counts for nothing.           *)
ReadExited(m) ==
    /\ runs > 0 /\ at[m] = "tick"
    /\ UNCHANGED vars

(* Faulty: a success that finds no failures has nothing to end.            *)
FaultyReset(m) ==
    /\ Go(m, "read", IF fails > 0 THEN "up?" ELSE "tick")
    /\ fails' = 0
    /\ UNCHANGED <<works, down, runs, lines>>

(* rssProbe.fails.Store(0).                                                *)
Reset(m) ==
    /\ Go(m, "read", "up?")
    /\ fails' = 0
    /\ UNCHANGED <<works, down, runs, lines>>

(* rssProbe.down.CompareAndSwap(true, false).                              *)
Up(m) ==
    /\ Go(m, "up?", IF down THEN "on" ELSE "tick")
    /\ down' = FALSE
    /\ UNCHANGED <<works, fails, runs, lines>>

(* rssProbe.fails.Add(1) >= rssProbeOutageAfter.                           *)
Add(m) ==
    /\ Go(m, "unread", IF fails + 1 >= OutageAfter THEN "down?" ELSE "tick")
    /\ fails' = IF fails < OutageAfter THEN fails + 1 ELSE fails
    /\ UNCHANGED <<works, down, runs, lines>>

(* Faulty: every poll of an outage reports it.                             *)
FaultyDown(m) ==
    /\ Go(m, "down?", "off")
    /\ down' = TRUE
    /\ UNCHANGED <<works, fails, runs, lines>>

(* rssProbe.down.CompareAndSwap(false, true).                              *)
Down(m) ==
    /\ Go(m, "down?", IF down THEN "tick" ELSE "off")
    /\ down' = TRUE
    /\ UNCHANGED <<works, fails, runs, lines>>

(* The line is printed by the monitor that flipped the flag.               *)
Say(m) ==
    /\ at[m] \in {"on", "off"}
    /\ Go(m, at[m], "tick")
    /\ lines' = IF at[m] = "off" THEN lines + 1 ELSE lines - 1
    /\ UNCHANGED <<works, fails, down, runs>>

Poll(m) ==
    \/ Read(m) \/ ReadExited(m) \/ Reset(m) \/ Up(m)
    \/ Add(m) \/ Down(m) \/ Say(m)

-----------------------------------------------------------------------------
Quiet == \A m \in Monitors : at[m] = "tick"

(* resetRSSProbe, at the start of Pool.Run: every monitor of an earlier    *)
(* run has exited.                                                         *)
Run ==
    /\ Quiet
    /\ runs < Runs
    /\ runs' = runs + 1
    /\ fails' = 0 /\ down' = FALSE
    /\ lines' = 0
    /\ UNCHANGED <<works, at>>

(* Forks start failing, or work again.                                     *)
Change ==
    /\ works' = ~works
    /\ UNCHANGED <<at, fails, down, runs, lines>>

Next == Run \/ Change \/ \E m \in Monitors : Poll(m)

(* A monitor polls at every tick, as long as its command runs.             *)
Fairness == WF_vars(Run) /\ \A m \in Monitors : WF_vars(Poll(m))

Spec == Init /\ [][Next]_vars /\ Fairness

-----------------------------------------------------------------------------
(* Properties.                                                             *)

(* Once the monitors have said what they had to say, the lines of this run *)
(* account for the flag: an outage is reported once, not once per poll or  *)
(* per worker, its end once, and none is inherited from an earlier run     *)
(* unreported (worker_unix.go:22, 31).                                     *)
EachFlipReportedOnce ==
    Quiet /\ runs > 0 => lines = IF down THEN 1 ELSE 0

(* This, of well-typed states.                                             *)
ProbeInv == TypeOK /\ EachFlipReportedOnce

(* A success ends an outage, however the failures of other workers were    *)
(* interleaved with it: with the probe working and read again and again,   *)
(* the cap is on for good (worker_unix.go:119).                            *)
OutageEnds ==
    <>[]works /\ []<>(\E m \in Monitors : at[m] = "read") => <>[]~down

(* A probe that goes on failing is reported, in this run, whatever polls   *)
(* of exited groups come in between (worker_unix.go:130).                  *)
OutageIsNoticed ==
    <>[]~works /\ []<>(\E m \in Monitors : at[m] = "unread") => <>[](down /\ lines = 1)

(* Both: in the end the flag says how the probe does.                      *)
FlagFollowsProbe == OutageEnds /\ OutageIsNoticed
=============================================================================
