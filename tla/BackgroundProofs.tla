-------------------------- MODULE BackgroundProofs --------------------------
(***************************************************************************)
(* Proofs about what runs beside the workers: the memory cap (RssCap), the *)
(* health of its probe (RssProbe) and the heartbeat (Heartbeat), for any   *)
(* number of goroutines, each by itself and all in MCBackground's          *)
(* behaviours.                                                             *)
(***************************************************************************)
EXTENDS MCBackground, Integers, FiniteSetTheorems, TLAPS

-----------------------------------------------------------------------------
(* RssCap: the inductive invariant, part by part.                          *)

(* A group runs under a monitor.                                           *)
Watched ==
    \A w \in Workers : /\ run[w] = "idle" => monitor[w] = "gone"
                       /\ run[w] = "running" => monitor[w] # "gone"

(* A group that the snapshot does not show over the cap went over after it *)
(* was taken.                                                              *)
Counted ==
    \A w \in Workers : /\ ~over[w] => overFor[w] = 0
                       /\ over[w] /\ w \notin high => overFor[w] <= age

(* What it has been over and what its monitor sleeps make the bound.       *)
InTime ==
    \A w \in Workers :
        /\ overFor[w] <= 3 * Half
        /\ over[w] /\ monitor[w] = "sleep" => overFor[w] + timer[w] <= 3 * Half

(* What is read, killed or said of a group is of its own command.          *)
OwnCommand ==
    \A w \in Workers :
        over[w] \/ w \in high \/ monitor[w] = "kill" \/ killed[w] => wasOver[w]

(* A snapshot taken while a monitor waits for it lists its group.          *)
FreshLists ==
    \A w \in Workers : monitor[w] = "read" /\ fresh[w] /\ w \in Cap!Alive => w \in listed

CapIInv ==
    /\ Cap!TypeOK /\ Watched /\ Counted /\ InTime /\ OwnCommand /\ FreshLists
    /\ Cap!LiveGroupIsListed

-----------------------------------------------------------------------------
(* RssCap: the steps.                                                      *)

LEMMA CapConstants ==
    /\ Half \in Nat \ {0}
    /\ Cap!Interval = 2 * Half /\ Cap!TooOld = 4 * Half /\ Cap!MaxAge = Half
  BY BackgroundAssumption DEF Cap!CapAssumption, Cap!Interval, Cap!TooOld, Cap!MaxAge

LEMMA CapInit == Cap!Init => CapIInv
  <1> SUFFICES ASSUME Cap!Init PROVE CapIInv
    OBVIOUS
  <1>1. Cap!TypeOK
    BY CapConstants DEF Cap!Init, Cap!TypeOK
  <1>2. Watched /\ Counted /\ InTime /\ OwnCommand /\ FreshLists /\ Cap!LiveGroupIsListed
    BY CapConstants DEF Cap!Init, Watched, Counted, InTime, OwnCommand, FreshLists,
                        Cap!LiveGroupIsListed
  <1> QED BY <1>1, <1>2 DEF CapIInv

LEMMA StartStep == ASSUME CapIInv, NEW w \in Workers, Cap!Start(w) PROVE CapIInv'
  <1>1. /\ run[w] = "idle" /\ monitor[w] = "gone" /\ run'[w] = "running" /\ monitor'[w] = "sleep"
        /\ timer'[w] = 2 * Half /\ killed'[w] = FALSE /\ wasOver'[w] = FALSE /\ missed'[w] = FALSE
        /\ listed' = listed \ {w} /\ high' = high \ {w}
        /\ UNCHANGED <<over, fresh, age, overFor>> /\ ~over[w]
        /\ \A v \in Workers : v # w =>
             /\ run'[v] = run[v] /\ monitor'[v] = monitor[v] /\ timer'[v] = timer[v]
             /\ killed'[v] = killed[v] /\ wasOver'[v] = wasOver[v] /\ missed'[v] = missed[v]
    BY CapConstants DEF CapIInv, Cap!TypeOK, Cap!Start
  <1>2. Cap!TypeOK'
    BY <1>1, CapConstants DEF CapIInv, Cap!TypeOK, Cap!Start
  <1>3. Watched' /\ Counted' /\ OwnCommand'
    BY <1>1 DEF CapIInv, Watched, Counted, OwnCommand
  <1>4. InTime'
    BY <1>1 DEF CapIInv, InTime
  <1>5. FreshLists' /\ Cap!LiveGroupIsListed'
    BY <1>1 DEF CapIInv, FreshLists, Cap!LiveGroupIsListed, Cap!Alive
  <1> QED BY <1>2, <1>3, <1>4, <1>5 DEF CapIInv

LEMMA AllocateStep == ASSUME CapIInv, NEW w \in Workers, Cap!Allocate(w) PROVE CapIInv'
  <1>1. /\ run[w] = "running" /\ over'[w] = ~over[w] /\ wasOver'[w] = TRUE /\ overFor'[w] = 0
        /\ UNCHANGED <<run, killed, monitor, timer, fresh, listed, high, age, missed>>
        /\ \A v \in Workers : v # w =>
             over'[v] = over[v] /\ wasOver'[v] = wasOver[v] /\ overFor'[v] = overFor[v]
    BY DEF CapIInv, Cap!TypeOK, Cap!Allocate, Cap!snapshot
  <1>2. /\ over' \in [Workers -> BOOLEAN] /\ wasOver' \in [Workers -> BOOLEAN]
        /\ overFor' \in [Workers -> 0..Cap!TooOld]
    BY CapConstants DEF CapIInv, Cap!TypeOK, Cap!Allocate
  <1>3. Cap!TypeOK'
    BY <1>1, <1>2 DEF CapIInv, Cap!TypeOK
  <1>4. Watched' /\ OwnCommand' /\ FreshLists' /\ Cap!LiveGroupIsListed'
    BY <1>1 DEF CapIInv, Watched, OwnCommand, FreshLists, Cap!LiveGroupIsListed, Cap!Alive
  <1>5. age \in Nat /\ \A v \in Workers : timer[v] \in 0..2 * Half
    BY CapConstants DEF CapIInv, Cap!TypeOK
  <1>6. Counted'
    BY <1>1, <1>5 DEF CapIInv, Counted
  <1>7. InTime'
    BY <1>1, <1>5, CapConstants DEF CapIInv, InTime
  <1> QED BY <1>3, <1>4, <1>6, <1>7 DEF CapIInv

(* The group's processes are gone: it uses no memory.                      *)
LEMMA EndStep == ASSUME CapIInv, NEW w \in Workers, Cap!End(w) PROVE CapIInv'
  <1>1. /\ run[w] = "running" /\ run'[w] = "ended" /\ ~over'[w] /\ overFor'[w] = 0
        /\ UNCHANGED <<killed, monitor, timer, fresh, listed, high, age, wasOver, missed>>
        /\ \A v \in Workers : v # w =>
             run'[v] = run[v] /\ over'[v] = over[v] /\ overFor'[v] = overFor[v]
    BY DEF CapIInv, Cap!TypeOK, Cap!End, Cap!Stops, Cap!snapshot
  <1>2. /\ run' \in [Workers -> {"idle", "running", "ended", "waited"}]
        /\ over' \in [Workers -> BOOLEAN] /\ overFor' \in [Workers -> 0..Cap!TooOld]
    BY CapConstants DEF CapIInv, Cap!TypeOK, Cap!End, Cap!Stops
  <1>3. Cap!TypeOK'
    BY <1>1, <1>2 DEF CapIInv, Cap!TypeOK
  <1>4. Watched' /\ OwnCommand' /\ FreshLists' /\ Cap!LiveGroupIsListed'
    BY <1>1 DEF CapIInv, Watched, OwnCommand, FreshLists, Cap!LiveGroupIsListed, Cap!Alive
  <1>5. Counted' /\ InTime'
    BY <1>1, CapConstants DEF CapIInv, Counted, InTime
  <1> QED BY <1>3, <1>4, <1>5 DEF CapIInv

LEMMA WaitReturnStep ==
    ASSUME CapIInv, NEW w \in Workers, Cap!Wait(w) \/ Cap!Return(w) PROVE CapIInv'
  <1>1. /\ run[w] \in {"ended", "waited"} /\ run'[w] \in {"waited", "idle"}
        /\ (run'[w] = "idle" => monitor[w] = "gone")
        /\ UNCHANGED <<over, killed, monitor, timer, fresh, listed, high, age, wasOver, overFor, missed>>
        /\ \A v \in Workers : v # w => run'[v] = run[v]
        /\ run' \in [Workers -> {"idle", "running", "ended", "waited"}]
    BY DEF CapIInv, Cap!TypeOK, Cap!Wait, Cap!Return, Cap!snapshot, Cap!history
  <1>2. Cap!TypeOK'
    BY <1>1 DEF CapIInv, Cap!TypeOK
  <1>3. Watched' /\ Counted' /\ InTime' /\ OwnCommand'
    BY <1>1 DEF CapIInv, Watched, Counted, InTime, OwnCommand
  <1>4. FreshLists' /\ Cap!LiveGroupIsListed'
    BY <1>1 DEF CapIInv, FreshLists, Cap!LiveGroupIsListed, Cap!Alive
  <1> QED BY <1>2, <1>3, <1>4 DEF CapIInv

LEMMA PollStep == ASSUME CapIInv, NEW w \in Workers, Cap!Poll(w) PROVE CapIInv'
  <1>1. /\ monitor[w] = "sleep" /\ timer[w] = 0 /\ monitor'[w] = "read" /\ timer'[w] = 2 * Half
        /\ fresh'[w] = FALSE
        /\ UNCHANGED <<run, over, killed, listed, high, age, wasOver, overFor, missed>>
        /\ \A v \in Workers : v # w =>
             monitor'[v] = monitor[v] /\ timer'[v] = timer[v] /\ fresh'[v] = fresh[v]
    BY CapConstants DEF CapIInv, Cap!TypeOK, Cap!Poll, Cap!snapshot, Cap!history
  <1>2. Cap!TypeOK'
    BY <1>1, CapConstants DEF CapIInv, Cap!TypeOK, Cap!Poll
  <1>3. Watched' /\ Counted' /\ OwnCommand'
    BY <1>1 DEF CapIInv, Watched, Counted, OwnCommand
  <1>4. InTime'
    BY <1>1 DEF CapIInv, InTime
  <1>5. FreshLists' /\ Cap!LiveGroupIsListed'
    BY <1>1 DEF CapIInv, FreshLists, Cap!LiveGroupIsListed, Cap!Alive
  <1> QED BY <1>2, <1>3, <1>4, <1>5 DEF CapIInv

LEMMA LeaveStep == ASSUME CapIInv, NEW w \in Workers, Cap!Leave(w) PROVE CapIInv'
  <1>1. /\ run[w] = "waited" /\ monitor'[w] = "gone"
        /\ UNCHANGED <<run, over, killed, timer, fresh, listed, high, age, wasOver, overFor, missed>>
        /\ \A v \in Workers : v # w => monitor'[v] = monitor[v]
        /\ monitor' \in [Workers -> {"gone", "sleep", "read", "kill"}]
    BY DEF CapIInv, Cap!TypeOK, Cap!Leave, Cap!snapshot, Cap!history
  <1>2. Cap!TypeOK'
    BY <1>1 DEF CapIInv, Cap!TypeOK
  <1>3. Watched' /\ Counted' /\ InTime' /\ OwnCommand'
    BY <1>1 DEF CapIInv, Watched, Counted, InTime, OwnCommand
  <1>4. FreshLists' /\ Cap!LiveGroupIsListed'
    BY <1>1 DEF CapIInv, FreshLists, Cap!LiveGroupIsListed, Cap!Alive
  <1> QED BY <1>2, <1>3, <1>4 DEF CapIInv

(* A reading of a snapshot: a group over the cap is shown, or went over    *)
(* after it was taken, half an interval ago at most.                       *)
LEMMA ReadStep == ASSUME CapIInv, NEW w \in Workers, Cap!Read(w) PROVE CapIInv'
  <1>1. /\ monitor[w] = "read"
        /\ monitor'[w] = IF w \in high' THEN "kill" ELSE "sleep"
        /\ missed'[w] = (missed[w] \/ w \in Cap!Alive \ listed')
        /\ UNCHANGED <<run, over, killed, timer, wasOver, overFor>>
        /\ \A v \in Workers : v # w => monitor'[v] = monitor[v] /\ missed'[v] = missed[v]
        /\ monitor' \in [Workers -> {"gone", "sleep", "read", "kill"}]
        /\ missed' \in [Workers -> BOOLEAN]
    BY DEF CapIInv, Cap!TypeOK, Cap!Read, Cap!ReadsHigh
  <1>2. /\ age \in Nat /\ timer \in [Workers -> 0..2 * Half] /\ Half \in Nat
        /\ fresh \in [Workers -> BOOLEAN] /\ overFor \in [Workers -> Nat]
        /\ \A v \in Workers : over[v] => v \in Cap!Alive
    BY CapConstants DEF CapIInv, Cap!TypeOK, Cap!Alive
  <1>3. \/ /\ listed' = Cap!Alive /\ high' = {v \in Cap!Alive : over[v]} /\ age' = 0
           /\ fresh' = [v \in Workers |-> TRUE]
        \/ /\ UNCHANGED <<listed, high, age, fresh>>
           /\ age <= Half /\ (w \in listed \/ fresh[w])
    BY <1>2, CapConstants DEF Cap!Read, Cap!MustScan, Cap!Scan, Cap!snapshot
  <1>4. Cap!TypeOK'
    <2>1. listed' \subseteq Workers /\ high' \subseteq listed'
      BY <1>3 DEF CapIInv, Cap!TypeOK, Cap!Alive
    <2>2. age' \in 0..Cap!TooOld
      BY <1>3, CapConstants DEF CapIInv, Cap!TypeOK
    <2>3. fresh' \in [Workers -> BOOLEAN]
      BY <1>2, <1>3
    <2> QED BY <1>1, <2>1, <2>2, <2>3 DEF CapIInv, Cap!TypeOK
  <1>5. Watched'
    BY <1>1 DEF CapIInv, Watched
  <1>6. Counted'
    BY <1>1, <1>2, <1>3 DEF CapIInv, Counted
  <1>7. InTime'
    <2>1. over[w] /\ monitor'[w] = "sleep" => overFor[w] <= Half
      BY <1>1, <1>2, <1>3 DEF CapIInv, Counted
    <2> QED BY <1>1, <1>2, <2>1 DEF CapIInv, InTime
  <1>8. OwnCommand'
    BY <1>1, <1>3 DEF CapIInv, OwnCommand
  <1>9. FreshLists'
    BY <1>1, <1>3 DEF CapIInv, FreshLists, Cap!Alive
  <1>10. Cap!LiveGroupIsListed'
    <2>1. w \in Cap!Alive => w \in listed'
      BY <1>1, <1>3 DEF CapIInv, FreshLists
    <2> QED BY <1>1, <2>1 DEF CapIInv, Cap!LiveGroupIsListed
  <1> QED BY <1>4, <1>5, <1>6, <1>7, <1>8, <1>9, <1>10 DEF CapIInv

LEMMA ReadFailsStep == ASSUME CapIInv, NEW w \in Workers, Cap!ReadFails(w) PROVE CapIInv'
  <1>1. /\ monitor[w] = "read" /\ monitor'[w] = "sleep" /\ overFor'[w] = 0
        /\ UNCHANGED <<run, over, killed, timer, fresh, listed, high, age, wasOver, missed>>
        /\ \A v \in Workers : v # w => monitor'[v] = monitor[v] /\ overFor'[v] = overFor[v]
        /\ monitor' \in [Workers -> {"gone", "sleep", "read", "kill"}]
        /\ overFor' \in [Workers -> 0..Cap!TooOld]
    BY CapConstants DEF CapIInv, Cap!TypeOK, Cap!ReadFails, Cap!snapshot
  <1>2. Cap!TypeOK'
    BY <1>1 DEF CapIInv, Cap!TypeOK
  <1>3. age \in Nat /\ timer \in [Workers -> 0..2 * Half] /\ Half \in Nat
    BY CapConstants DEF CapIInv, Cap!TypeOK
  <1>4. Watched' /\ Counted' /\ OwnCommand'
    BY <1>1, <1>3 DEF CapIInv, Watched, Counted, OwnCommand
  <1>5. InTime'
    BY <1>1, <1>3 DEF CapIInv, InTime
  <1>6. FreshLists' /\ Cap!LiveGroupIsListed'
    BY <1>1 DEF CapIInv, FreshLists, Cap!LiveGroupIsListed, Cap!Alive
  <1> QED BY <1>2, <1>4, <1>5, <1>6 DEF CapIInv

LEMMA KillStep == ASSUME CapIInv, NEW w \in Workers, Cap!Kill(w) PROVE CapIInv'
  <1>1. /\ monitor[w] = "kill" /\ monitor'[w] = "gone" /\ killed'[w] = TRUE /\ run'[w] # "running"
        /\ (run[w] # "running" => run'[w] = run[w]) /\ (run[w] = "running" => run'[w] = "ended")
        /\ ~over'[w] /\ overFor'[w] = 0
        /\ UNCHANGED <<timer, fresh, listed, high, age, wasOver, missed>>
        /\ \A v \in Workers : v # w =>
             /\ monitor'[v] = monitor[v] /\ killed'[v] = killed[v] /\ run'[v] = run[v]
             /\ over'[v] = over[v] /\ overFor'[v] = overFor[v]
    <2>1. ~over[w] => overFor[w] = 0
      BY DEF CapIInv, Counted
    <2>2. run[w] # "running" => ~over[w]
      BY DEF CapIInv, Cap!TypeOK
    <2> QED BY <2>1, <2>2 DEF CapIInv, Cap!TypeOK, Cap!Kill, Cap!Stops, Cap!snapshot
  <1>2. /\ run' \in [Workers -> {"idle", "running", "ended", "waited"}]
        /\ over' \in [Workers -> BOOLEAN] /\ overFor' \in [Workers -> 0..Cap!TooOld]
        /\ monitor' \in [Workers -> {"gone", "sleep", "read", "kill"}]
        /\ killed' \in [Workers -> BOOLEAN]
    BY CapConstants DEF CapIInv, Cap!TypeOK, Cap!Kill, Cap!Stops
  <1>3. Cap!TypeOK'
    BY <1>1, <1>2 DEF CapIInv, Cap!TypeOK
  <1>4. Watched' /\ OwnCommand'
    BY <1>1 DEF CapIInv, Watched, OwnCommand
  <1>5. Counted' /\ InTime'
    BY <1>1, CapConstants DEF CapIInv, Counted, InTime
  <1>6. FreshLists' /\ Cap!LiveGroupIsListed'
    BY <1>1 DEF CapIInv, FreshLists, Cap!LiveGroupIsListed, Cap!Alive
  <1> QED BY <1>3, <1>4, <1>5, <1>6 DEF CapIInv

(* Time goes on only when no monitor is due: what it adds to the time a    *)
(* group has been over it takes from the sleep of the group's monitor.     *)
LEMMA TickStep == ASSUME CapIInv, Cap!Tick PROVE CapIInv'
  <1>1. /\ UNCHANGED <<run, over, killed, monitor, fresh, listed, high, wasOver, missed>>
        /\ age' = Cap!Older(age)
        /\ \A w \in Workers :
             /\ timer'[w] = IF monitor[w] = "sleep" THEN timer[w] - 1 ELSE timer[w]
             /\ overFor'[w] = IF over[w] THEN Cap!Older(overFor[w]) ELSE 0
             /\ monitor[w] \notin {"read", "kill"} /\ (monitor[w] = "sleep" => timer[w] # 0)
    BY DEF Cap!Tick, Cap!Due
  <1>2. /\ Half \in Nat \ {0} /\ age \in 0..4 * Half
        /\ \A w \in Workers : timer[w] \in 0..2 * Half /\ overFor[w] \in 0..4 * Half
    BY CapConstants DEF CapIInv, Cap!TypeOK
  <1>3. \A n \in 0..4 * Half : Cap!Older(n) = IF n < 4 * Half THEN n + 1 ELSE n
    BY CapConstants DEF Cap!Older
  <1>4. Cap!TypeOK'
    <2>1. age' \in 0..4 * Half
      BY <1>1, <1>2, <1>3
    <2>2. timer' \in [Workers -> 0..2 * Half]
      <3>1. \A w \in Workers : timer'[w] \in 0..2 * Half
        BY <1>1, <1>2
      <3> QED BY <3>1 DEF Cap!Tick
    <2>3. overFor' \in [Workers -> 0..4 * Half]
      <3>1. \A w \in Workers : overFor'[w] \in 0..4 * Half
        BY <1>1, <1>2, <1>3
      <3> QED BY <3>1 DEF Cap!Tick
    <2> QED BY <1>1, <2>1, <2>2, <2>3, CapConstants DEF CapIInv, Cap!TypeOK
  <1>5. Watched' /\ OwnCommand' /\ FreshLists' /\ Cap!LiveGroupIsListed'
    BY <1>1 DEF CapIInv, Watched, OwnCommand, FreshLists, Cap!LiveGroupIsListed, Cap!Alive
  <1>6. Counted'
    BY <1>1, <1>2, <1>3 DEF CapIInv, Counted
  <1>7. InTime'
    <2>1. \A w \in Workers : over[w] => monitor[w] = "sleep"
      BY <1>1 DEF CapIInv, Watched, Cap!TypeOK
    <2> QED BY <1>1, <1>2, <1>3, <2>1 DEF CapIInv, InTime
  <1> QED BY <1>4, <1>5, <1>6, <1>7 DEF CapIInv

LEMMA CapStays == ASSUME CapIInv, UNCHANGED cap PROVE CapIInv'
  <1>1. UNCHANGED <<run, over, killed, monitor, timer, fresh, listed, high, age, wasOver, overFor,
                    missed>>
    BY DEF cap
  <1> QED BY <1>1 DEF CapIInv, Cap!TypeOK, Watched, Counted, InTime, OwnCommand, FreshLists,
                      Cap!LiveGroupIsListed, Cap!Alive

LEMMA CapNext == CapIInv /\ [Cap!Next]_cap => CapIInv'
  <1> SUFFICES ASSUME CapIInv, [Cap!Next]_cap PROVE CapIInv'
    OBVIOUS
  <1>1. CASE Cap!Tick
    BY <1>1, TickStep
  <1>2. ASSUME NEW w \in Workers,
               Cap!Start(w) \/ Cap!Allocate(w) \/ Cap!End(w) \/ Cap!Wait(w) \/ Cap!Return(w)
                 \/ Cap!Monitored(w)
        PROVE  CapIInv'
    BY <1>2, StartStep, AllocateStep, EndStep, WaitReturnStep, PollStep, LeaveStep, ReadStep,
       ReadFailsStep, KillStep DEF Cap!Monitored
  <1>3. CASE UNCHANGED cap
    BY <1>3, CapStays
  <1> QED BY <1>1, <1>2, <1>3 DEF Cap!Next

LEMMA CapResult == CapIInv => Cap!CapInv
  <1> SUFFICES ASSUME CapIInv PROVE Cap!CapInv
    OBVIOUS
  <1>1. Cap!KilledInTime
    <2>1. \A w \in Workers : overFor[w] <= 3 * Half
      BY DEF CapIInv, InTime
    <2>2. Cap!Interval + Half = 3 * Half
      BY CapConstants
    <2> QED BY <2>1, <2>2 DEF Cap!KilledInTime
  <1>2. Cap!KilledWasOver /\ Cap!MonitorEndsFirst
    BY DEF CapIInv, OwnCommand, Watched, Cap!KilledWasOver, Cap!MonitorEndsFirst
  <1> QED BY <1>1, <1>2 DEF CapIInv, Cap!CapInv

-----------------------------------------------------------------------------
(* RssProbe: the inductive invariant.                                      *)

(* What the lines of this run say and what is about to be said make the    *)
(* flag; and not everybody is about to say that the outage is over while   *)
(* there is one, so the lines never get ahead of the monitors.             *)
Saying(place) == {m \in Monitors : polls[m] = place}
Flag == IF down THEN 1 ELSE 0
Balance ==
    /\ lines + Cardinality(Saying("off")) = Flag + Cardinality(Saying("on"))
    /\ down => \E m \in Monitors : polls[m] # "on"

ProbeIInv == Probe!TypeOK /\ Balance

(* The instances count as this module does.                                *)
LEMMA ProbeCounts ==
    \A S : (Probe!IsFiniteSet(S) <=> IsFiniteSet(S)) /\ Probe!Cardinality(S) = Cardinality(S)
  BY DEF IsFiniteSet, Probe!IsFiniteSet, Cardinality, Probe!Cardinality

LEMMA MonitorsAreFinite == IsFiniteSet(Monitors) /\ OutageAfter \in Nat \ {0} /\ Runs \in Nat
  BY BackgroundAssumption, ProbeCounts DEF Probe!ProbeAssumption

LEMMA ZeroIsBalanced ==
    0 \in -Probe!Cardinality(Monitors)..Probe!Cardinality(Monitors) /\ 0 \in 0..OutageAfter
  <1>1. Cardinality(Monitors) \in Nat
    BY MonitorsAreFinite, FS_CardinalityType
  <1>2. Probe!Cardinality(Monitors) = Cardinality(Monitors)
    BY ProbeCounts
  <1> QED BY <1>1, <1>2, MonitorsAreFinite

LEMMA SayingIsFinite ==
    ASSUME NEW place
    PROVE  /\ IsFiniteSet(Saying(place)) /\ Cardinality(Saying(place)) \in Nat
           /\ Cardinality(Saying(place)) <= Cardinality(Monitors) /\ Cardinality(Monitors) \in Nat
           /\ (\E m \in Monitors : polls[m] # place) =>
                Cardinality(Saying(place)) < Cardinality(Monitors)
  <1>1. /\ IsFiniteSet(Saying(place)) /\ Cardinality(Saying(place)) <= Cardinality(Monitors)
        /\ Cardinality(Saying(place)) = Cardinality(Monitors) => Saying(place) = Monitors
    BY MonitorsAreFinite, FS_Subset DEF Saying
  <1>2. Cardinality(Saying(place)) \in Nat /\ Cardinality(Monitors) \in Nat
    BY <1>1, MonitorsAreFinite, FS_CardinalityType
  <1>3. ASSUME NEW m \in Monitors, polls[m] # place PROVE Saying(place) # Monitors
    BY <1>3 DEF Saying
  <1> QED BY <1>1, <1>2, <1>3

(* A balance keeps the lines within the number of the monitors.            *)
LEMMA LinesAreBounded ==
    ASSUME NEW on, NEW off, NEW n \in Int, NEW flag \in {0, 1}, NEW monitors \in Nat,
           on \in 0..monitors, off \in 0..monitors, n + off = flag + on,
           flag = 1 => on < monitors
    PROVE  n \in -monitors..monitors
  OBVIOUS

LEMMA ProbeInit == Probe!Init => ProbeIInv
  <1> SUFFICES ASSUME Probe!Init PROVE ProbeIInv
    OBVIOUS
  <1>1. Saying("off") = {} /\ Saying("on") = {}
    BY DEF Probe!Init, Saying
  <1>2. Balance
    BY <1>1, FS_EmptySet DEF Probe!Init, Balance, Flag
  <1>3. Probe!TypeOK
    <2>1. works \in BOOLEAN /\ down \in BOOLEAN
      BY DEF Probe!Init
    <2>2. polls \in [Monitors -> {"tick", "read", "unread", "up?", "down?", "on", "off"}]
      BY DEF Probe!Init
    <2>3. fails \in 0..OutageAfter /\ runs \in 0..Runs
      BY MonitorsAreFinite DEF Probe!Init
    <2>4. lines \in -Probe!Cardinality(Monitors)..Probe!Cardinality(Monitors)
      BY ZeroIsBalanced DEF Probe!Init
    <2> QED BY <2>1, <2>2, <2>3, <2>4 DEF Probe!TypeOK
  <1> QED BY <1>2, <1>3 DEF ProbeIInv

(* A monitor that comes to a line, or leaves it.                           *)
LEMMA SayingChanges ==
    ASSUME NEW m \in Monitors, NEW place, \A n \in Monitors : n # m => polls'[n] = polls[n]
    PROVE  /\ polls[m] # place /\ polls'[m] = place =>
                Cardinality(Saying(place)') = Cardinality(Saying(place)) + 1
           /\ polls[m] = place /\ polls'[m] # place =>
                Cardinality(Saying(place)') = Cardinality(Saying(place)) - 1
           /\ (polls[m] = place <=> polls'[m] = place) => Saying(place)' = Saying(place)
  <1>1. IsFiniteSet(Saying(place))
    BY SayingIsFinite
  <1>2. ASSUME polls[m] # place, polls'[m] = place
        PROVE  Cardinality(Saying(place)') = Cardinality(Saying(place)) + 1
    <2>1. Saying(place)' = Saying(place) \cup {m} /\ m \notin Saying(place)
      BY <1>2 DEF Saying
    <2> QED BY <1>1, <2>1, FS_AddElement
  <1>3. ASSUME polls[m] = place, polls'[m] # place
        PROVE  Cardinality(Saying(place)') = Cardinality(Saying(place)) - 1
    <2>1. Saying(place)' = Saying(place) \ {m} /\ m \in Saying(place)
      BY <1>3 DEF Saying
    <2> QED BY <1>1, <2>1, FS_RemoveElement
  <1>4. ASSUME polls[m] = place <=> polls'[m] = place
        PROVE  Saying(place)' = Saying(place)
    BY <1>4 DEF Saying
  <1> QED BY <1>2, <1>3, <1>4

(* What each step of a monitor does to its place, the flag and the lines.  *)
LEMMA PollMoves ==
    ASSUME ProbeIInv, NEW m \in Monitors, Probe!Poll(m)
    PROVE  /\ \A n \in Monitors : n # m => polls'[n] = polls[n]
           /\ polls' \in [Monitors -> {"tick", "read", "unread", "up?", "down?", "on", "off"}]
           /\ fails' \in 0..OutageAfter /\ UNCHANGED <<works, runs>>
           /\ \/ /\ polls[m] \notin {"on", "off"} /\ polls'[m] \notin {"on", "off"}
                 /\ down' = down /\ lines' = lines
              \/ /\ polls[m] = "up?" /\ down /\ polls'[m] = "on" /\ down' = FALSE /\ lines' = lines
              \/ /\ polls[m] = "down?" /\ ~down /\ polls'[m] = "off" /\ down' = TRUE /\ lines' = lines
              \/ /\ polls[m] = "off" /\ polls'[m] = "tick" /\ down' = down /\ lines' = lines + 1
              \/ /\ polls[m] = "on" /\ polls'[m] = "tick" /\ down' = down /\ lines' = lines - 1
  <1> USE DEF ProbeIInv, Probe!TypeOK, Probe!Go
  <1>1. CASE Probe!Read(m) \/ Probe!ReadExited(m)
    BY <1>1 DEF Probe!Read, Probe!ReadExited, Probe!vars
  <1>2. CASE Probe!Reset(m)
    BY <1>2, MonitorsAreFinite DEF Probe!Reset
  <1>3. CASE Probe!Add(m)
    BY <1>3, MonitorsAreFinite DEF Probe!Add
  <1>4. CASE Probe!Up(m)
    BY <1>4 DEF Probe!Up
  <1>5. CASE Probe!Down(m)
    BY <1>5 DEF Probe!Down
  <1>6. CASE Probe!Say(m)
    BY <1>6 DEF Probe!Say
  <1> QED BY <1>1, <1>2, <1>3, <1>4, <1>5, <1>6 DEF Probe!Poll

LEMMA ProbePollStep ==
    ASSUME ProbeIInv, NEW m \in Monitors, Probe!Poll(m) PROVE ProbeIInv'
  <1>1. /\ lines \in Int /\ down \in BOOLEAN /\ lines' \in Int /\ down' \in BOOLEAN
        /\ \A place : Cardinality(Saying(place)) \in Nat
    <2>1. Cardinality(Monitors) \in Nat
      BY MonitorsAreFinite, FS_CardinalityType
    <2>2. lines \in Int /\ down \in BOOLEAN
      BY <2>1, ProbeCounts DEF ProbeIInv, Probe!TypeOK
    <2>3. lines' = lines \/ lines' = lines + 1 \/ lines' = lines - 1
      BY PollMoves
    <2>4. lines' \in Int
      BY <2>2, <2>3
    <2>5. down' = down \/ down' = FALSE \/ down' = TRUE
      BY PollMoves
    <2>6. down' \in BOOLEAN
      BY <2>2, <2>5
    <2>7. \A place : Cardinality(Saying(place)) \in Nat
      BY SayingIsFinite
    <2> QED BY <2>2, <2>4, <2>6, <2>7
  <1>2. down' => \E n \in Monitors : polls'[n] # "on"
    <2>1. CASE polls'[m] # "on"
      BY <2>1
    <2>2. CASE polls'[m] = "on"
      BY <2>2, PollMoves
    <2> QED BY <2>1, <2>2
  <1>3. lines' + Cardinality(Saying("off")') = Flag' + Cardinality(Saying("on")')
    <2>1. lines + Cardinality(Saying("off")) = Flag + Cardinality(Saying("on"))
      BY DEF ProbeIInv, Balance
    <2>2. Flag = (IF down THEN 1 ELSE 0) /\ Flag' = (IF down' THEN 1 ELSE 0)
      BY DEF Flag
    <2>3. \A n \in Monitors : n # m => polls'[n] = polls[n]
      BY PollMoves
    <2>4. CASE polls[m] \notin {"on", "off"} /\ polls'[m] \notin {"on", "off"} /\ down' = down
                 /\ lines' = lines
      <3>1. Saying("off")' = Saying("off") /\ Saying("on")' = Saying("on")
        BY <2>3, <2>4, SayingChanges
      <3> QED BY <2>1, <2>2, <2>4, <3>1
    <2>5. CASE polls[m] = "up?" /\ down /\ polls'[m] = "on" /\ down' = FALSE /\ lines' = lines
      <3>1. /\ Saying("off")' = Saying("off")
            /\ Cardinality(Saying("on")') = Cardinality(Saying("on")) + 1
        BY <2>3, <2>5, SayingChanges
      <3> QED BY <1>1, <2>1, <2>2, <2>5, <3>1
    <2>6. CASE polls[m] = "down?" /\ ~down /\ polls'[m] = "off" /\ down' = TRUE /\ lines' = lines
      <3>1. /\ Saying("on")' = Saying("on")
            /\ Cardinality(Saying("off")') = Cardinality(Saying("off")) + 1
        BY <2>3, <2>6, SayingChanges
      <3> QED BY <1>1, <2>1, <2>2, <2>6, <3>1
    <2>7. CASE polls[m] = "off" /\ polls'[m] = "tick" /\ down' = down /\ lines' = lines + 1
      <3>1. /\ Saying("on")' = Saying("on")
            /\ Cardinality(Saying("off")') = Cardinality(Saying("off")) - 1
        BY <2>3, <2>7, SayingChanges
      <3> QED BY <1>1, <2>1, <2>2, <2>7, <3>1
    <2>8. CASE polls[m] = "on" /\ polls'[m] = "tick" /\ down' = down /\ lines' = lines - 1
      <3>1. /\ Saying("off")' = Saying("off")
            /\ Cardinality(Saying("on")') = Cardinality(Saying("on")) - 1
        BY <2>3, <2>8, SayingChanges
      <3> QED BY <1>1, <2>1, <2>2, <2>8, <3>1
    <2> QED BY <2>4, <2>5, <2>6, <2>7, <2>8, PollMoves
  <1>4. Balance'
    BY <1>2, <1>3 DEF Balance
  <1>5. lines' \in -Cardinality(Monitors)..Cardinality(Monitors)
    <2>1. /\ IsFiniteSet(Monitors) /\ Saying("on")' \subseteq Monitors
          /\ Saying("off")' \subseteq Monitors /\ Cardinality(Monitors) \in Nat
      BY MonitorsAreFinite, FS_CardinalityType DEF Saying
    <2>2. /\ IsFiniteSet(Saying("on")') /\ IsFiniteSet(Saying("off")')
          /\ Cardinality(Saying("on")') <= Cardinality(Monitors)
          /\ Cardinality(Saying("off")') <= Cardinality(Monitors)
          /\ Cardinality(Saying("on")') = Cardinality(Monitors) => Saying("on")' = Monitors
      BY <2>1, FS_Subset
    <2>3. Cardinality(Saying("on")') \in Nat /\ Cardinality(Saying("off")') \in Nat
      BY <2>2, FS_CardinalityType
    <2>4. down' => Saying("on")' # Monitors
      BY <1>2 DEF Saying
    <2>5. Flag' \in {0, 1} /\ (Flag' = 1 => down')
      BY DEF Flag
    <2>6. Cardinality(Saying("on")') \in 0..Cardinality(Monitors)
      BY <2>1, <2>2, <2>3
    <2>7. Cardinality(Saying("off")') \in 0..Cardinality(Monitors)
      BY <2>1, <2>2, <2>3
    <2>8. Flag' = 1 => Cardinality(Saying("on")') < Cardinality(Monitors)
      BY <2>1, <2>2, <2>3, <2>4, <2>5
    <2> QED BY <1>1, <1>3, <2>1, <2>5, <2>6, <2>7, <2>8, LinesAreBounded
  <1>6. Probe!TypeOK'
    BY <1>1, <1>5, PollMoves, ProbeCounts DEF ProbeIInv, Probe!TypeOK
  <1> QED BY <1>4, <1>6 DEF ProbeIInv

LEMMA ProbeRunStep == ASSUME ProbeIInv, Probe!Run PROVE ProbeIInv'
  <1>1. Saying("off")' = {} /\ Saying("on")' = {}
    BY DEF Probe!Run, Probe!Quiet, Saying
  <1>2. Balance'
    BY <1>1, FS_EmptySet DEF Probe!Run, Balance, Flag
  <1>3. Probe!TypeOK'
    <2>1. works' \in BOOLEAN /\ down' \in BOOLEAN /\ polls' = polls
      BY DEF Probe!Run, ProbeIInv, Probe!TypeOK
    <2>2. fails' \in 0..OutageAfter /\ runs' \in 0..Runs
      BY MonitorsAreFinite DEF Probe!Run, ProbeIInv, Probe!TypeOK
    <2>3. lines' \in -Probe!Cardinality(Monitors)..Probe!Cardinality(Monitors)
      BY ZeroIsBalanced DEF Probe!Run
    <2> QED BY <2>1, <2>2, <2>3 DEF ProbeIInv, Probe!TypeOK
  <1> QED BY <1>2, <1>3 DEF ProbeIInv

LEMMA ProbeStays == ASSUME ProbeIInv, UNCHANGED <<polls, fails, down, runs, lines>>,
                           works' \in BOOLEAN
                    PROVE  ProbeIInv'
  <1>1. Balance'
    BY DEF ProbeIInv, Balance, Flag, Saying
  <1>2. Probe!TypeOK'
    BY DEF ProbeIInv, Probe!TypeOK
  <1> QED BY <1>1, <1>2 DEF ProbeIInv

LEMMA ProbeNext == ProbeIInv /\ [Probe!Next]_probe => ProbeIInv'
  <1> SUFFICES ASSUME ProbeIInv, [Probe!Next]_probe PROVE ProbeIInv'
    OBVIOUS
  <1>1. CASE Probe!Run
    BY <1>1, ProbeRunStep
  <1>2. CASE Probe!Change
    <2>1. UNCHANGED <<polls, fails, down, runs, lines>> /\ works' \in BOOLEAN
      BY <1>2 DEF ProbeIInv, Probe!TypeOK, Probe!Change
    <2> QED BY <2>1, ProbeStays
  <1>3. ASSUME NEW m \in Monitors, Probe!Poll(m) PROVE ProbeIInv'
    BY <1>3, ProbePollStep
  <1>4. CASE UNCHANGED probe
    <2>1. UNCHANGED <<polls, fails, down, runs, lines>> /\ works' \in BOOLEAN
      BY <1>4 DEF ProbeIInv, Probe!TypeOK, probe
    <2> QED BY <2>1, ProbeStays
  <1> QED BY <1>1, <1>2, <1>3, <1>4 DEF Probe!Next

LEMMA ProbeResult == ProbeIInv => Probe!ProbeInv
  <1> SUFFICES ASSUME ProbeIInv PROVE Probe!ProbeInv
    OBVIOUS
  <1>1. ASSUME Probe!Quiet PROVE lines = IF down THEN 1 ELSE 0
    <2>1. Saying("off") = {} /\ Saying("on") = {}
      BY <1>1 DEF Probe!Quiet, Saying
    <2>2. lines + 0 = Flag + 0
      BY <2>1, FS_EmptySet DEF ProbeIInv, Balance
    <2> QED BY <2>2 DEF ProbeIInv, Probe!TypeOK, Flag
  <1> QED BY <1>1 DEF ProbeIInv, Probe!ProbeInv, Probe!EachFlipReportedOnce

-----------------------------------------------------------------------------
(* Heartbeat: the inductive invariant.                                     *)

Stopping == {"snapshot", "close", "wait", "clear"}

(* t.mu is held by whoever paints.                                         *)
Locked ==
    /\ mu = Heart!Loop <=> loop = "paint"
    /\ \A c \in Callers : mu = c <=> at[c] = "paint"

(* The Once: one caller at a time stops the heartbeat, and nobody gets     *)
(* past it before the heartbeat is stopped.                                *)
OneStops ==
    \A c \in Callers :
        /\ at[c] \in Stopping =>
             once = "running" /\ \A d \in Callers : at[d] \in Stopping => d = c
        /\ at[c] \in {"close", "wait"} => loop # "absent"
        /\ at[c] = "clear" => loop = "gone"
        /\ at[c] \in {"lock", "paint"} => once = "done" /\ painting[c]

(* Until then no frame is painted; without a loop, no idle line either.    *)
FirstFrame ==
    /\ done > 0 \/ line = "frame" => once = "done"
    /\ line = "frame" => done > 0
    /\ loop = "absent" => ~suffix

(* The results reported, and those on their way, are of one run.           *)
Reported ==
    IsFiniteSet(Heart!Results) /\ done + Cardinality(Heart!Results) <= Total

HeartIInv ==
    /\ Heart!TypeOK /\ Locked /\ OneStops /\ FirstFrame /\ Reported
    /\ Heart!FrameIsClean /\ Heart!StoppedForGood

-----------------------------------------------------------------------------
(* Heartbeat: the steps.                                                   *)

LEMMA HeartCounts ==
    \A S : (Heart!IsFiniteSet(S) <=> IsFiniteSet(S)) /\ Heart!Cardinality(S) = Cardinality(S)
  BY DEF IsFiniteSet, Heart!IsFiniteSet, Cardinality, Heart!Cardinality

LEMMA HeartConstants == Total \in Nat /\ "none" \notin Callers /\ "loop" \notin Callers
  BY BackgroundAssumption DEF Heart!HeartbeatAssumption, Heart!None, Heart!Loop

LEMMA HeartInit == Heart!Init => HeartIInv
  <1> SUFFICES ASSUME Heart!Init PROVE HeartIInv
    OBVIOUS
  <1>1. Heart!TypeOK
    <2>1. loop \in {"absent", "lock"} /\ stop \in BOOLEAN /\ suffix \in BOOLEAN
      BY DEF Heart!Init
    <2>2. done \in 0..Total
      BY HeartConstants DEF Heart!Init
    <2> QED BY <2>1, <2>2 DEF Heart!Init, Heart!TypeOK
  <1>2. Locked
    BY HeartConstants DEF Heart!Init, Locked, Heart!None, Heart!Loop
  <1>3. OneStops /\ FirstFrame
    BY DEF Heart!Init, OneStops, FirstFrame, Stopping
  <1>4. Heart!FrameIsClean /\ Heart!StoppedForGood
    BY DEF Heart!Init, Heart!FrameIsClean, Heart!StoppedForGood
  <1>5. Heart!Results = {}
    BY DEF Heart!Init, Heart!Results
  <1>6. Reported
    BY <1>5, FS_EmptySet, HeartConstants DEF Heart!Init, Reported
  <1> QED BY <1>1, <1>2, <1>3, <1>4, <1>6 DEF HeartIInv

(* The heartbeat paints only as long as nobody has got past the Once.      *)
LEMMA LoopStep == ASSUME HeartIInv, Heart!HeartbeatLoop PROVE HeartIInv'
  <1>1. /\ loop \in {"lock", "paint", "select"} /\ loop' \in {"lock", "paint", "select", "gone"}
        /\ loop = "gone" => loop' = "gone"
        /\ UNCHANGED <<once, at, painting, done>> /\ stop' = stop
        /\ once # "done"
    BY DEF HeartIInv, Heart!HeartbeatLoop, Heart!LoopLock, Heart!PaintIdleLine, Heart!LoopTick,
           Heart!LoopStop, Heart!StoppedForGood
  <1>2. \/ /\ loop = "lock" /\ mu = "none" /\ loop' = "paint" /\ mu' = "loop"
           /\ UNCHANGED <<line, suffix>>
        \/ /\ loop = "paint" /\ mu = "loop" /\ loop' = "select" /\ mu' = "none"
           /\ UNCHANGED <<line, suffix>> \/ (line' = "idle" /\ suffix' = TRUE)
        \/ loop = "select" /\ loop' # "paint" /\ UNCHANGED <<mu, line, suffix>>
    BY DEF HeartIInv, Locked, Heart!HeartbeatLoop, Heart!LoopLock,
           Heart!PaintIdleLine, Heart!LoopTick, Heart!LoopStop, Heart!None, Heart!Loop
  <1>3. Heart!TypeOK'
    BY <1>1, <1>2 DEF Heart!None, Heart!Loop, HeartIInv, Heart!TypeOK
  <1>4. Locked'
    BY <1>1, <1>2, HeartConstants DEF HeartIInv, Locked, Heart!None, Heart!Loop
  <1>5. OneStops'
    BY <1>1 DEF HeartIInv, OneStops, Stopping
  <1>6. done = 0
    BY <1>1, HeartConstants DEF HeartIInv, Heart!TypeOK, FirstFrame
  <1>7. FirstFrame' /\ Heart!FrameIsClean' /\ Heart!StoppedForGood'
    BY <1>1, <1>2, <1>6 DEF HeartIInv, FirstFrame, Heart!FrameIsClean, Heart!StoppedForGood
  <1>8. Reported'
    BY <1>1 DEF HeartIInv, Reported, Heart!Results
  <1> QED BY <1>3, <1>4, <1>5, <1>7, <1>8 DEF HeartIInv

(* A caller that does not paint: who reports stays the same, unless it     *)
(* comes to report.                                                        *)
LEMMA SameResults ==
    ASSUME HeartIInv, done' = done,
           \A c \in Callers : at'[c] # "out" /\ painting'[c] <=> at[c] # "out" /\ painting[c]
    PROVE  Reported'
  <1>1. Heart!Results' = Heart!Results
    BY DEF Heart!Results
  <1> QED BY <1>1 DEF HeartIInv, Reported

LEMMA EnterStep ==
    ASSUME HeartIInv, NEW c \in Callers, Heart!OnResult(c) \/ Heart!StopHeartbeat(c)
    PROVE  HeartIInv'
  <1>1. /\ at[c] = "out" /\ at'[c] = "once"
        /\ \A d \in Callers : d # c => at'[d] = at[d] /\ painting'[d] = painting[d]
        /\ UNCHANGED <<mu, once, loop, stop, done, line, suffix>>
        /\ at' \in [Callers -> {"out", "once", "snapshot", "close", "wait", "clear",
                                "lock", "paint"}]
        /\ painting' \in [Callers -> BOOLEAN]
    BY DEF HeartIInv, Heart!TypeOK, Heart!OnResult, Heart!StopHeartbeat, Heart!Go
  <1>2. Heart!TypeOK'
    BY <1>1 DEF HeartIInv, Heart!TypeOK
  <1>3. Locked' /\ OneStops'
    BY <1>1 DEF HeartIInv, Locked, OneStops, Stopping
  <1>4. FirstFrame' /\ Heart!FrameIsClean' /\ Heart!StoppedForGood'
    BY <1>1 DEF HeartIInv, FirstFrame, Heart!FrameIsClean, Heart!StoppedForGood
  <1>5. CASE Heart!OnResult(c)
    <2>1. Heart!Results' = Heart!Results \cup {c} /\ c \notin Heart!Results
      BY <1>1, <1>5 DEF HeartIInv, Heart!TypeOK, Heart!OnResult, Heart!Results
    <2>2. IsFiniteSet(Heart!Results) /\ done + Cardinality(Heart!Results) < Total
      BY <1>5, HeartCounts DEF HeartIInv, Reported, Heart!OnResult
    <2>3. /\ Cardinality(Heart!Results) \in Nat /\ IsFiniteSet(Heart!Results')
          /\ Cardinality(Heart!Results') = Cardinality(Heart!Results) + 1
      BY <2>1, <2>2, FS_AddElement, FS_CardinalityType
    <2>4. done \in Nat
      BY HeartConstants DEF HeartIInv, Heart!TypeOK
    <2>5. Reported'
      BY <1>1, <2>2, <2>3, <2>4, HeartConstants DEF Reported
    <2> QED BY <1>2, <1>3, <1>4, <2>5 DEF HeartIInv
  <1>6. CASE Heart!StopHeartbeat(c)
    <2>1. ~painting'[c]
      BY <1>6 DEF HeartIInv, Heart!TypeOK, Heart!StopHeartbeat
    <2>2. Reported'
      BY <1>1, <2>1, SameResults
    <2> QED BY <1>2, <1>3, <1>4, <2>2 DEF HeartIInv
  <1> QED BY <1>5, <1>6

(* The caller's way past the Once.                                         *)
LEMMA OnceStep ==
    ASSUME HeartIInv, NEW c \in Callers,
           Heart!First(c) \/ Heart!Later(c) \/ Heart!Snapshot(c) \/ Heart!Close(c)
             \/ Heart!Wait(c) \/ Heart!Clear(c)
    PROVE  HeartIInv'
  <1>1. /\ UNCHANGED <<mu, loop, painting, done>>
        /\ \A d \in Callers : d # c => at'[d] = at[d]
        /\ at' \in [Callers -> {"out", "once", "snapshot", "close", "wait", "clear",
                                "lock", "paint"}]
        /\ stop' \in BOOLEAN
    BY DEF HeartIInv, Heart!TypeOK, Heart!First, Heart!Later, Heart!Snapshot, Heart!Close,
           Heart!Wait, Heart!Clear, Heart!Go, Heart!Onward
  <1>2. \/ /\ at[c] = "once" /\ once = "new" /\ at'[c] = "snapshot" /\ once' = "running"
           /\ UNCHANGED <<line, suffix>>
        \/ /\ at[c] = "once" /\ once = "done" /\ at'[c] = (IF painting[c] THEN "lock" ELSE "out")
           /\ UNCHANGED <<once, line, suffix>>
        \/ /\ at[c] = "snapshot" /\ loop = "absent" /\ once' = "done"
           /\ at'[c] = (IF painting[c] THEN "lock" ELSE "out")
           /\ UNCHANGED <<line, suffix>>
        \/ /\ at[c] = "snapshot" /\ loop # "absent" /\ at'[c] = "close"
           /\ UNCHANGED <<once, line, suffix>>
        \/ /\ at[c] = "close" /\ at'[c] = "wait" /\ UNCHANGED <<once, line, suffix>>
        \/ /\ at[c] = "wait" /\ loop = "gone" /\ at'[c] = "clear"
           /\ UNCHANGED <<once, line, suffix>>
        \/ /\ at[c] = "clear" /\ at'[c] = (IF painting[c] THEN "lock" ELSE "out")
           /\ once' = "done" /\ line' = "blank" /\ suffix' = FALSE
    BY DEF HeartIInv, Heart!TypeOK, Heart!First, Heart!Later, Heart!Snapshot, Heart!Close,
           Heart!Wait, Heart!Clear, Heart!Go, Heart!Onward
  <1>3. /\ at[c] \notin {"out", "lock", "paint"} /\ at'[c] # "paint"
        /\ at'[c] = "out" <=> at'[c] # "lock" /\ ~painting[c] /\ at'[c] \notin Stopping
        /\ at'[c] = "out" => ~painting[c]
    BY <1>2 DEF Stopping
  <1>4. Heart!TypeOK'
    <2>1. /\ once' \in {"new", "running", "done"} /\ line' \in {"blank", "idle", "frame"}
          /\ suffix' \in BOOLEAN
      BY <1>2 DEF HeartIInv, Heart!TypeOK
    <2> QED BY <1>1, <2>1 DEF HeartIInv, Heart!TypeOK
  <1>5. Locked'
    BY <1>1, <1>3 DEF HeartIInv, Locked
  <1>6. OneStops'
    BY <1>1, <1>2 DEF HeartIInv, OneStops, Stopping
  <1>7. FirstFrame' /\ Heart!FrameIsClean' /\ Heart!StoppedForGood'
    BY <1>1, <1>2 DEF HeartIInv, OneStops, Stopping, FirstFrame, Heart!FrameIsClean,
                      Heart!StoppedForGood
  <1>8. Reported'
    BY <1>1, <1>3, SameResults
  <1> QED BY <1>4, <1>5, <1>6, <1>7, <1>8 DEF HeartIInv

LEMMA LockStep == ASSUME HeartIInv, NEW c \in Callers, Heart!Lock(c) PROVE HeartIInv'
  <1>1. /\ mu = "none" /\ mu' = c /\ at[c] = "lock" /\ at'[c] = "paint"
        /\ \A d \in Callers : d # c => at'[d] = at[d]
        /\ UNCHANGED <<once, loop, stop, painting, done, line, suffix>>
        /\ at' \in [Callers -> {"out", "once", "snapshot", "close", "wait", "clear",
                                "lock", "paint"}]
    BY DEF HeartIInv, Heart!TypeOK, Heart!Lock, Heart!Go, Heart!None
  <1>2. Heart!TypeOK'
    BY <1>1 DEF HeartIInv, Heart!TypeOK
  <1>3. Locked'
    BY <1>1, HeartConstants DEF HeartIInv, Locked, Heart!Loop
  <1>4. OneStops'
    BY <1>1 DEF HeartIInv, OneStops, Stopping
  <1>5. FirstFrame' /\ Heart!FrameIsClean' /\ Heart!StoppedForGood'
    BY <1>1 DEF HeartIInv, FirstFrame, Heart!FrameIsClean, Heart!StoppedForGood
  <1>6. Reported'
    BY <1>1, SameResults
  <1> QED BY <1>2, <1>3, <1>4, <1>5, <1>6 DEF HeartIInv

LEMMA PaintStep == ASSUME HeartIInv, NEW c \in Callers, Heart!Paint(c) PROVE HeartIInv'
  <1>1. /\ at[c] = "paint" /\ at'[c] = "out" /\ done' = done + 1 /\ line' = "frame" /\ mu' = "none"
        /\ \A d \in Callers : d # c => at'[d] = at[d]
        /\ UNCHANGED <<once, loop, stop, painting, suffix>>
        /\ at' \in [Callers -> {"out", "once", "snapshot", "close", "wait", "clear",
                                "lock", "paint"}]
    BY DEF HeartIInv, Heart!TypeOK, Heart!Paint, Heart!Go, Heart!None
  <1>2. once = "done" /\ painting[c] /\ mu = c
    BY <1>1 DEF HeartIInv, OneStops, Locked
  <1>3. Heart!Results' = Heart!Results \ {c} /\ c \in Heart!Results
    BY <1>1, <1>2 DEF Heart!Results
  <1>4. IsFiniteSet(Heart!Results) /\ done + Cardinality(Heart!Results) <= Total
    BY DEF HeartIInv, Reported
  <1>5. /\ Cardinality(Heart!Results) \in Nat /\ Cardinality(Heart!Results') \in Nat
        /\ IsFiniteSet(Heart!Results')
        /\ Cardinality(Heart!Results') = Cardinality(Heart!Results) - 1
    <2>1. /\ IsFiniteSet(Heart!Results') /\ Cardinality(Heart!Results) \in Nat
          /\ Cardinality(Heart!Results') = Cardinality(Heart!Results) - 1
      BY <1>3, <1>4, FS_RemoveElement, FS_CardinalityType
    <2> QED BY <2>1, FS_CardinalityType
  <1>6. done \in Nat
    BY HeartConstants DEF HeartIInv, Heart!TypeOK
  <1>7. Reported'
    BY <1>1, <1>4, <1>5, <1>6, HeartConstants DEF Reported
  <1>8. Heart!TypeOK'
    <2>1. done' \in 0..Total
      BY <1>1, <1>4, <1>5, <1>6, HeartConstants
    <2>2. mu' \in Callers \cup {Heart!Loop, Heart!None}
      BY <1>1 DEF Heart!None
    <2> QED BY <1>1, <2>1, <2>2 DEF HeartIInv, Heart!TypeOK
  <1>9. Locked'
    BY <1>1, <1>2, HeartConstants DEF HeartIInv, Locked, Heart!Loop
  <1>10. OneStops'
    BY <1>1 DEF HeartIInv, OneStops, Stopping
  <1>11. FirstFrame' /\ Heart!FrameIsClean' /\ Heart!StoppedForGood'
    BY <1>1, <1>2, <1>6 DEF HeartIInv, FirstFrame, Heart!FrameIsClean, Heart!StoppedForGood
  <1> QED BY <1>7, <1>8, <1>9, <1>10, <1>11 DEF HeartIInv

LEMMA HeartStays == ASSUME HeartIInv, UNCHANGED heart PROVE HeartIInv'
  BY DEF heart, HeartIInv, Heart!TypeOK, Locked, OneStops, FirstFrame, Reported, Stopping,
         Heart!FrameIsClean, Heart!StoppedForGood, Heart!Results

LEMMA HeartNext == HeartIInv /\ [Heart!Next]_heart => HeartIInv'
  <1> SUFFICES ASSUME HeartIInv, [Heart!Next]_heart PROVE HeartIInv'
    OBVIOUS
  <1>1. CASE Heart!HeartbeatLoop
    BY <1>1, LoopStep
  <1>2. ASSUME NEW c \in Callers, Heart!OnResult(c) \/ Heart!StopHeartbeat(c) PROVE HeartIInv'
    BY <1>2, EnterStep
  <1>3. ASSUME NEW c \in Callers, Heart!Call(c) PROVE HeartIInv'
    BY <1>3, OnceStep, LockStep, PaintStep DEF Heart!Call
  <1>4. CASE UNCHANGED heart
    BY <1>4, HeartStays
  <1> QED BY <1>1, <1>2, <1>3, <1>4 DEF Heart!Next

LEMMA HeartResult == HeartIInv => Heart!HeartbeatInv
  BY DEF HeartIInv, Heart!HeartbeatInv

-----------------------------------------------------------------------------
(* The three of them, and the behaviours that TLC checks.                  *)

BackgroundIInv == CapIInv /\ ProbeIInv /\ HeartIInv

LEMMA BackgroundInit == Init => BackgroundIInv
  BY CapInit, ProbeInit, HeartInit DEF Init, BackgroundIInv

LEMMA BackgroundNext == BackgroundIInv /\ [Next]_vars => BackgroundIInv'
  <1> SUFFICES ASSUME BackgroundIInv, [Next]_vars PROVE BackgroundIInv'
    OBVIOUS
  <1>1. [Cap!Next]_cap
    BY DEF Next, vars, CapStep, ProbeStep, HeartbeatStep
  <1>2. [Probe!Next]_probe
    BY DEF Next, vars, CapStep, ProbeStep, HeartbeatStep
  <1>3. [Heart!Next]_heart
    BY DEF Next, vars, CapStep, ProbeStep, HeartbeatStep
  <1> QED BY <1>1, <1>2, <1>3, CapNext, ProbeNext, HeartNext DEF BackgroundIInv

LEMMA BackgroundInvariant == Spec => []BackgroundIInv
  <1> QED BY BackgroundInit, BackgroundNext, PTL DEF Spec

(* The memory cap.  A command reported as killed was over the cap itself   *)
(* while it ran; one that stays over it under a working probe is killed    *)
(* within one and a half poll intervals; no monitor outlives its command;  *)
(* and a scan never misses a group that is alive (worker_unix.go:64, :71,  *)
(* worker.go:795).                                                         *)
THEOREM CapInvHolds == (Cap!Spec => []Cap!CapInv) /\ (Spec => []CapInv)
  <1>1. Cap!Spec => []Cap!CapInv
    <2>1. CapIInv /\ [Cap!Next]_Cap!vars => CapIInv'
      BY CapNext DEF Cap!vars, Cap!snapshot, Cap!history, cap
    <2> QED BY CapInit, <2>1, CapResult, PTL DEF Cap!Spec
  <1>2. BackgroundIInv => CapInv
    BY CapResult DEF BackgroundIInv, CapInv
  <1>3. Spec => []CapInv
    BY <1>2, BackgroundInvariant, PTL
  <1> QED BY <1>1, <1>3

(* The health of the probe.  When no monitor has a line to print, the      *)
(* lines printed in this run account for the flag: one outage, one line,   *)
(* however many monitors saw it (worker_unix.go:22, :31).                  *)
THEOREM ProbeInvHolds == (Probe!Spec => []Probe!ProbeInv) /\ (Spec => []ProbeInv)
  <1>1. Probe!Spec => []Probe!ProbeInv
    <2>1. ProbeIInv /\ [Probe!Next]_Probe!vars => ProbeIInv'
      BY ProbeNext DEF Probe!vars, probe
    <2> QED BY ProbeInit, <2>1, ProbeResult, PTL DEF Probe!Spec
  <1>2. BackgroundIInv => ProbeInv
    BY ProbeResult DEF BackgroundIInv, ProbeInv
  <1>3. Spec => []ProbeInv
    BY <1>2, BackgroundInvariant, PTL
  <1> QED BY <1>1, <1>3

(* The progress line.  A progress frame is never painted over by an idle   *)
(* line nor followed by the rest of one, and when the first call that      *)
(* stops the heartbeat has let another past, the heartbeat has ended       *)
(* (terminal.go:151).                                                      *)
THEOREM HeartbeatInvHolds ==
    (Heart!Spec => []Heart!HeartbeatInv) /\ (Spec => []HeartbeatInv)
  <1>1. Heart!Spec => []Heart!HeartbeatInv
    <2>1. HeartIInv /\ [Heart!Next]_Heart!vars => HeartIInv'
      BY HeartNext DEF Heart!vars, heart
    <2> QED BY HeartInit, <2>1, HeartResult, PTL DEF Heart!Spec
  <1>2. BackgroundIInv => HeartbeatInv
    BY HeartResult DEF BackgroundIInv, HeartbeatInv
  <1>3. Spec => []HeartbeatInv
    BY <1>2, BackgroundInvariant, PTL
  <1> QED BY <1>1, <1>3
=============================================================================
