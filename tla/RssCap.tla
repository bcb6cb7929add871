------------------------------- MODULE RssCap -------------------------------
(***************************************************************************)
(* The memory cap of a mutant: Worker.runMonitored (worker.go) with its    *)
(* monitor goroutine, and cachedGroupRSS and rescanRSS (worker_unix.go),   *)
(* the scan of the process table that all monitors share.  Each worker     *)
(* runs one command after another, each in a process group of its own.     *)
(*                                                                         *)
(* Time is discrete, with Half ticks to half a monitorPollInterval.  A     *)
(* scan and the handling of a poll take no time, and a monitor wakes up    *)
(* when it is due: the bounds below are those of a machine that keeps up.  *)
(* A group is over the cap or not; how much memory it has does not matter. *)
(***************************************************************************)
EXTENDS Naturals

CONSTANTS Workers,
          Half        \* ticks in half of monitorPollInterval

CapAssumption == Half \in Nat \ {0}

Interval == 2 * Half
TooOld   == 4 * Half   \* ages are counted up to here

VARIABLES
    run,      \* where each worker's runMonitored is
    over,     \* its group is over the cap now
    killed,   \* its local killed
    monitor,  \* where its monitor goroutine is
    timer,    \* ticks until the monitor's ticker fires
    fresh,    \* the snapshot was taken since the monitor asked for a reading
    listed,   \* rssSnapshot.table: the groups it lists
    high,     \* those of them it shows over the cap
    age,      \* ticks since the snapshot was taken, TooOld for none
    \* history
    wasOver,  \* the group was over the cap at some time
    overFor,  \* ticks it has been over the cap, under a working probe
    missed    \* a scan did not list it though it was alive

snapshot == <<listed, high, age>>
history  == <<wasOver, overFor, missed>>
vars     == <<run, over, killed, monitor, timer, fresh, snapshot, history>>

TypeOK ==
    /\ run \in [Workers -> {"idle", "running", "ended", "waited"}]
    /\ over \in [Workers -> BOOLEAN]
    /\ \A w \in Workers : over[w] => run[w] = "running"
    /\ killed \in [Workers -> BOOLEAN]
    /\ monitor \in [Workers -> {"gone", "sleep", "read", "kill"}]
    /\ timer \in [Workers -> 0..Interval]
    /\ fresh \in [Workers -> BOOLEAN]
    /\ listed \subseteq Workers /\ high \subseteq listed
    /\ age \in 0..TooOld
    /\ wasOver \in [Workers -> BOOLEAN]
    /\ overFor \in [Workers -> 0..TooOld]
    /\ missed \in [Workers -> BOOLEAN]

Init ==
    /\ run = [w \in Workers |-> "idle"]
    /\ over = [w \in Workers |-> FALSE]
    /\ killed = [w \in Workers |-> FALSE]
    /\ monitor = [w \in Workers |-> "gone"]
    /\ timer = [w \in Workers |-> Interval]
    /\ fresh = [w \in Workers |-> FALSE]
    /\ listed = {} /\ high = {} /\ age = TooOld
    /\ wasOver = [w \in Workers |-> FALSE]
    /\ overFor = [w \in Workers |-> 0]
    /\ missed = [w \in Workers |-> FALSE]

-----------------------------------------------------------------------------
(* runMonitored.                                                           *)

(* Faulty: the new group is taken for the worker's previous one.           *)
FaultyStart(w) ==
    /\ run[w] = "idle" /\ monitor[w] = "gone"
    /\ run' = [run EXCEPT ![w] = "running"]
    /\ monitor' = [monitor EXCEPT ![w] = "sleep"]
    /\ timer' = [timer EXCEPT ![w] = Interval]
    /\ killed' = [killed EXCEPT ![w] = FALSE]
    /\ wasOver' = [wasOver EXCEPT ![w] = FALSE]
    /\ missed' = [missed EXCEPT ![w] = FALSE]
    /\ listed' = listed \ {w}
    /\ UNCHANGED <<over, fresh, high, age, overFor>>

(* The command is started, in a new group, which no snapshot lists, and    *)
(* then its monitor.                                                       *)
Start(w) ==
    /\ run[w] = "idle" /\ monitor[w] = "gone"
    /\ run' = [run EXCEPT ![w] = "running"]
    /\ monitor' = [monitor EXCEPT ![w] = "sleep"]
    /\ timer' = [timer EXCEPT ![w] = Interval]
    /\ killed' = [killed EXCEPT ![w] = FALSE]
    /\ wasOver' = [wasOver EXCEPT ![w] = FALSE]
    /\ missed' = [missed EXCEPT ![w] = FALSE]
    /\ listed' = listed \ {w} /\ high' = high \ {w}
    /\ UNCHANGED <<over, fresh, age, overFor>>

(* The group's processes allocate or free memory.                          *)
Allocate(w) ==
    /\ run[w] = "running"
    /\ over' = [over EXCEPT ![w] = ~@]
    /\ wasOver' = [wasOver EXCEPT ![w] = TRUE]
    /\ overFor' = [overFor EXCEPT ![w] = 0]
    /\ UNCHANGED <<run, killed, monitor, timer, fresh, snapshot, missed>>

(* The processes of the group end, or none is left to; its leader is not   *)
(* waited for yet.                                                         *)
Stops(w, ends) ==
    /\ run' = [run EXCEPT ![w] = IF ends THEN "ended" ELSE @]
    /\ over' = [over EXCEPT ![w] = @ /\ ~ends]
    /\ overFor' = [overFor EXCEPT ![w] = IF ends THEN 0 ELSE @]

End(w) ==
    /\ run[w] = "running"
    /\ Stops(w, TRUE)
    /\ UNCHANGED <<killed, monitor, timer, fresh, snapshot, wasOver, missed>>

(* cmd.Wait() returns and monitorDone is closed.                           *)
Wait(w) ==
    /\ run[w] = "ended"
    /\ run' = [run EXCEPT ![w] = "waited"]
    /\ UNCHANGED <<over, killed, monitor, timer, fresh, snapshot, history>>

(* Faulty: the monitor is not waited for.                                  *)
FaultyReturn(w) ==
    /\ run[w] = "waited"
    /\ run' = [run EXCEPT ![w] = "idle"]
    /\ UNCHANGED <<over, killed, monitor, timer, fresh, snapshot, history>>

Return(w) ==
    /\ run[w] = "waited" /\ monitor[w] = "gone"
    /\ run' = [run EXCEPT ![w] = "idle"]
    /\ UNCHANGED <<over, killed, monitor, timer, fresh, snapshot, history>>

-----------------------------------------------------------------------------
(* The monitor goroutine.                                                  *)

(* The ticker fires, and the monitor asks for a reading.                   *)
Poll(w) ==
    /\ monitor[w] = "sleep" /\ timer[w] = 0
    /\ monitor' = [monitor EXCEPT ![w] = "read"]
    /\ timer' = [timer EXCEPT ![w] = Interval]
    /\ fresh' = [fresh EXCEPT ![w] = FALSE]
    /\ UNCHANGED <<run, over, killed, snapshot, history>>

(* monitorDone is closed.                                                  *)
Leave(w) ==
    /\ monitor[w] = "sleep" /\ run[w] = "waited"
    /\ monitor' = [monitor EXCEPT ![w] = "gone"]
    /\ UNCHANGED <<run, over, killed, timer, fresh, snapshot, history>>

(* groupAlive: a group whose leader was not waited for is alive.           *)
Alive == {w \in Workers : run[w] \in {"running", "ended"}}

(* What a scan lists.  (Faulty: no group that has no memory any more.)     *)
FaultyScan == {w \in Workers : run[w] = "running"}
Scan == Alive

(* Half an interval, the age at which a snapshot is still used.  (Faulty:  *)
(* a whole one.)                                                           *)
FaultyMaxAge == Interval
MaxAge == Half

(* The snapshot is too old, or was taken before the monitor asked and does *)
(* not list its group.                                                     *)
MustScan(w) == age > MaxAge \/ (w \notin listed /\ ~fresh[w])

(* A scan is read under rssSnapshot.mu, whether it was made for this poll  *)
(* or not.  (Faulty: all groups are summed.)                               *)
FaultyReadsHigh(w) == high' # {}
ReadsHigh(w) == w \in high'

(* cachedGroupRSS.                                                         *)
Read(w) ==
    /\ monitor[w] = "read"
    /\ IF MustScan(w)
       THEN /\ listed' = Scan
            /\ high' = {v \in Scan : over[v]}
            /\ age' = 0
            /\ fresh' = [v \in Workers |-> TRUE]
       ELSE UNCHANGED <<snapshot, fresh>>
    /\ monitor' = [monitor EXCEPT ![w] = IF ReadsHigh(w) THEN "kill" ELSE "sleep"]
    /\ missed' = [missed EXCEPT ![w] = @ \/ w \in Alive \ listed']
    /\ UNCHANGED <<run, over, killed, timer, wasOver, overFor>>

(* Faulty: the monitor gives up on a probe that fails.                     *)
FaultyReadFails(w) ==
    /\ monitor[w] = "read" /\ MustScan(w)
    /\ monitor' = [monitor EXCEPT ![w] = "gone"]
    /\ overFor' = [overFor EXCEPT ![w] = 0]
    /\ UNCHANGED <<run, over, killed, timer, fresh, snapshot, wasOver, missed>>

(* The scan fails: the group reads as 0, and the old snapshot stays.       *)
ReadFails(w) ==
    /\ monitor[w] = "read" /\ MustScan(w)
    /\ monitor' = [monitor EXCEPT ![w] = "sleep"]
    /\ overFor' = [overFor EXCEPT ![w] = 0]
    /\ UNCHANGED <<run, over, killed, timer, fresh, snapshot, wasOver, missed>>

(* killPgroup; the processes may have ended meanwhile.                     *)
Kill(w) ==
    /\ monitor[w] = "kill"
    /\ monitor' = [monitor EXCEPT ![w] = "gone"]
    /\ killed' = [killed EXCEPT ![w] = TRUE]
    /\ Stops(w, run[w] = "running")
    /\ UNCHANGED <<timer, fresh, snapshot, wasOver, missed>>

-----------------------------------------------------------------------------
Due(w) == monitor[w] \in {"read", "kill"} \/ (monitor[w] = "sleep" /\ timer[w] = 0)

Older(n) == IF n < TooOld THEN n + 1 ELSE n

Tick ==
    /\ \A w \in Workers : ~Due(w)
    /\ timer' = [w \in Workers |-> IF monitor[w] = "sleep" THEN timer[w] - 1 ELSE timer[w]]
    /\ age' = Older(age)
    /\ overFor' = [w \in Workers |-> IF over[w] THEN Older(overFor[w]) ELSE 0]
    /\ UNCHANGED <<run, over, killed, monitor, fresh, listed, high, wasOver, missed>>

Monitored(w) == Poll(w) \/ Leave(w) \/ Read(w) \/ ReadFails(w) \/ Kill(w)

Next ==
    \/ Tick
    \/ \E w \in Workers :
         Start(w) \/ Allocate(w) \/ End(w) \/ Wait(w) \/ Return(w) \/ Monitored(w)

Spec == Init /\ [][Next]_vars

-----------------------------------------------------------------------------
(* Properties.                                                             *)

(* A group that is over the cap is killed within one interval and a half,  *)
(* counted from the last scan that failed for it: the snapshot a poll      *)
(* reads may be half an interval old (worker_unix.go:71).                  *)
KilledInTime == \A w \in Workers : overFor[w] <= Interval + Half

(* Only a run whose own group was over the cap is called killed, whichever *)
(* snapshot told so and whenever its processes end: what reads TIMED OUT   *)
(* for its memory did take it (worker.go:795).                             *)
KilledWasOver == \A w \in Workers : killed[w] => wasOver[w]

(* No monitor outlives the run it watches, so none kills a later command   *)
(* (worker.go:806).                                                        *)
MonitorEndsFirst == \A w \in Workers : run[w] = "idle" => monitor[w] = "gone"

(* A group that is alive is listed to the poll that asks for it, unless a  *)
(* scan fails: no snapshot taken before it started makes its poll a        *)
(* failure of the probe (worker_unix.go:64).                               *)
LiveGroupIsListed == \A w \in Workers : ~missed[w]

(* All of these, of well-typed states.                                     *)
CapInv ==
    TypeOK /\ KilledInTime /\ KilledWasOver /\ MonitorEndsFirst /\ LiveGroupIsListed
=============================================================================
