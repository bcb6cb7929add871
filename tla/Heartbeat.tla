----------------------------- MODULE Heartbeat -----------------------------
(***************************************************************************)
(* internal/report/terminal.go: the progress line, which two kinds of      *)
(* goroutine write.  Until the first result the heartbeat goroutine        *)
(* repaints an idle line that ends in "(compiling)"; the first call of     *)
(* OnResult or StopHeartbeat stops it, waits for it and clears the line,   *)
(* and every OnResult then paints a progress frame over the one before.    *)
(* A frame is shorter than the idle line and does not clear what is to its *)
(* right.                                                                  *)
(*                                                                         *)
(* The pool reports from one goroutine; StopHeartbeat is documented as     *)
(* safe to call from any, so several call here.                            *)
(***************************************************************************)
EXTENDS Naturals, FiniteSets

CONSTANTS Callers,  \* the goroutines that call OnResult and StopHeartbeat
          Total     \* t.total: how many results there are

VARIABLES
    mu,       \* who holds t.mu
    once,     \* t.hbStopOnce
    loop,     \* where heartbeatLoop is
    stop,     \* hbStop is closed
    at,       \* where each caller is
    painting, \* it was called as OnResult, so it will paint a frame
    done,     \* t.done
    line,     \* what the line starts with
    suffix    \* the line ends in "(compiling)"

vars == <<mu, once, loop, stop, at, painting, done, line, suffix>>

None == "none"
Loop == "loop"

HeartbeatAssumption == Total \in Nat /\ None \notin Callers /\ Loop \notin Callers

TypeOK ==
    /\ mu \in Callers \cup {Loop, None}
    /\ once \in {"new", "running", "done"}
    /\ loop \in {"absent", "lock", "paint", "select", "gone"}
    /\ stop \in BOOLEAN
    /\ at \in [Callers -> {"out", "once", "snapshot", "close", "wait", "clear",
                           "lock", "paint"}]
    /\ painting \in [Callers -> BOOLEAN]
    /\ done \in 0..Total
    /\ line \in {"blank", "idle", "frame"}
    /\ suffix \in BOOLEAN

(* StartHeartbeat has been called: it starts the goroutine, unless the     *)
(* output is no terminal, there is nothing to test, or lines are printed   *)
(* one per mutant.                                                         *)
Init ==
    /\ mu = None /\ once = "new" /\ stop = FALSE
    /\ loop \in IF Total = 0 THEN {"absent"} ELSE {"absent", "lock"}
    /\ at = [c \in Callers |-> "out"]
    /\ painting = [c \in Callers |-> FALSE]
    /\ done = 0
    /\ line = "blank" /\ suffix = FALSE

-----------------------------------------------------------------------------
(* heartbeatLoop: paint, then paint at each tick until told to stop.       *)

LoopLock ==
    /\ loop = "lock" /\ mu = None
    /\ mu' = Loop /\ loop' = "paint"
    /\ UNCHANGED <<once, stop, at, painting, done, line, suffix>>

PaintIdleLine ==
    /\ loop = "paint"
    /\ IF done > 0 THEN UNCHANGED <<line, suffix>> ELSE line' = "idle" /\ suffix' = TRUE
    /\ mu' = None /\ loop' = "select"
    /\ UNCHANGED <<once, stop, at, painting, done>>

LoopTick ==
    /\ loop = "select"
    /\ loop' = "lock"
    /\ UNCHANGED <<mu, once, stop, at, painting, done, line, suffix>>

LoopStop ==
    /\ loop = "select" /\ stop
    /\ loop' = "gone"
    /\ UNCHANGED <<mu, once, stop, at, painting, done, line, suffix>>

HeartbeatLoop == LoopLock \/ PaintIdleLine \/ LoopTick \/ LoopStop

-----------------------------------------------------------------------------
(* OnResult and StopHeartbeat.                                             *)

Go(c, from, to) == at[c] = from /\ at' = [at EXCEPT ![c] = to]

(* Where a caller goes when the heartbeat is stopped.                      *)
Onward(c) == IF painting[c] THEN "lock" ELSE "out"

(* The results that are being reported.                                    *)
Results == {c \in Callers : at[c] # "out" /\ painting[c]}

OnResult(c) ==
    /\ done + Cardinality(Results) < Total
    /\ Go(c, "out", "once")
    /\ painting' = [painting EXCEPT ![c] = TRUE]
    /\ UNCHANGED <<mu, once, loop, stop, done, line, suffix>>

(* Faulty: a caller that has reported counts again.                        *)
FaultyStopHeartbeat(c) ==
    /\ Go(c, "out", "once")
    /\ UNCHANGED <<mu, once, loop, stop, painting, done, line, suffix>>

StopHeartbeat(c) ==
    /\ Go(c, "out", "once")
    /\ painting' = [painting EXCEPT ![c] = FALSE]
    /\ UNCHANGED <<mu, once, loop, stop, done, line, suffix>>

(* hbStopOnce.Do: the first caller stops the heartbeat, the others wait    *)
(* until it has.                                                           *)
First(c) ==
    /\ once = "new"
    /\ Go(c, "once", "snapshot")
    /\ once' = "running"
    /\ UNCHANGED <<mu, loop, stop, painting, done, line, suffix>>

(* Faulty: a flag for the Once: the others go on at once.                  *)
FaultyLater(c) ==
    /\ once \in {"running", "done"}
    /\ Go(c, "once", Onward(c))
    /\ UNCHANGED <<mu, once, loop, stop, painting, done, line, suffix>>

Later(c) ==
    /\ once = "done"
    /\ Go(c, "once", Onward(c))
    /\ UNCHANGED <<mu, once, loop, stop, painting, done, line, suffix>>

(* Faulty: t.mu is held until the heartbeat has ended.                     *)
FaultySnapshot(c) ==
    /\ mu = None
    /\ Go(c, "snapshot", IF loop = "absent" THEN Onward(c) ELSE "close")
    /\ once' = IF loop = "absent" THEN "done" ELSE once
    /\ mu' = IF loop = "absent" THEN mu ELSE c
    /\ UNCHANGED <<loop, stop, painting, done, line, suffix>>

(* The channels are read under t.mu, and there are none without a loop.    *)
Snapshot(c) ==
    /\ mu = None
    /\ Go(c, "snapshot", IF loop = "absent" THEN Onward(c) ELSE "close")
    /\ once' = IF loop = "absent" THEN "done" ELSE once
    /\ UNCHANGED <<mu, loop, stop, painting, done, line, suffix>>

Close(c) ==
    /\ Go(c, "close", "wait")
    /\ stop' = TRUE
    /\ UNCHANGED <<mu, once, loop, painting, done, line, suffix>>

(* Faulty: the loop is told to stop and not waited for.                    *)
FaultyWait(c) ==
    /\ Go(c, "wait", "clear")
    /\ UNCHANGED <<mu, once, loop, stop, painting, done, line, suffix>>

(* <-done.                                                                 *)
Wait(c) ==
    /\ loop = "gone"
    /\ Go(c, "wait", "clear")
    /\ UNCHANGED <<mu, once, loop, stop, painting, done, line, suffix>>

Clear(c) ==
    /\ mu = None
    /\ Go(c, "clear", Onward(c))
    /\ line' = "blank" /\ suffix' = FALSE
    /\ once' = "done"
    /\ UNCHANGED <<mu, loop, stop, painting, done>>

Lock(c) ==
    /\ mu = None
    /\ Go(c, "lock", "paint")
    /\ mu' = c
    /\ UNCHANGED <<once, loop, stop, painting, done, line, suffix>>

(* The frame covers the start of the line alone.                           *)
Paint(c) ==
    /\ Go(c, "paint", "out")
    /\ done' = done + 1
    /\ line' = "frame"
    /\ mu' = None
    /\ UNCHANGED <<once, loop, stop, painting, suffix>>

Call(c) ==
    \/ First(c) \/ Later(c) \/ Snapshot(c) \/ Close(c) \/ Wait(c) \/ Clear(c)
    \/ Lock(c) \/ Paint(c)

Next ==
    \/ HeartbeatLoop
    \/ \E c \in Callers : OnResult(c) \/ StopHeartbeat(c) \/ Call(c)

(* The goroutines are scheduled, a mutex is handed on, and a select whose  *)
(* stop is ready again and again takes it in the end.  runMutants defers a *)
(* StopHeartbeat, so one is called.                                        *)
Fairness ==
    /\ WF_vars(HeartbeatLoop) /\ SF_vars(LoopLock) /\ SF_vars(LoopStop)
    /\ \A c \in Callers :
         SF_vars(Call(c)) /\ WF_vars(once = "new" /\ StopHeartbeat(c))

Spec == Init /\ [][Next]_vars /\ Fairness

-----------------------------------------------------------------------------
(* Properties.                                                             *)

(* A progress frame is never painted over by an idle line, nor followed by *)
(* what is left of one, whichever goroutine paints when (terminal.go:151). *)
FrameIsClean ==
    /\ done > 0 => line = "frame"
    /\ line = "frame" => ~suffix

(* The heartbeat is not running any more when a call that stops it has     *)
(* returned, so nothing it prints lands in what is printed next.           *)
StoppedForGood ==
    once = "done" => loop \in {"absent", "gone"} /\ ~suffix

(* Both, of well-typed states.                                             *)
HeartbeatInv == TypeOK /\ FrameIsClean /\ StoppedForGood

(* Every call returns, whoever holds t.mu or waits for whom, and the       *)
(* heartbeat ends (terminal.go:173).                                       *)
EveryCallReturns ==
    /\ \A c \in Callers : at[c] # "out" ~> at[c] = "out"
    /\ <>[](loop \in {"absent", "gone"})
=============================================================================
