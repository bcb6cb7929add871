---------------------------- MODULE MCBackground ----------------------------
(***************************************************************************)
(* The goroutines beside the workers, for TLC: two monitors under the      *)
(* memory cap (RssCap), three monitors on the probe's counter and flag     *)
(* (RssProbe), and the heartbeat with three callers (Heartbeat).  They     *)
(* share nothing that these modules tell of, so one of them runs in a      *)
(* behaviour and the others stay where they start.                         *)
(***************************************************************************)
EXTENDS Naturals

CONSTANTS Workers, Half, Monitors, OutageAfter, Runs, Callers, Total

VARIABLES part,  \* "cap", "probe" or "heartbeat"
          run, over, killed, monitor, timer, fresh, listed, high, age,
          wasOver, overFor, missed,
          works, polls, fails, down, runs, lines,
          mu, once, loop, stop, at, painting, done, line, suffix

Cap   == INSTANCE RssCap
Probe == INSTANCE RssProbe WITH at <- polls
Heart == INSTANCE Heartbeat

ASSUME BackgroundAssumption ==
    Cap!CapAssumption /\ Probe!ProbeAssumption /\ Heart!HeartbeatAssumption

cap   == <<run, over, killed, monitor, timer, fresh, listed, high, age,
           wasOver, overFor, missed>>
probe == <<works, polls, fails, down, runs, lines>>
heart == <<mu, once, loop, stop, at, painting, done, line, suffix>>
vars  == <<part, cap, probe, heart>>

Init ==
    /\ part \in {"cap", "probe", "heartbeat"}
    /\ Cap!Init
    /\ Probe!Init /\ (part # "probe" => works)
    /\ Heart!Init /\ (part # "heartbeat" => loop = "absent")

CapStep(A)       == part = "cap" /\ A /\ UNCHANGED <<part, probe, heart>>
ProbeStep(A)     == part = "probe" /\ A /\ UNCHANGED <<part, cap, heart>>
HeartbeatStep(A) == part = "heartbeat" /\ A /\ UNCHANGED <<part, cap, probe>>

Next == CapStep(Cap!Next) \/ ProbeStep(Probe!Next) \/ HeartbeatStep(Heart!Next)

(* The fairness of RssProbe and Heartbeat, in their parts.                 *)
Fairness ==
    /\ WF_vars(ProbeStep(Probe!Run))
    /\ \A m \in Monitors : WF_vars(ProbeStep(Probe!Poll(m)))
    /\ WF_vars(HeartbeatStep(Heart!HeartbeatLoop))
    /\ SF_vars(HeartbeatStep(Heart!LoopLock))
    /\ SF_vars(HeartbeatStep(Heart!LoopStop))
    /\ \A c \in Callers :
         /\ SF_vars(HeartbeatStep(Heart!Call(c)))
         /\ WF_vars(HeartbeatStep(once = "new" /\ Heart!StopHeartbeat(c)))

Spec == Init /\ [][Next]_vars /\ Fairness

(* The properties of the parts.                                            *)

(* worker_unix.go:64, :71, worker.go:795: see CapInv in RssCap.            *)
CapInv == Cap!CapInv

(* worker_unix.go:22: see ProbeInv in RssProbe.                            *)
ProbeInv == Probe!ProbeInv

(* worker_unix.go:119, :130: see FlagFollowsProbe in RssProbe.             *)
FlagFollowsProbe == Probe!FlagFollowsProbe

(* terminal.go: see HeartbeatInv in Heartbeat.                             *)
HeartbeatInv == Heart!HeartbeatInv

(* terminal.go: see EveryCallReturns in Heartbeat.                         *)
EveryCallReturns == Heart!EveryCallReturns
=============================================================================
