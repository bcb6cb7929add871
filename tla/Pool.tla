-------------------------------- MODULE Pool --------------------------------
(***************************************************************************)
(* internal/runner/pool.go: Pool.Run.  One goroutine feeds the indices of  *)
(* the pending mutants to the work channel, each worker receives, tests    *)
(* and sends its result, one goroutine closes the results channel when the *)
(* workers are gone, and the caller's goroutine collects: it writes each   *)
(* result back by the mutant's ID and calls onResult.                      *)
(*                                                                         *)
(* Testing a mutant (Worker.Test) is one step here; module Worker opens it *)
(* up.  The work channel holds consecutive elements of `order', since only *)
(* the feeder sends on it, so two counters stand for it.                   *)
(***************************************************************************)
EXTENDS Naturals, Sequences, FiniteSets, Statuses

CONSTANTS Workers,    \* the worker slots, 0 .. p.workers-1 in the code
          NMutants,   \* the length of the mutants slice
          Id,         \* m.ID of each mutant
          SortKey,    \* the rank of each mutant's (Pkg, File, StartOffset)
          Given,      \* the statuses a mutant may come with
          Verdicts    \* the statuses Worker.Test may give a pending mutant

Mutants == 1..NMutants

ASSUME NMutantsAssumption == NMutants \in Nat

(* Discovery numbers the mutants it keeps, and later phases may drop some  *)
(* of them: IDs identify a mutant and are not positions.                   *)
ASSUME IdAssumption ==
    /\ Id \in [Mutants -> Nat]
    /\ \A i, j \in Mutants : Id[i] = Id[j] => i = j

ASSUME SortKeyAssumption == SortKey \in [Mutants -> Nat]
ASSUME GivenAssumption == Given \subseteq Statuses
ASSUME VerdictsAssumption ==
    /\ Verdicts \subseteq TestVerdicts
    /\ InfraError \in Verdicts

VARIABLES
    pc,            \* where Pool.Run is
    status,        \* the status of each element of the mutants slice
    order,         \* the pending indices, sorted
    sent,          \* how many of them the feeder has sent
    received,      \* how many of them the workers have received
    workClosed,    \* the work channel is closed (or was never made)
    at,            \* where each worker is
    holds,         \* the index each worker received last
    result,        \* the status of the mutant each worker has finished
    results,       \* the results channel
    resultsClosed, \* it is closed
    ctxDone,       \* ctx.Err() # nil
    \* history
    given,         \* the statuses Run was called with
    starts,        \* how many times each mutant's Test was called
    outcome,       \* what its Test returned
    reported       \* how many times onResult was called for it

slice    == <<status, order>>
channels == <<sent, received, workClosed, results, resultsClosed>>
workers  == <<at, holds, result>>
history  == <<given, starts, outcome, reported>>
vars     == <<pc, slice, channels, workers, ctxDone, history>>

NoMutant == 0

(* A worker that has received an index and is not done with it.            *)
Busy(w) == at[w] \in {"check", "test", "send"}

(* A result is sent as the whole mutant; its ID is all that says which.    *)
Results == [id : Nat, status : Statuses]

TypeOK ==
    /\ pc \in {"start", "fail", "collect", "returned"}
    /\ status \in [Mutants -> Statuses]
    /\ order \in Seq(Mutants)
    /\ sent \in Nat
    /\ received \in Nat
    /\ workClosed \in BOOLEAN
    /\ at \in [Workers -> {"absent", "receive", "check", "test", "send", "exited"}]
    /\ holds \in [Workers -> Mutants \cup {NoMutant}]
    /\ \A w \in Workers : Busy(w) => holds[w] \in Mutants
    /\ result \in [Workers -> Statuses]
    /\ results \in Seq(Results)
    /\ resultsClosed \in BOOLEAN
    /\ ctxDone \in BOOLEAN
    /\ given \in [Mutants -> Statuses]
    /\ starts \in [Mutants -> Nat]
    /\ outcome \in [Mutants -> Statuses]
    /\ reported \in [Mutants -> Nat]

-----------------------------------------------------------------------------
(* The mutants Run will test, and the order it tests them in: by (Pkg,     *)
(* File, StartOffset), equal ones as they come (sort.SliceStable).         *)

PendingIn(st) == {i \in Mutants : st[i] = Pending}

MutantLess(i, j) == SortKey[i] < SortKey[j] \/ (SortKey[i] = SortKey[j] /\ i < j)

Orders(S, o) ==
    /\ \A i \in S : \E k \in DOMAIN o : o[k] = i
    /\ \A k, l \in DOMAIN o : k < l => MutantLess(o[k], o[l])

(* idToIdx: the elements of the slice a result's ID names.  (The faulty    *)
(* variant takes an ID for a position.)                                    *)
FaultyIndicesOf(id) == {id} \cap Mutants
IndicesOf(id) == {i \in Mutants : Id[i] = id}

-----------------------------------------------------------------------------
Init ==
    /\ pc = "start"
    /\ status \in [Mutants -> Given]
    /\ order = << >>
    /\ sent = 0 /\ received = 0 /\ workClosed = TRUE
    /\ at = [w \in Workers |-> "absent"]
    /\ holds = [w \in Workers |-> NoMutant]
    /\ result = [w \in Workers |-> Pending]
    /\ results = << >> /\ resultsClosed = FALSE
    /\ ctxDone \in BOOLEAN
    /\ given = status
    /\ starts = [i \in Mutants |-> 0]
    /\ outcome = status
    /\ reported = [i \in Mutants |-> 0]

(* Nothing is pending.                                                     *)
StartIdle ==
    /\ pc = "start"
    /\ PendingIn(status) = {}
    /\ pc' = "returned"
    /\ UNCHANGED <<slice, channels, workers, ctxDone, history>>

(* The channels are made, each worker that can be constructed is started,  *)
(* and with one at least, the feeder and the closer.                       *)
Start ==
    /\ pc = "start"
    /\ LET S == PendingIn(status)
       IN  /\ S # {}
           /\ \E o \in [1..Cardinality(S) -> S] : Orders(S, o) /\ order' = o
    /\ \E made \in SUBSET Workers :
         /\ at' = [w \in Workers |-> IF w \in made THEN "receive" ELSE "absent"]
         /\ pc' = IF made = {} THEN "fail" ELSE "collect"
         /\ workClosed' = (made = {})
    /\ UNCHANGED <<status, sent, received, results, resultsClosed, holds,
                   result, ctxDone, history>>

(* Faulty: the run that could not start just returns.                      *)
FaultyFailPending ==
    /\ pc = "fail"
    /\ pc' = "returned"
    /\ UNCHANGED <<slice, channels, workers, ctxDone, history>>

(* failPending: no worker could be constructed.                            *)
FailPending ==
    /\ pc = "fail"
    /\ LET failed(old, new) == [i \in Mutants |->
                                  IF status[i] = Pending THEN new ELSE old[i]]
       IN  /\ status' = failed(status, InfraError)
           /\ outcome' = failed(outcome, InfraError)
           /\ reported' = failed(reported, 1)
    /\ pc' = "returned"
    /\ UNCHANGED <<order, channels, workers, ctxDone, given, starts>>

-----------------------------------------------------------------------------
(* The feeder: a select between the send and ctx.Done().                   *)

FeedSend ==
    /\ ~workClosed
    /\ sent < Len(order)
    /\ sent - received < Len(order)      \* the channel's capacity
    /\ sent' = sent + 1
    /\ UNCHANGED <<pc, slice, received, workClosed, results, resultsClosed,
                   workers, ctxDone, history>>

(* Faulty: work is closed on the cancelled path alone.                     *)
FaultyFeedStop ==
    /\ ~workClosed
    /\ ctxDone
    /\ workClosed' = TRUE
    /\ UNCHANGED <<pc, slice, sent, received, results, resultsClosed, workers,
                   ctxDone, history>>

FeedStop ==
    /\ ~workClosed
    /\ sent = Len(order) \/ ctxDone
    /\ workClosed' = TRUE
    /\ UNCHANGED <<pc, slice, sent, received, results, resultsClosed, workers,
                   ctxDone, history>>

Feed == FeedSend \/ FeedStop

-----------------------------------------------------------------------------
(* A worker: for idx := range work.                                        *)

Go(w, from, to) == at[w] = from /\ at' = [at EXCEPT ![w] = to]

(* Faulty: the next index is read first and taken later, if at all.        *)
FaultyReceive(w) ==
    /\ Go(w, "receive", "check")
    /\ received < sent
    /\ received' \in {received, received + 1}
    /\ holds' = [holds EXCEPT ![w] = order[received + 1]]
    /\ UNCHANGED <<pc, slice, sent, workClosed, results, resultsClosed, result,
                   ctxDone, history>>

Receive(w) ==
    /\ Go(w, "receive", "check")
    /\ received < sent
    /\ received' = received + 1
    /\ holds' = [holds EXCEPT ![w] = order[received + 1]]
    /\ UNCHANGED <<pc, slice, sent, workClosed, results, resultsClosed, result,
                   ctxDone, history>>

(* Faulty: a closed channel's zero value is taken for an index.            *)
FaultyReceiveClosed(w) ==
    /\ Go(w, "receive", "check")
    /\ workClosed /\ received = sent
    /\ holds' = [holds EXCEPT ![w] = NoMutant]
    /\ UNCHANGED <<pc, slice, channels, result, ctxDone, history>>

(* The channel is closed and drained.                                      *)
ReceiveClosed(w) ==
    /\ Go(w, "receive", "exited")
    /\ workClosed /\ received = sent
    /\ UNCHANGED <<pc, slice, channels, holds, result, ctxDone, history>>

(* A worker that received an index after the cancel drops it.              *)
Drop(w) ==
    /\ ctxDone
    /\ Go(w, "check", "exited")
    /\ UNCHANGED <<pc, slice, channels, holds, result, ctxDone, history>>

StartTest(w) ==
    /\ ~ctxDone
    /\ Go(w, "check", "test")
    /\ starts' = [starts EXCEPT ![holds[w]] = @ + 1]
    /\ UNCHANGED <<pc, slice, channels, holds, result, ctxDone, given, outcome,
                   reported>>

(* Worker.Test returns.  Once the context is done it gives the mutant back *)
(* as it came, unless one of its early returns is taken.                   *)
FinishTest(w) ==
    /\ Go(w, "test", "send")
    /\ \E v \in IF ctxDone THEN {status[holds[w]]} \cup (EarlyVerdicts \cap Verdicts)
                           ELSE Verdicts :
         /\ result' = [result EXCEPT ![w] = v]
         /\ outcome' = [outcome EXCEPT ![holds[w]] = v]
    /\ UNCHANGED <<pc, slice, channels, holds, ctxDone, given, starts, reported>>

Send(w) ==
    /\ Go(w, "send", "receive")
    /\ Len(results) < Len(order)         \* the channel's capacity
    /\ results' = Append(results, [id |-> Id[holds[w]], status |-> result[w]])
    /\ UNCHANGED <<pc, slice, sent, received, workClosed, resultsClosed, holds,
                   result, ctxDone, history>>

WorkerStep(w) ==
    \/ Receive(w) \/ ReceiveClosed(w) \/ Drop(w)
    \/ StartTest(w) \/ FinishTest(w) \/ Send(w)

-----------------------------------------------------------------------------
(* The closer: wg.Wait(), then close(results).                             *)

Close ==
    /\ pc = "collect" /\ ~resultsClosed
    /\ \A w \in Workers : at[w] \in {"absent", "exited"}
    /\ resultsClosed' = TRUE
    /\ UNCHANGED <<pc, slice, sent, received, workClosed, results, workers,
                   ctxDone, history>>

(* The collector: for result := range results, the write-back and          *)
(* onResult.                                                               *)
Collect ==
    /\ pc = "collect"
    /\ results # << >>
    /\ LET r == Head(results)
       IN  /\ status' = [i \in Mutants |->
                           IF i \in IndicesOf(r.id) THEN r.status ELSE status[i]]
           /\ reported' = [i \in Mutants |->
                             IF Id[i] = r.id THEN reported[i] + 1 ELSE reported[i]]
    /\ results' = Tail(results)
    /\ UNCHANGED <<pc, order, sent, received, workClosed, resultsClosed, workers,
                   ctxDone, given, starts, outcome>>

(* Faulty: the collector leaves an empty channel that is still open.       *)
FaultyReturn ==
    /\ pc = "collect"
    /\ results = << >> /\ workClosed /\ received = sent
    /\ pc' = "returned"
    /\ UNCHANGED <<slice, channels, workers, ctxDone, history>>

Return ==
    /\ pc = "collect"
    /\ results = << >> /\ resultsClosed
    /\ pc' = "returned"
    /\ UNCHANGED <<slice, channels, workers, ctxDone, history>>

-----------------------------------------------------------------------------
(* The interrupt.                                                          *)
Cancel ==
    /\ ~ctxDone
    /\ ctxDone' = TRUE
    /\ UNCHANGED <<pc, slice, channels, workers, history>>

(* Run has returned and its goroutines are gone.                           *)
Quiet == pc = "returned" /\ workClosed /\ \A w \in Workers : at[w] \in {"absent", "exited"}

Stop == Quiet /\ UNCHANGED vars

Main == StartIdle \/ Start \/ FailPending \/ Collect \/ Return

Next ==
    \/ Main \/ Feed \/ Close \/ Cancel \/ Stop
    \/ \E w \in Workers : WorkerStep(w)

(* Every goroutine the code starts is scheduled, and a test ends: a run    *)
(* has its deadline, a build its ten minutes, and both are killed with     *)
(* their process group.  Nothing makes an interrupt happen.                *)
Fairness ==
    /\ WF_vars(Main)
    /\ WF_vars(Feed)
    /\ WF_vars(Close)
    /\ \A w \in Workers : WF_vars(WorkerStep(w))

Spec == Init /\ [][Next]_vars /\ Fairness

-----------------------------------------------------------------------------
(* Properties.                                                             *)

(* No mutant's tests are started twice, whichever workers race for the     *)
(* work channel.                                                           *)
TestedAtMostOnce == \A i \in Mutants : starts[i] <= 1

(* Each element of the slice holds the outcome of its own test from the    *)
(* moment onResult has been told of it, and until then the status Run was  *)
(* given; onResult is told of it once.  (pool.go:145 fears results written *)
(* to the wrong mutant when IDs are not positions.)                        *)
StatusIsOwnOutcome ==
    \A i \in Mutants :
        /\ reported[i] <= 1
        /\ status[i] = IF reported[i] = 1 THEN outcome[i] ELSE given[i]

(* A run that was not cancelled leaves no mutant pending, even when no     *)
(* worker could be started: a pending mutant falls into no bucket of the   *)
(* report and lets the gates pass (pool.go:163).                           *)
CompleteUnlessCancelled ==
    pc = "returned" /\ ~ctxDone => PendingIn(status) = {}

(* Run returns and leaves no goroutine behind, cancelled or not.           *)
EveryGoroutineEnds == <>Quiet

(* Pool implements TestRun.                                                *)
Abstract == INSTANCE TestRun
              WITH running <- pc # "returned", cancelled <- ctxDone
ImplementsTestRun == Abstract!Spec
=============================================================================
