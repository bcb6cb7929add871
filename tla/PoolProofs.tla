----------------------------- MODULE PoolProofs -----------------------------
(***************************************************************************)
(* Proofs about Pool: its type invariant and its three safety invariants,  *)
(* for any number of workers and mutants.                                  *)
(***************************************************************************)
EXTENDS Pool, FiniteSetTheorems, TLAPS

-----------------------------------------------------------------------------
(* The inductive invariant, part by part.                                  *)

Gone(w)  == at[w] \in {"absent", "exited"}
Taken(i) == \E k \in 1..received : order[k] = i

(* The two counters stand for a part of the queue.                         *)
Bounds ==
    /\ received <= sent /\ sent <= Len(order)
    /\ pc = "start" => workClosed /\ sent = 0

(* Before the collector runs there is no goroutine but Run's own, and      *)
(* after it no worker.                                                     *)
Phases ==
    /\ pc \in {"start", "fail"} =>
         /\ sent = 0 /\ received = 0 /\ workClosed /\ ~resultsClosed
         /\ \A w \in Workers : at[w] = "absent"
         /\ results = << >>
         /\ status = given /\ outcome = given
         /\ \A i \in Mutants : starts[i] = 0 /\ reported[i] = 0
    /\ pc = "start" => order = << >>
    /\ pc = "collect" => \E w \in Workers : at[w] # "absent"
    /\ pc # "collect" => \A w \in Workers : Gone(w)
    /\ resultsClosed => \A w \in Workers : Gone(w)

(* The queue holds each pending mutant once.                               *)
Queue ==
    /\ \A k, l \in 1..Len(order) : order[k] = order[l] => k = l
    /\ \A k \in 1..Len(order) : given[order[k]] = Pending
    /\ pc # "start" =>
         \A i \in Mutants : given[i] = Pending => \E k \in 1..Len(order) : order[k] = i

(* A worker's mutant was taken from the queue, is no other worker's, and   *)
(* is neither tested before it is checked nor reported while it is held.   *)
Holding ==
    /\ \A w \in Workers : Busy(w) => Taken(holds[w]) /\ reported[holds[w]] = 0
    /\ \A v, w \in Workers : Busy(v) /\ Busy(w) /\ holds[v] = holds[w] => v = w
    /\ \A w \in Workers : at[w] = "check" => starts[holds[w]] = 0
    /\ \A w \in Workers : at[w] = "send" => result[w] = outcome[holds[w]]

(* A mutant that is still in the queue is untouched.                       *)
Untouched ==
    /\ \A i \in Mutants : starts[i] <= 1
    /\ \A i \in Mutants : ~Taken(i) => starts[i] = 0
    /\ pc = "collect" => \A i \in Mutants : ~Taken(i) => reported[i] = 0

(* A result on its way names a mutant that nobody holds, holds its outcome *)
(* and will be its only one.                                               *)
Posted ==
    /\ \A n \in 1..Len(results) : \E i \in Mutants :
         /\ results[n].id = Id[i] /\ results[n].status = outcome[i]
         /\ Taken(i) /\ reported[i] = 0
         /\ \A w \in Workers : Busy(w) => holds[w] # i
    /\ \A m, n \in 1..Len(results) : results[m].id = results[n].id => m = n

(* Until the cancel, every mutant that was taken is being tested, on its   *)
(* way, or reported, and every outcome is a verdict.                       *)
Accounted ==
    ~ctxDone =>
      /\ pc = "collect" => \A i \in Mutants : Taken(i) =>
           \/ \E w \in Workers : Busy(w) /\ holds[w] = i
           \/ \E n \in 1..Len(results) : results[n].id = Id[i]
           \/ reported[i] = 1
      /\ \A w \in Workers : at[w] = "send" => outcome[holds[w]] # Pending
      /\ \A n \in 1..Len(results) : results[n].status # Pending
      /\ \A i \in Mutants : reported[i] = 1 => outcome[i] # Pending
      /\ pc = "collect" /\ workClosed => sent = Len(order)
      /\ \A w \in Workers : at[w] = "exited" => workClosed /\ received = sent

IInv ==
    /\ TypeOK /\ Bounds /\ Phases /\ Queue /\ Holding /\ Untouched /\ Posted /\ Accounted
    /\ StatusIsOwnOutcome /\ CompleteUnlessCancelled

-----------------------------------------------------------------------------
(* The order Run tests the mutants in.                                     *)

(* A part of the mutants slice is finite, and has a length.                *)
LEMMA PendingFinite ==
    ASSUME NEW S \in SUBSET Mutants
    PROVE  Cardinality(S) \in Nat
  <1>1. IsFiniteSet(Mutants)
    BY FS_Interval, NMutantsAssumption DEF Mutants
  <1>2. IsFiniteSet(S)
    BY <1>1, FS_Subset
  <1> QED BY <1>2, FS_CardinalityType

(* Sorting loses no pending mutant and repeats none.                       *)
LEMMA SortedOrder ==
    ASSUME NEW S \in SUBSET Mutants,
           NEW o \in [1..Cardinality(S) -> S], Orders(S, o)
    PROVE  /\ o \in Seq(Mutants)
           /\ \A k \in 1..Len(o) : o[k] \in S
           /\ \A i \in S : \E k \in 1..Len(o) : o[k] = i
           /\ \A k, l \in 1..Len(o) : o[k] = o[l] => k = l
  <1>1. Cardinality(S) \in Nat
    BY PendingFinite
  <1>2. o \in Seq(S) /\ Len(o) = Cardinality(S) /\ DOMAIN o = 1..Len(o)
    BY <1>1
  <1>3. o \in Seq(Mutants)
    BY <1>2
  <1>4. \A i \in Mutants : ~MutantLess(i, i)
    BY SortKeyAssumption, NMutantsAssumption DEF MutantLess, Mutants
  <1>5. ASSUME NEW k \in 1..Len(o), NEW l \in 1..Len(o), o[k] = o[l], k # l
        PROVE  FALSE
    <2>1. o[k] \in Mutants
      BY <1>2
    <2>2. k < l \/ l < k
      BY <1>1, <1>2, <1>5
    <2>3. MutantLess(o[k], o[l]) \/ MutantLess(o[l], o[k])
      BY <1>2, <2>2 DEF Orders
    <2> QED BY <1>4, <1>5, <2>1, <2>3
  <1> QED BY <1>2, <1>3, <1>5 DEF Orders

-----------------------------------------------------------------------------
(* Type correctness.                                                       *)

(* What Worker.Test may give a mutant is a status.                         *)
LEMMA VerdictsAreStatuses == Verdicts \subseteq Statuses
  BY VerdictsAssumption DEF TestVerdicts, Statuses

(* Pool.Run begins well typed.                                             *)
LEMMA InitTypeOK == Init => TypeOK /\ Bounds
  <1> SUFFICES ASSUME Init PROVE TypeOK /\ Bounds
    OBVIOUS
  <1>1. status \in [Mutants -> Statuses]
    BY GivenAssumption DEF Init
  <1>2. Pending \in Statuses
    BY DEF Statuses
  <1>3. order \in Seq(Mutants) /\ results \in Seq(Results) /\ Len(order) = 0
    BY DEF Init
  <1>4. \A w \in Workers : ~Busy(w)
    BY DEF Init, Busy
  <1>5. /\ holds \in [Workers -> Mutants \cup {NoMutant}]
        /\ at \in [Workers -> {"absent", "receive", "check", "test", "send", "exited"}]
        /\ result \in [Workers -> Statuses]
        /\ starts \in [Mutants -> Nat] /\ reported \in [Mutants -> Nat]
    BY <1>2 DEF Init
  <1>6. pc = "start" /\ sent = 0 /\ received = 0 /\ workClosed = TRUE
        /\ resultsClosed = FALSE /\ ctxDone \in BOOLEAN /\ given = status /\ outcome = status
    BY DEF Init
  <1>7. workClosed \in BOOLEAN /\ resultsClosed \in BOOLEAN /\ workClosed
    BY <1>6
  <1>8. Bounds
    BY <1>3, <1>6, <1>7 DEF Bounds
  <1>9. sent \in Nat /\ received \in Nat
    BY <1>6
  <1> QED BY <1>1, <1>3, <1>4, <1>5, <1>6, <1>7, <1>8, <1>9 DEF TypeOK

(* No step of a goroutine leaves the types or overruns a counter.          *)
LEMMA NextTypeOK == TypeOK /\ Bounds /\ [Next]_vars => TypeOK' /\ Bounds'
  <1> SUFFICES ASSUME TypeOK, Bounds, [Next]_vars PROVE TypeOK' /\ Bounds'
    OBVIOUS
  <1> USE DEF TypeOK, Bounds, Busy
  <1>1. CASE StartIdle
    BY <1>1 DEF StartIdle, slice, channels, workers, history
  <1>2. CASE Start
    <2>1. PendingIn(status) \in SUBSET Mutants
      BY DEF PendingIn
    <2>2. PICK o \in [1..Cardinality(PendingIn(status)) -> PendingIn(status)] :
              Orders(PendingIn(status), o) /\ order' = o
      BY <1>2 DEF Start
    <2>3. order' \in Seq(Mutants)
      BY <2>1, <2>2, SortedOrder
    <2>4. at' \in [Workers -> {"absent", "receive", "check", "test", "send", "exited"}]
          /\ \A w \in Workers : at'[w] \in {"absent", "receive"}
      BY <1>2 DEF Start
    <2>5. pc' \in {"fail", "collect"} /\ workClosed' \in BOOLEAN
      BY <1>2 DEF Start
    <2>6. sent' = 0 /\ received' = 0 /\ Len(order') \in Nat
      BY <1>2, <2>3 DEF Start
    <2> QED BY <1>2, <2>3, <2>4, <2>5, <2>6 DEF Start, history
  <1>3. CASE FailPending
    <2>1. InfraError \in Statuses
      BY DEF Statuses
    <2>2. status' \in [Mutants -> Statuses] /\ outcome' \in [Mutants -> Statuses]
      BY <1>3, <2>1 DEF FailPending
    <2>3. reported' \in [Mutants -> Nat]
      BY <1>3 DEF FailPending
    <2> QED BY <1>3, <2>2, <2>3 DEF FailPending, channels, workers
  <1>4. CASE FeedSend
    <2>1. sent' \in Nat /\ received <= sent' /\ sent' <= Len(order)
      BY <1>4 DEF FeedSend
    <2> QED BY <1>4, <2>1 DEF FeedSend, slice, workers, history
  <1>5. CASE FeedStop
    BY <1>5 DEF FeedStop, slice, workers, history
  <1>6. ASSUME NEW w \in Workers, WorkerStep(w)
        PROVE  TypeOK' /\ Bounds'
    <2>1. CASE Receive(w)
      <3>1. received + 1 \in 1..Len(order) /\ received' \in Nat /\ received' <= sent
        BY <2>1 DEF Receive
      <3>2. order[received + 1] \in Mutants
        BY <3>1
      <3> QED BY <1>6, <2>1, <3>1, <3>2 DEF Receive, Go, slice, history
    <2>2. CASE ReceiveClosed(w) \/ Drop(w)
      BY <1>6, <2>2 DEF ReceiveClosed, Drop, Go, slice, channels, history
    <2>3. CASE StartTest(w)
      BY <1>6, <2>3 DEF StartTest, Go, slice, channels
    <2>4. CASE FinishTest(w)
      BY <1>6, <2>4, VerdictsAreStatuses DEF FinishTest, Go, slice, channels
    <2>5. CASE Send(w)
      <3>1. holds[w] \in Mutants /\ result[w] \in Statuses
        BY <1>6, <2>5 DEF Send, Go
      <3>2. [id |-> Id[holds[w]], status |-> result[w]] \in Results
        BY <3>1, IdAssumption DEF Results
      <3>3. results' \in Seq(Results)
        BY <2>5, <3>2 DEF Send
      <3>4. at' = [at EXCEPT ![w] = "receive"]
        BY <2>5 DEF Send, Go
      <3>5. /\ at' \in [Workers -> {"absent", "receive", "check", "test", "send", "exited"}]
            /\ \A v \in Workers : at'[v] \in {"check", "test", "send"} => holds[v] \in Mutants
        BY <3>4
      <3> QED BY <2>5, <3>3, <3>5 DEF Send, slice, history
    <2> QED BY <1>6, <2>1, <2>2, <2>3, <2>4, <2>5 DEF WorkerStep
  <1>7. CASE Close
    BY <1>7 DEF Close, slice, workers, history
  <1>8. CASE Collect
    <2>1. Head(results) \in Results /\ Tail(results) \in Seq(Results)
      BY <1>8 DEF Collect
    <2>2. Head(results).status \in Statuses
      BY <2>1 DEF Results
    <2> QED BY <1>8, <2>1, <2>2 DEF Collect, workers
  <1>9. CASE Return
    BY <1>9 DEF Return, slice, channels, workers, history
  <1>10. CASE Cancel
    BY <1>10 DEF Cancel, slice, channels, workers, history
  <1>11. CASE UNCHANGED vars
    BY <1>11 DEF vars, slice, channels, workers, history
  <1> QED BY <1>1, <1>2, <1>3, <1>4, <1>5, <1>6, <1>7, <1>8, <1>9, <1>10, <1>11
          DEF Next, Main, Feed, Stop

(* Every variable of Pool stays of its type: a worker only ever holds an   *)
(* index of the slice, in particular.                                      *)
THEOREM PoolTypeOK == Spec => []TypeOK
  <1>1. Spec => [](TypeOK /\ Bounds)
    BY InitTypeOK, NextTypeOK, PTL DEF Spec
  <1> QED BY <1>1, PTL

-----------------------------------------------------------------------------
(* The inductive invariant holds at first.                                 *)

(* Pool.Run begins with nothing taken, held or posted.                     *)
LEMMA InitIInv == Init => IInv
  <1> SUFFICES ASSUME Init PROVE IInv
    OBVIOUS
  <1>1. TypeOK /\ Bounds
    BY InitTypeOK
  <1>2. \A w \in Workers : at[w] = "absent"
    BY DEF Init
  <1>3. \A i \in Mutants : starts[i] = 0 /\ reported[i] = 0
    BY DEF Init
  <1>4. Phases
    BY <1>2, <1>3 DEF Init, Phases, Gone
  <1>5. Len(order) = 0 /\ Len(results) = 0 /\ pc = "start"
    BY DEF Init
  <1>6. Queue /\ Posted
    BY <1>5 DEF Queue, Posted
  <1>7. Holding /\ Untouched
    BY <1>2, <1>3, <1>5 DEF Holding, Untouched, Busy
  <1>8. Accounted
    BY <1>2, <1>3, <1>5 DEF Accounted
  <1>9. StatusIsOwnOutcome
    BY <1>3 DEF Init, StatusIsOwnOutcome
  <1>10. CompleteUnlessCancelled
    BY <1>5 DEF CompleteUnlessCancelled
  <1> QED BY <1>1, <1>4, <1>6, <1>7, <1>8, <1>9, <1>10 DEF IInv

-----------------------------------------------------------------------------
(* Each part is kept.                                                      *)

(* Goroutines exist only while Run collects.                               *)
LEMMA NextPhases == IInv /\ [Next]_vars => Phases'
  <1> SUFFICES ASSUME IInv, [Next]_vars PROVE Phases'
    OBVIOUS
  <1> USE DEF Phases, Gone
  <1>0. TypeOK /\ Bounds /\ Phases
    BY DEF IInv
  <1>1. CASE StartIdle
    BY <1>0, <1>1 DEF StartIdle, slice, channels, workers, history
  <1>2. CASE Start
    <2>1. PICK made \in SUBSET Workers :
            /\ at' = [w \in Workers |-> IF w \in made THEN "receive" ELSE "absent"]
            /\ pc' = IF made = {} THEN "fail" ELSE "collect"
            /\ workClosed' = (made = {})
      BY <1>2 DEF Start
    <2>2. CASE made = {}
      BY <1>0, <1>2, <2>1, <2>2 DEF Start, history
    <2>3. CASE made # {}
      BY <1>0, <1>2, <2>1, <2>3 DEF Start, history
    <2> QED BY <2>2, <2>3
  <1>3. CASE FailPending
    BY <1>0, <1>3 DEF FailPending, channels, workers
  <1>4. CASE Feed
    BY <1>0, <1>4 DEF Feed, FeedSend, FeedStop, slice, workers, history, TypeOK
  <1>5. ASSUME NEW w \in Workers, WorkerStep(w)
        PROVE  Phases'
    <2>1. pc = "collect" /\ ~resultsClosed
      BY <1>0, <1>5 DEF WorkerStep, Receive, ReceiveClosed, Drop, StartTest, FinishTest, Send, Go
    <2>2. pc' = pc /\ resultsClosed' = resultsClosed
      BY <1>5 DEF WorkerStep, Receive, ReceiveClosed, Drop, StartTest, FinishTest, Send, channels
    <2>3. at'[w] # "absent"
      BY <1>0, <1>5 DEF WorkerStep, Receive, ReceiveClosed, Drop, StartTest, FinishTest, Send, Go, TypeOK
    <2> QED BY <2>1, <2>2, <2>3
  <1>6. CASE Close
    BY <1>0, <1>6 DEF Close, slice, workers, history
  <1>7. CASE Collect
    BY <1>0, <1>7 DEF Collect, workers
  <1>8. CASE Return
    BY <1>0, <1>8 DEF Return, slice, channels, workers, history
  <1>9. CASE Cancel
    BY <1>0, <1>9 DEF Cancel, slice, channels, workers, history
  <1>10. CASE UNCHANGED vars
    BY <1>0, <1>10 DEF vars, slice, channels, workers, history
  <1> QED BY <1>1, <1>2, <1>3, <1>4, <1>5, <1>6, <1>7, <1>8, <1>9, <1>10
          DEF Next, Main, Stop

(* The queue is made once, by the sort.                                    *)
LEMMA NextQueue == IInv /\ [Next]_vars => Queue'
  <1> SUFFICES ASSUME IInv, [Next]_vars PROVE Queue'
    OBVIOUS
  <1> USE DEF Queue
  <1>0. TypeOK /\ Phases /\ Queue
    BY DEF IInv
  <1>1. CASE StartIdle
    <2>1. status = given /\ order = << >>
      BY <1>0, <1>1 DEF StartIdle, Phases
    <2> QED BY <1>0, <1>1, <2>1 DEF StartIdle, PendingIn, slice, history
  <1>2. CASE Start
    <2>1. PendingIn(status) \in SUBSET Mutants
      BY DEF PendingIn
    <2>2. PICK o \in [1..Cardinality(PendingIn(status)) -> PendingIn(status)] :
              Orders(PendingIn(status), o) /\ order' = o
      BY <1>2 DEF Start
    <2>3. given' = given /\ status = given
      BY <1>0, <1>2 DEF Start, Phases, history
    <2>4. /\ \A k \in 1..Len(order') : order'[k] \in PendingIn(status)
          /\ \A i \in PendingIn(status) : \E k \in 1..Len(order') : order'[k] = i
          /\ \A k, l \in 1..Len(order') : order'[k] = order'[l] => k = l
      <3>1. /\ \A k \in 1..Len(o) : o[k] \in PendingIn(status)
            /\ \A i \in PendingIn(status) : \E k \in 1..Len(o) : o[k] = i
            /\ \A k, l \in 1..Len(o) : o[k] = o[l] => k = l
        BY <2>1, <2>2, SortedOrder
      <3> QED BY <2>2, <3>1
    <2>5. \A i : i \in PendingIn(status) <=> i \in Mutants /\ given'[i] = Pending
      BY <2>3 DEF PendingIn
    <2> QED BY <2>4, <2>5
  <1>3. CASE FailPending
    BY <1>0, <1>3 DEF FailPending
  <1>4. CASE Feed
    BY <1>0, <1>4 DEF Feed, FeedSend, FeedStop, slice, history
  <1>5. ASSUME NEW w \in Workers, WorkerStep(w)
        PROVE  Queue'
    BY <1>0, <1>5 DEF WorkerStep, Receive, ReceiveClosed, Drop, StartTest, FinishTest, Send,
                      slice, history
  <1>6. CASE Close
    BY <1>0, <1>6 DEF Close, slice, history
  <1>7. CASE Collect
    BY <1>0, <1>7 DEF Collect
  <1>8. CASE Return
    BY <1>0, <1>8 DEF Return, slice, history
  <1>9. CASE Cancel
    BY <1>0, <1>9 DEF Cancel, slice, history
  <1>10. CASE UNCHANGED vars
    BY <1>0, <1>10 DEF vars, slice, history
  <1> QED BY <1>1, <1>2, <1>3, <1>4, <1>5, <1>6, <1>7, <1>8, <1>9, <1>10
          DEF Next, Main, Stop

-----------------------------------------------------------------------------
(* What the steps that matter do, in the terms of the invariant.           *)

(* A worker receives the first mutant that is not taken.                   *)
LEMMA ReceiveStep ==
    ASSUME IInv, NEW u \in Workers, Receive(u)
    PROVE  /\ at' = [at EXCEPT ![u] = "check"] /\ at[u] = "receive" /\ pc = "collect"
           /\ holds'[u] \in Mutants /\ ~Taken(holds'[u])
           /\ \A w \in Workers \ {u} : at'[w] = at[w] /\ holds'[w] = holds[w]
           /\ at'[u] = "check"
           /\ \A i : Taken(i)' <=> Taken(i) \/ i = holds'[u]
           /\ UNCHANGED <<pc, status, results, result, ctxDone, starts, outcome, reported,
                          given, sent, workClosed, order>>
  <1>0. TypeOK /\ Bounds /\ Phases /\ Queue
    BY DEF IInv
  <1>1. /\ received \in Nat /\ received + 1 \in 1..Len(order)
        /\ received' = received + 1 /\ order' = order
    BY <1>0 DEF Receive, TypeOK, Bounds, slice
  <1>2. holds'[u] = order[received + 1] /\ order[received + 1] \in Mutants
    BY <1>0, <1>1 DEF Receive, TypeOK
  <1>3. ~Taken(order[received + 1])
    BY <1>0, <1>1 DEF Queue, Taken
  <1>4. \A k : k \in 1..received' <=> k \in 1..received \/ k = received + 1
    BY <1>1
  <1>5. \A i : Taken(i)' <=> Taken(i) \/ i = order[received + 1]
    BY <1>1, <1>4 DEF Taken
  <1>6. at' = [at EXCEPT ![u] = "check"] /\ at[u] = "receive"
    BY DEF Receive, Go
  <1>7. pc = "collect"
    BY <1>0, <1>6 DEF Phases, Gone
  <1>8. at'[u] = "check" /\ \A w \in Workers \ {u} : at'[w] = at[w] /\ holds'[w] = holds[w]
    BY <1>0, <1>6 DEF Receive, TypeOK
  <1>9. UNCHANGED <<pc, status, results, result, ctxDone, starts, outcome, reported, given,
                    sent, workClosed, order>>
    BY DEF Receive, slice, history
  <1>10. holds'[u] \in Mutants /\ ~Taken(holds'[u]) /\ \A i : Taken(i)' <=> Taken(i) \/ i = holds'[u]
    <2> HIDE DEF Taken
    <2> QED BY <1>2, <1>3, <1>5
  <1> QED BY <1>6, <1>7, <1>8, <1>9, <1>10

(* The collector writes to the one mutant its result is of.                *)
LEMMA CollectStep ==
    ASSUME IInv, Collect
    PROVE  \E i \in Mutants :
             /\ results[1].id = Id[i] /\ results[1].status = outcome[i] /\ 1 \in 1..Len(results)
             /\ Taken(i) /\ reported[i] = 0
             /\ \A w \in Workers : Busy(w) => holds[w] # i
             /\ status' = [status EXCEPT ![i] = outcome[i]]
             /\ reported' = [reported EXCEPT ![i] = 1]
             /\ \A n \in 1..Len(results') :
                  /\ n + 1 \in 1..Len(results)
                  /\ results'[n] = results[n + 1]
                  /\ results[n + 1].id # Id[i]
             /\ \A m \in 1..Len(results) : m # 1 => m - 1 \in 1..Len(results')
  <1>0. TypeOK /\ Posted
    BY DEF IInv
  <1>1. results \in Seq(Results) /\ results # << >> /\ results' = Tail(results)
    BY <1>0 DEF Collect, TypeOK
  <1>2. 1 \in 1..Len(results) /\ Head(results) = results[1]
    BY <1>1
  <1>3. PICK i \in Mutants :
          /\ results[1].id = Id[i] /\ results[1].status = outcome[i]
          /\ Taken(i) /\ reported[i] = 0
          /\ \A w \in Workers : Busy(w) => holds[w] # i
    BY <1>0, <1>2 DEF Posted
  <1>4. \A j \in Mutants : Id[j] = results[1].id <=> j = i
    BY <1>3, IdAssumption
  <1>5. status' = [status EXCEPT ![i] = outcome[i]]
    BY <1>0, <1>2, <1>3, <1>4 DEF Collect, IndicesOf, TypeOK
  <1>6. reported' = [reported EXCEPT ![i] = 1]
    <2>1. reported' = [j \in Mutants |-> IF Id[j] = results[1].id THEN reported[j] + 1
                                                                  ELSE reported[j]]
      BY <1>2 DEF Collect
    <2>2. reported' = [j \in Mutants |-> IF j = i THEN 1 ELSE reported[j]]
      BY <1>3, <1>4, <2>1
    <2>3. reported \in [Mutants -> Nat]
      BY <1>0 DEF TypeOK
    <2> QED BY <2>2, <2>3
  <1>7. \A n \in 1..Len(results') :
          n + 1 \in 1..Len(results) /\ n + 1 # 1 /\ results'[n] = results[n + 1]
    BY <1>1
  <1>8. \A n \in 1..Len(results') : results[n + 1].id # Id[i]
    BY <1>0, <1>2, <1>3, <1>7 DEF Posted
  <1>9. \A m \in 1..Len(results) : m # 1 => m - 1 \in 1..Len(results')
    BY <1>1
  <1> QED BY <1>2, <1>3, <1>5, <1>6, <1>7, <1>8, <1>9

(* A worker takes what no other worker holds.                              *)
LEMMA NextHolding == IInv /\ [Next]_vars => Holding'
  <1> SUFFICES ASSUME IInv, [Next]_vars PROVE Holding'
    OBVIOUS
  <1> USE DEF Holding, Taken, Busy
  <1>0. TypeOK /\ Bounds /\ Phases /\ Queue /\ Holding /\ Untouched /\ Posted
    BY DEF IInv
  <1>1. CASE StartIdle \/ Return \/ Cancel \/ Feed \/ Close \/ UNCHANGED vars
    <2>1. UNCHANGED <<order, received, at, holds, result, starts, outcome, reported>>
      BY <1>1 DEF StartIdle, Return, Cancel, Feed, FeedSend, FeedStop, Close,
                  vars, slice, channels, workers, history
    <2> QED BY <1>0, <2>1
  <1>2. CASE Start
    <2>1. \A w \in Workers : at'[w] \in {"absent", "receive"}
      BY <1>2 DEF Start
    <2> QED BY <2>1
  <1>3. CASE FailPending
    <2>1. \A w \in Workers : at'[w] = "absent"
      BY <1>0, <1>3 DEF FailPending, workers, Phases
    <2> QED BY <2>1
  <1>4. ASSUME NEW u \in Workers, Receive(u)
        PROVE  Holding'
    <2>1. /\ holds'[u] \in Mutants /\ ~Taken(holds'[u]) /\ at'[u] = "check" /\ pc = "collect"
          /\ \A w \in Workers \ {u} : at'[w] = at[w] /\ holds'[w] = holds[w]
          /\ \A i : Taken(i)' <=> Taken(i) \/ i = holds'[u]
          /\ UNCHANGED <<starts, outcome, reported, result>>
      BY <1>4, ReceiveStep
    <2> HIDE DEF Taken
    <2>2. starts[holds'[u]] = 0 /\ reported[holds'[u]] = 0
      BY <1>0, <2>1 DEF Untouched
    <2>3. \A w \in Workers : Busy(w)' => Taken(holds'[w]) \/ w = u
      BY <1>0, <2>1
    <2>4. \A w \in Workers : Busy(w)' => (\E k \in 1..received' : order'[k] = holds'[w])
      BY <2>1, <2>3 DEF Taken
    <2>5. \A w \in Workers : Busy(w)' => reported'[holds'[w]] = 0
      BY <1>0, <2>1, <2>2
    <2>6. \A v, w \in Workers : Busy(v)' /\ Busy(w)' /\ holds'[v] = holds'[w] => v = w
      BY <1>0, <2>1
    <2>7. \A w \in Workers : at'[w] = "check" => starts'[holds'[w]] = 0
      BY <1>0, <2>1, <2>2
    <2>8. \A w \in Workers : at'[w] = "send" => result'[w] = outcome'[holds'[w]]
      BY <1>0, <2>1
    <2> QED BY <2>4, <2>5, <2>6, <2>7, <2>8 DEF Taken
  <1>5. ASSUME NEW u \in Workers, ReceiveClosed(u) \/ Drop(u)
        PROVE  Holding'
    <2>1. \A w \in Workers \ {u} : at'[w] = at[w]
      BY <1>0, <1>5 DEF ReceiveClosed, Drop, Go, TypeOK
    <2>2. at'[u] = "exited"
      BY <1>0, <1>5 DEF ReceiveClosed, Drop, Go, TypeOK
    <2>3. UNCHANGED <<order, received, holds, result, starts, outcome, reported>>
      BY <1>5 DEF ReceiveClosed, Drop, slice, channels, history
    <2> QED BY <1>0, <2>1, <2>2, <2>3
  <1>6. ASSUME NEW u \in Workers, StartTest(u)
        PROVE  Holding'
    <2>1. \A w \in Workers \ {u} : at'[w] = at[w]
      BY <1>0, <1>6 DEF StartTest, Go, TypeOK
    <2>2. at[u] = "check" /\ at'[u] = "test"
      BY <1>0, <1>6 DEF StartTest, Go, TypeOK
    <2>3. UNCHANGED <<order, received, holds, result, outcome, reported>>
      BY <1>6 DEF StartTest, slice, channels
    <2>4. \A i \in Mutants \ {holds[u]} : starts'[i] = starts[i]
      BY <1>0, <1>6 DEF StartTest, TypeOK
    <2>5. \A w \in Workers \ {u} : Busy(w) => holds[w] # holds[u] /\ holds[w] \in Mutants
      BY <1>0, <2>2 DEF TypeOK
    <2>6. \A w \in Workers : at'[w] = "check" => starts'[holds'[w]] = 0
      BY <1>0, <2>1, <2>2, <2>3, <2>4, <2>5
    <2>7. \A w \in Workers : Busy(w)' => Busy(w)
      BY <2>1, <2>2
    <2>8. \A w \in Workers : at'[w] = "send" => at[w] = "send"
      BY <2>1, <2>2
    <2> QED BY <1>0, <2>3, <2>6, <2>7, <2>8
  <1>7. ASSUME NEW u \in Workers, FinishTest(u)
        PROVE  Holding'
    <2>1. \A w \in Workers \ {u} : at'[w] = at[w] /\ result'[w] = result[w]
      BY <1>0, <1>7 DEF FinishTest, Go, TypeOK
    <2>2. at[u] = "test" /\ at'[u] = "send"
      BY <1>0, <1>7 DEF FinishTest, Go, TypeOK
    <2>3. UNCHANGED <<order, received, holds, starts, reported>>
      BY <1>7 DEF FinishTest, slice, channels
    <2>4. \A w \in Workers \ {u} : Busy(w) => holds[w] # holds[u] /\ holds[w] \in Mutants
      BY <1>0, <2>2 DEF TypeOK
    <2>5. result'[u] = outcome'[holds[u]] /\ \A i \in Mutants \ {holds[u]} : outcome'[i] = outcome[i]
      BY <1>0, <1>7, <2>2 DEF FinishTest, TypeOK
    <2>6. \A w \in Workers : at'[w] = "send" => result'[w] = outcome'[holds'[w]]
      BY <1>0, <2>1, <2>2, <2>3, <2>4, <2>5
    <2>7. \A w \in Workers : (Busy(w)' => Busy(w)) /\ (at'[w] = "check" => at[w] = "check")
      BY <2>1, <2>2
    <2> QED BY <1>0, <2>3, <2>6, <2>7
  <1>8. ASSUME NEW u \in Workers, Send(u)
        PROVE  Holding'
    <2>1. \A w \in Workers \ {u} : at'[w] = at[w]
      BY <1>0, <1>8 DEF Send, Go, TypeOK
    <2>2. at'[u] = "receive"
      BY <1>0, <1>8 DEF Send, Go, TypeOK
    <2>3. UNCHANGED <<order, received, holds, result, starts, outcome, reported>>
      BY <1>8 DEF Send, slice, history
    <2> QED BY <1>0, <2>1, <2>2, <2>3
  <1>9. CASE Collect
    <2>1. PICK i \in Mutants : /\ \A w \in Workers : Busy(w) => holds[w] # i
                               /\ reported' = [reported EXCEPT ![i] = 1]
      BY <1>9, CollectStep
    <2>2. UNCHANGED <<order, received, at, holds, result, starts, outcome>>
      BY <1>9 DEF Collect, workers
    <2> QED BY <1>0, <2>1, <2>2 DEF TypeOK
  <1> QED BY <1>1, <1>2, <1>3, <1>4, <1>5, <1>6, <1>7, <1>8, <1>9
          DEF Next, Main, WorkerStep, Stop

(* Only the worker that received an index starts its tests.                *)
LEMMA NextUntouched == IInv /\ [Next]_vars => Untouched'
  <1> SUFFICES ASSUME IInv, [Next]_vars PROVE Untouched'
    OBVIOUS
  <1>0. TypeOK /\ Phases /\ Holding /\ Untouched
    BY DEF IInv
  <1>1. CASE StartIdle \/ Return \/ Cancel \/ Feed \/ Close \/ UNCHANGED vars
    <2>1. UNCHANGED <<order, received, starts, reported>> /\ (pc' = "collect" => pc = "collect")
      BY <1>1 DEF StartIdle, Return, Cancel, Feed, FeedSend, FeedStop, Close,
                  vars, slice, channels, workers, history
    <2> QED BY <1>0, <2>1 DEF Untouched, Taken
  <1>2. CASE Start
    BY <1>0, <1>2 DEF Start, Phases, history, Untouched
  <1>3. CASE FailPending
    BY <1>0, <1>3 DEF FailPending, Phases, Untouched
  <1>4. ASSUME NEW u \in Workers, Receive(u)
        PROVE  Untouched'
    <2>1. /\ \A i : Taken(i)' <=> Taken(i) \/ i = holds'[u]
          /\ UNCHANGED <<pc, starts, reported>>
      BY <1>4, ReceiveStep
    <2> HIDE DEF Taken
    <2> QED BY <1>0, <2>1 DEF Untouched
  <1>5. ASSUME NEW u \in Workers, ReceiveClosed(u) \/ Drop(u) \/ FinishTest(u) \/ Send(u)
        PROVE  Untouched'
    <2>1. UNCHANGED <<pc, order, received, starts, reported>>
      BY <1>5 DEF ReceiveClosed, Drop, FinishTest, Send, slice, channels, history
    <2> QED BY <1>0, <2>1 DEF Untouched, Taken
  <1>6. ASSUME NEW u \in Workers, StartTest(u)
        PROVE  Untouched'
    <2>1. at[u] = "check" /\ UNCHANGED <<pc, order, received, reported>>
      BY <1>6 DEF StartTest, Go, slice, channels
    <2>2. holds[u] \in Mutants /\ Taken(holds[u]) /\ starts[holds[u]] = 0
      BY <1>0, <2>1 DEF TypeOK, Holding, Busy
    <2>3. starts' = [starts EXCEPT ![holds[u]] = starts[holds[u]] + 1]
      BY <1>6 DEF StartTest
    <2>4. \A i \in Mutants : starts'[i] = IF i = holds[u] THEN 1 ELSE starts[i]
      BY <1>0, <2>2, <2>3 DEF TypeOK
    <2>5. \A i : Taken(i)' <=> Taken(i)
      BY <2>1 DEF Taken
    <2> QED BY <1>0, <2>1, <2>2, <2>4, <2>5 DEF Untouched
  <1>7. CASE Collect
    <2>1. PICK i \in Mutants : Taken(i) /\ reported' = [reported EXCEPT ![i] = 1]
      BY <1>7, CollectStep
    <2>2. UNCHANGED <<pc, order, received, starts>>
      BY <1>7 DEF Collect
    <2>3. \A j : Taken(j)' <=> Taken(j)
      BY <2>2 DEF Taken
    <2>4. \A j \in Mutants : j # i => reported'[j] = reported[j]
      BY <1>0, <2>1 DEF TypeOK
    <2> QED BY <1>0, <2>1, <2>2, <2>3, <2>4 DEF Untouched
  <1> QED BY <1>1, <1>2, <1>3, <1>4, <1>5, <1>6, <1>7 DEF Next, Main, WorkerStep, Stop

(* A result is posted by the worker that gives its index up.               *)
LEMMA NextPosted == IInv /\ [Next]_vars => Posted'
  <1> SUFFICES ASSUME IInv, [Next]_vars PROVE Posted'
    OBVIOUS
  <1> USE DEF Posted, Busy
  <1>0. TypeOK /\ Phases /\ Holding /\ Posted
    BY DEF IInv
  <1>1. CASE StartIdle \/ Return \/ Cancel \/ Feed \/ Close \/ UNCHANGED vars
    <2>1. UNCHANGED <<order, received, at, holds, results, outcome, reported>>
      BY <1>1 DEF StartIdle, Return, Cancel, Feed, FeedSend, FeedStop, Close,
                  vars, slice, channels, workers, history
    <2> QED BY <1>0, <2>1 DEF Taken
  <1>2. CASE Start \/ FailPending
    <2>1. results' = << >>
      BY <1>0, <1>2 DEF Start, FailPending, Phases, channels
    <2> QED BY <2>1
  <1>3. ASSUME NEW u \in Workers, Receive(u)
        PROVE  Posted'
    <2>1. /\ holds'[u] \in Mutants /\ ~Taken(holds'[u])
          /\ \A w \in Workers \ {u} : at'[w] = at[w] /\ holds'[w] = holds[w]
          /\ \A i : Taken(i)' <=> Taken(i) \/ i = holds'[u]
          /\ UNCHANGED <<results, outcome, reported>>
      BY <1>3, ReceiveStep
    <2> HIDE DEF Taken
    <2> QED BY <1>0, <2>1
  <1>4. ASSUME NEW u \in Workers, ReceiveClosed(u) \/ Drop(u) \/ StartTest(u)
        PROVE  Posted'
    <2>1. UNCHANGED <<order, received, holds, results, outcome, reported>>
      BY <1>4 DEF ReceiveClosed, Drop, StartTest, slice, channels, history
    <2>2. \A w \in Workers : Busy(w)' => Busy(w)
      BY <1>0, <1>4 DEF ReceiveClosed, Drop, StartTest, Go, TypeOK
    <2> HIDE DEF Busy
    <2> QED BY <1>0, <2>1, <2>2 DEF Taken
  <1>5. ASSUME NEW u \in Workers, FinishTest(u)
        PROVE  Posted'
    <2>1. UNCHANGED <<order, received, holds, results, reported>> /\ Busy(u)
      BY <1>5 DEF FinishTest, Go, slice, channels
    <2>2. \A w \in Workers : Busy(w)' => Busy(w)
      BY <1>0, <1>5 DEF FinishTest, Go, TypeOK
    <2>3. \A i \in Mutants \ {holds[u]} : outcome'[i] = outcome[i]
      BY <1>0, <1>5 DEF FinishTest, TypeOK
    <2> HIDE DEF Busy
    <2> QED BY <1>0, <2>1, <2>2, <2>3 DEF Taken
  <1>6. ASSUME NEW u \in Workers, Send(u)
        PROVE  Posted'
    <2> DEFINE r == [id |-> Id[holds[u]], status |-> result[u]]
    <2>1. UNCHANGED <<order, received, holds, outcome, reported>> /\ at[u] = "send"
      BY <1>6 DEF Send, Go, slice, history
    <2>2. results' = Append(results, r) /\ results \in Seq(Results)
      BY <1>0, <1>6 DEF Send, TypeOK
    <2>3. /\ \A n \in 1..Len(results') : n \in 1..Len(results) \/ n = Len(results')
          /\ \A n \in 1..Len(results) : results'[n] = results[n]
          /\ results'[Len(results')] = r
      BY <2>2
    <2>4. /\ holds[u] \in Mutants /\ Taken(holds[u]) /\ reported[holds[u]] = 0
          /\ result[u] = outcome[holds[u]]
      BY <1>0, <2>1 DEF TypeOK, Holding
    <2>5. r.id = Id[holds[u]] /\ r.status = outcome[holds[u]]
      BY <2>4
    <2> HIDE DEF r
    <2>6. \A w \in Workers : Busy(w)' => Busy(w) /\ w # u
      BY <1>0, <1>6 DEF Send, Go, TypeOK
    <2>7. \A w \in Workers : Busy(w)' => holds'[w] # holds[u]
      BY <1>0, <2>1, <2>6 DEF Holding
    <2>8. \A n \in 1..Len(results) : results[n].id # r.id
      <3>1. SUFFICES ASSUME NEW n \in 1..Len(results), results[n].id = r.id
                     PROVE  FALSE
        OBVIOUS
      <3>2. PICK i \in Mutants :
              results[n].id = Id[i] /\ \A w \in Workers : Busy(w) => holds[w] # i
        BY <1>0
      <3>3. i = holds[u]
        BY <2>4, <2>5, <3>1, <3>2, IdAssumption
      <3> QED BY <2>1, <3>2, <3>3
    <2> HIDE DEF Busy
    <2>9. \A i : Taken(i)' <=> Taken(i)
      BY <2>1 DEF Taken
    <2>10. \A n \in 1..Len(results') : \E i \in Mutants :
             /\ results'[n].id = Id[i] /\ results'[n].status = outcome'[i]
             /\ Taken(i) /\ reported'[i] = 0
             /\ \A w \in Workers : Busy(w)' => holds'[w] # i
      <3>1. SUFFICES ASSUME NEW n \in 1..Len(results')
                     PROVE  \E i \in Mutants :
                              /\ results'[n].id = Id[i] /\ results'[n].status = outcome'[i]
                              /\ Taken(i) /\ reported'[i] = 0
                              /\ \A w \in Workers : Busy(w)' => holds'[w] # i
        OBVIOUS
      <3>2. CASE n \in 1..Len(results)
        BY <1>0, <2>1, <2>3, <2>6, <3>2
      <3>3. CASE n = Len(results')
        BY <2>1, <2>3, <2>4, <2>5, <2>7, <3>3
      <3> QED BY <2>3, <3>2, <3>3
    <2>11. \A m, n \in 1..Len(results') : results'[m].id = results'[n].id => m = n
      BY <1>0, <2>3, <2>8
    <2> QED BY <2>9, <2>10, <2>11
  <1>7. CASE Collect
    <2>1. PICK i \in Mutants :
            /\ reported' = [reported EXCEPT ![i] = 1]
            /\ \A n \in 1..Len(results') :
                 /\ n + 1 \in 1..Len(results)
                 /\ results'[n] = results[n + 1]
                 /\ results[n + 1].id # Id[i]
      BY <1>7, CollectStep
    <2>2. UNCHANGED <<order, received, at, holds, outcome>>
      BY <1>7 DEF Collect, workers
    <2>3. \A j : (Taken(j)' <=> Taken(j)) /\ \A w \in Workers : Busy(w)' <=> Busy(w)
      BY <2>2 DEF Taken
    <2> HIDE DEF Busy, Taken
    <2>4. \A j \in Mutants : j # i => reported'[j] = reported[j]
      BY <1>0, <2>1 DEF TypeOK
    <2>5. \A n \in 1..Len(results') : \E j \in Mutants :
            /\ results'[n].id = Id[j] /\ results'[n].status = outcome'[j]
            /\ Taken(j)' /\ reported'[j] = 0
            /\ \A w \in Workers : Busy(w)' => holds'[w] # j
      BY <1>0, <2>1, <2>2, <2>3, <2>4
    <2>6. \A m, n \in 1..Len(results') : m + 1 = n + 1 => m = n
      OBVIOUS
    <2>7. \A m, n \in 1..Len(results') : results'[m].id = results'[n].id => m = n
      BY <1>0, <2>1, <2>6
    <2> QED BY <2>5, <2>7
  <1> QED BY <1>1, <1>2, <1>3, <1>4, <1>5, <1>6, <1>7 DEF Next, Main, WorkerStep, Stop

(* A verdict is never PENDING.                                             *)
LEMMA VerdictsAreNotPending == Pending \notin Verdicts /\ InfraError # Pending
  BY VerdictsAssumption DEF TestVerdicts, Pending, InfraError, Killed, Lived, NotViable, TimedOut

(* Without a cancel no index is lost on the way.                           *)
LEMMA NextAccounted == IInv /\ [Next]_vars => Accounted'
  <1> SUFFICES ASSUME IInv, [Next]_vars, ~ctxDone' PROVE Accounted'
    BY DEF Accounted
  <1> USE DEF Accounted, Busy
  <1>0. TypeOK /\ Bounds /\ Phases /\ Holding /\ Accounted
    BY DEF IInv
  <1>1. CASE StartIdle \/ Return \/ Close \/ UNCHANGED vars
    <2>1. /\ UNCHANGED <<order, received, sent, workClosed, at, holds, results, outcome, reported,
                         ctxDone>>
          /\ pc' = "collect" => pc = "collect"
      BY <1>1 DEF StartIdle, Return, Close, vars, slice, channels, workers, history
    <2> QED BY <1>0, <2>1 DEF Taken
  <1>2. CASE Cancel
    BY <1>2 DEF Cancel
  <1>3. CASE FeedSend
    <2>1. /\ UNCHANGED <<pc, order, received, workClosed, at, holds, results, outcome, reported,
                         ctxDone>>
          /\ ~workClosed
      BY <1>3 DEF FeedSend, slice, workers, history
    <2> QED BY <1>0, <2>1 DEF Taken
  <1>4. CASE FeedStop
    <2>1. /\ UNCHANGED <<pc, order, received, sent, at, holds, results, outcome, reported, ctxDone>>
          /\ ~workClosed /\ workClosed' = TRUE
      BY <1>4 DEF FeedStop, slice, workers, history
    <2>2. sent = Len(order)
      BY <2>1, <1>4 DEF FeedStop
    <2> QED BY <1>0, <2>1, <2>2 DEF Taken
  <1>5. CASE Start
    <2>1. /\ \A w \in Workers : at'[w] \in {"absent", "receive"}
          /\ pc' = "collect" => ~workClosed'
      BY <1>5 DEF Start
    <2>2. results' = << >> /\ received' = 0 /\ \A i \in Mutants : reported'[i] = 0
      BY <1>0, <1>5 DEF Start, Phases, history
    <2>3. \A i : ~Taken(i)'
      BY <2>2 DEF Taken
    <2> HIDE DEF Taken
    <2> QED BY <2>1, <2>2, <2>3
  <1>6. CASE FailPending
    <2>1. \A w \in Workers : at'[w] = "absent"
      BY <1>0, <1>6 DEF FailPending, Phases, workers
    <2>2. pc' = "returned" /\ results' = << >>
      BY <1>0, <1>6 DEF FailPending, Phases, channels
    <2>3. \A i \in Mutants :
            IF status[i] = Pending THEN outcome'[i] = InfraError ELSE reported'[i] = reported[i]
      BY <1>6 DEF FailPending
    <2>4. \A i \in Mutants : reported[i] = 0
      BY <1>0, <1>6 DEF FailPending, Phases
    <2>5. \A i \in Mutants : reported'[i] = 1 => outcome'[i] # Pending
      BY <2>3, <2>4, VerdictsAreNotPending
    <2> QED BY <2>1, <2>2, <2>5
  <1>7. ASSUME NEW u \in Workers, Receive(u)
        PROVE  Accounted'
    <2>1. /\ at[u] = "receive" /\ at'[u] = "check"
          /\ \A w \in Workers \ {u} : at'[w] = at[w] /\ holds'[w] = holds[w]
          /\ \A i : Taken(i)' <=> Taken(i) \/ i = holds'[u]
          /\ UNCHANGED <<pc, results, outcome, reported, sent, workClosed, order, ctxDone>>
      BY <1>7, ReceiveStep
    <2>2. received < sent
      BY <1>7 DEF Receive
    <2> HIDE DEF Taken
    <2>3. \A w \in Workers : at[w] # "exited"
      BY <1>0, <2>1, <2>2 DEF TypeOK
    <2>4. \A w \in Workers : (Busy(w) => w # u) /\ at'[w] # "exited"
      BY <2>1, <2>3
    <2>5. pc = "collect" => \A i \in Mutants : Taken(i)' =>
            \/ \E w \in Workers : Busy(w)' /\ holds'[w] = i
            \/ \E n \in 1..Len(results') : results'[n].id = Id[i]
            \/ reported'[i] = 1
      BY <1>0, <2>1, <2>4
    <2> QED BY <1>0, <2>1, <2>4, <2>5
  <1>8. ASSUME NEW u \in Workers, ReceiveClosed(u)
        PROVE  Accounted'
    <2>1. /\ UNCHANGED <<pc, order, received, sent, workClosed, holds, results, outcome, reported,
                         ctxDone>>
          /\ workClosed /\ received = sent
      BY <1>8 DEF ReceiveClosed, slice, channels, history
    <2>2. /\ at[u] = "receive" /\ at'[u] = "exited"
          /\ \A w \in Workers \ {u} : at'[w] = at[w]
      BY <1>0, <1>8 DEF ReceiveClosed, Go, TypeOK
    <2>3. \A w \in Workers : Busy(w)' <=> Busy(w)
      BY <2>2
    <2>4. \A i : Taken(i)' <=> Taken(i)
      BY <2>1 DEF Taken
    <2>5. \A w \in Workers : at'[w] = "send" => at[w] = "send"
      BY <2>2
    <2> HIDE DEF Busy, Taken
    <2> QED BY <1>0, <2>1, <2>3, <2>4, <2>5
  <1>9. ASSUME NEW u \in Workers, Drop(u)
        PROVE  Accounted'
    BY <1>9 DEF Drop
  <1>10. ASSUME NEW u \in Workers, StartTest(u)
        PROVE  Accounted'
    <2>1. UNCHANGED <<pc, order, received, sent, workClosed, holds, results, outcome, reported, ctxDone>>
      BY <1>10 DEF StartTest, slice, channels
    <2>2. /\ at[u] = "check" /\ at'[u] = "test"
          /\ \A w \in Workers \ {u} : at'[w] = at[w]
      BY <1>0, <1>10 DEF StartTest, Go, TypeOK
    <2>3. \A w \in Workers : Busy(w)' <=> Busy(w)
      BY <2>2
    <2>4. \A i : Taken(i)' <=> Taken(i)
      BY <2>1 DEF Taken
    <2>5. \A w \in Workers : at'[w] \in {"send", "exited"} => at'[w] = at[w]
      BY <2>2
    <2> HIDE DEF Busy, Taken
    <2> QED BY <1>0, <2>1, <2>3, <2>4, <2>5
  <1>11. ASSUME NEW u \in Workers, FinishTest(u)
        PROVE  Accounted'
    <2>1. UNCHANGED <<pc, order, received, sent, workClosed, holds, results, reported, ctxDone>>
      BY <1>11 DEF FinishTest, slice, channels
    <2>2. /\ at[u] = "test" /\ at'[u] = "send"
          /\ \A w \in Workers \ {u} : at'[w] = at[w]
      BY <1>0, <1>11 DEF FinishTest, Go, TypeOK
    <2>3. \A w \in Workers : Busy(w)' <=> Busy(w)
      BY <2>2
    <2>4. \A i : Taken(i)' <=> Taken(i)
      BY <2>1 DEF Taken
    <2>5. holds[u] \in Mutants
      BY <1>0, <2>2 DEF TypeOK
    <2>6. PICK v \in Verdicts : outcome' = [outcome EXCEPT ![holds[u]] = v]
      <3>1. ~ctxDone
        BY <2>1
      <3>2. PICK v \in IF ctxDone THEN {status[holds[u]]} \cup (EarlyVerdicts \cap Verdicts)
                                  ELSE Verdicts :
              outcome' = [outcome EXCEPT ![holds[u]] = v]
        BY <1>11, Zenon DEF FinishTest
      <3> QED BY <3>1, <3>2, Zenon
    <2>7. \A i \in Mutants : outcome'[i] # Pending \/ (i # holds[u] /\ outcome'[i] = outcome[i])
      BY <1>0, <2>5, <2>6, VerdictsAreNotPending DEF TypeOK
    <2>8. \A w \in Workers : at'[w] = "send" => outcome'[holds'[w]] # Pending
      <3>1. \A w \in Workers : at'[w] = "send" => holds[w] \in Mutants /\ (w = u \/ at[w] = "send")
        BY <1>0, <2>2 DEF TypeOK
      <3>2. \A w \in Workers : at[w] = "send" => outcome[holds[w]] # Pending
        BY <1>0, <2>1
      <3> QED BY <2>1, <2>7, <3>1, <3>2
    <2>9. \A w \in Workers : at'[w] = "exited" => at[w] = "exited"
      BY <2>2
    <2> HIDE DEF Busy, Taken
    <2> QED BY <1>0, <2>1, <2>3, <2>4, <2>7, <2>8, <2>9
  <1>12. ASSUME NEW u \in Workers, Send(u)
        PROVE  Accounted'
    <2>1. UNCHANGED <<pc, order, received, sent, workClosed, holds, outcome, reported, ctxDone>>
      BY <1>12 DEF Send, slice, history
    <2>2. /\ at[u] = "send" /\ at'[u] = "receive"
          /\ \A w \in Workers \ {u} : at'[w] = at[w]
      BY <1>0, <1>12 DEF Send, Go, TypeOK
    <2>3. \A w \in Workers : Busy(w) => Busy(w)' \/ w = u
      BY <2>2
    <2>4. \A i : Taken(i)' <=> Taken(i)
      BY <2>1 DEF Taken
    <2>5. \A w \in Workers : at'[w] \in {"send", "exited"} => at'[w] = at[w]
      BY <2>2
    <2>6. result[u] # Pending
      BY <1>0, <2>1, <2>2 DEF Holding
    <2> DEFINE r == [id |-> Id[holds[u]], status |-> result[u]]
    <2>7. results' = Append(results, r) /\ results \in Seq(Results)
      BY <1>0, <1>12 DEF Send, TypeOK
    <2>8. r.id = Id[holds[u]] /\ r.status # Pending
      BY <2>6
    <2> HIDE DEF r
    <2>9. /\ \A n \in 1..Len(results') : n \in 1..Len(results) \/ n = Len(results')
          /\ \A n \in 1..Len(results) : n \in 1..Len(results') /\ results'[n] = results[n]
          /\ Len(results') \in 1..Len(results') /\ results'[Len(results')] = r
      BY <2>7
    <2> HIDE DEF Busy, Taken
    <2>10. \A n \in 1..Len(results') : results'[n].status # Pending
      BY <1>0, <2>1, <2>8, <2>9
    <2>11. pc = "collect" => \A i \in Mutants : Taken(i) =>
            \/ \E w \in Workers : Busy(w)' /\ holds[w] = i
            \/ \E n \in 1..Len(results') : results'[n].id = Id[i]
            \/ reported[i] = 1
      BY <1>0, <2>1, <2>3, <2>8, <2>9
    <2> QED BY <1>0, <2>1, <2>4, <2>5, <2>10, <2>11
  <1>13. CASE Collect
    <2>1. PICK i \in Mutants :
            /\ results[1].id = Id[i] /\ results[1].status = outcome[i] /\ 1 \in 1..Len(results)
            /\ reported' = [reported EXCEPT ![i] = 1]
            /\ \A n \in 1..Len(results') :
                 n + 1 \in 1..Len(results) /\ results'[n] = results[n + 1]
            /\ \A m \in 1..Len(results) : m # 1 => m - 1 \in 1..Len(results')
      BY <1>13, CollectStep
    <2>2. UNCHANGED <<pc, order, received, sent, workClosed, at, holds, outcome, ctxDone>>
      BY <1>13 DEF Collect, workers
    <2>3. \A j : (Taken(j)' <=> Taken(j)) /\ \A w \in Workers : Busy(w)' <=> Busy(w)
      BY <2>2 DEF Taken
    <2>4. outcome[i] # Pending
      BY <1>0, <2>1, <2>2
    <2>5. \A j \in Mutants : reported'[j] = IF j = i THEN 1 ELSE reported[j]
      BY <1>0, <2>1 DEF TypeOK
    <2>6. \A n \in 1..Len(results) : n = 1 \/
            (n - 1 \in 1..Len(results') /\ results'[n - 1] = results[n])
      BY <2>1
    <2> HIDE DEF Busy, Taken
    <2>7. pc = "collect" => \A j \in Mutants : Taken(j) =>
            \/ \E w \in Workers : Busy(w) /\ holds[w] = j
            \/ \E n \in 1..Len(results') : results'[n].id = Id[j]
            \/ reported'[j] = 1
      <3>1. SUFFICES ASSUME pc = "collect", NEW j \in Mutants, Taken(j)
                     PROVE  \/ \E w \in Workers : Busy(w) /\ holds[w] = j
                            \/ \E n \in 1..Len(results') : results'[n].id = Id[j]
                            \/ reported'[j] = 1
        OBVIOUS
      <3>2. CASE \E w \in Workers : Busy(w) /\ holds[w] = j
        BY <3>2
      <3>3. CASE reported[j] = 1
        BY <2>5, <3>3
      <3>4. ASSUME NEW n \in 1..Len(results), results[n].id = Id[j]
            PROVE  reported'[j] = 1 \/ \E m \in 1..Len(results') : results'[m].id = Id[j]
        <4>1. CASE n = 1
          BY <2>1, <2>5, <3>4, <4>1, IdAssumption
        <4>2. CASE n # 1
          BY <2>6, <3>4, <4>2
        <4> QED BY <4>1, <4>2
      <3>5. ~ctxDone
        BY <2>2
      <3> QED BY <1>0, <3>1, <3>2, <3>3, <3>4, <3>5
    <2>8. \A n \in 1..Len(results') : results'[n].status # Pending
      BY <1>0, <2>1, <2>2
    <2> QED BY <1>0, <2>2, <2>3, <2>4, <2>5, <2>7, <2>8
  <1> QED BY <1>1, <1>2, <1>3, <1>4, <1>5, <1>6, <1>7, <1>8, <1>9, <1>10, <1>11, <1>12, <1>13
          DEF Next, Main, Feed, WorkerStep, Stop

(* The write-back changes the result's own mutant alone.                   *)
LEMMA NextStatusIsOwnOutcome == IInv /\ [Next]_vars => StatusIsOwnOutcome'
  <1> SUFFICES ASSUME IInv, [Next]_vars PROVE StatusIsOwnOutcome'
    OBVIOUS
  <1> USE DEF StatusIsOwnOutcome
  <1>0. TypeOK /\ Phases /\ Holding /\ StatusIsOwnOutcome
    BY DEF IInv
  <1>1. CASE StartIdle \/ Start \/ Return \/ Cancel \/ Feed \/ Close \/ UNCHANGED vars
    <2>1. UNCHANGED <<status, given, outcome, reported>>
      BY <1>1 DEF StartIdle, Start, Return, Cancel, Feed, FeedSend, FeedStop, Close,
                  vars, slice, history
    <2> QED BY <1>0, <2>1
  <1>2. CASE FailPending
    <2>1. status = given /\ outcome = given /\ \A i \in Mutants : reported[i] = 0
      BY <1>0, <1>2 DEF FailPending, Phases
    <2>2. /\ given' = given
          /\ \A i \in Mutants : status[i] = Pending =>
               status'[i] = InfraError /\ outcome'[i] = InfraError /\ reported'[i] = 1
          /\ \A i \in Mutants : status[i] # Pending =>
               status'[i] = status[i] /\ reported'[i] = reported[i]
      BY <1>2 DEF FailPending
    <2> QED BY <2>1, <2>2
  <1>3. ASSUME NEW u \in Workers,
               Receive(u) \/ ReceiveClosed(u) \/ Drop(u) \/ StartTest(u) \/ Send(u)
        PROVE  StatusIsOwnOutcome'
    <2>1. UNCHANGED <<status, given, outcome, reported>>
      BY <1>3 DEF Receive, ReceiveClosed, Drop, StartTest, Send, slice, history
    <2> QED BY <1>0, <2>1
  <1>4. ASSUME NEW u \in Workers, FinishTest(u)
        PROVE  StatusIsOwnOutcome'
    <2>1. UNCHANGED <<status, given, reported>> /\ at[u] = "test"
      BY <1>4 DEF FinishTest, Go, slice
    <2>2. holds[u] \in Mutants /\ reported[holds[u]] = 0
      BY <1>0, <2>1 DEF TypeOK, Holding, Busy
    <2>3. \A i \in Mutants \ {holds[u]} : outcome'[i] = outcome[i]
      BY <1>0, <1>4 DEF FinishTest, TypeOK
    <2> QED BY <1>0, <2>1, <2>2, <2>3
  <1>5. CASE Collect
    <2>1. PICK i \in Mutants :
            /\ status' = [status EXCEPT ![i] = outcome[i]]
            /\ reported' = [reported EXCEPT ![i] = 1]
      BY <1>5, CollectStep
    <2>2. UNCHANGED <<given, outcome>>
      BY <1>5 DEF Collect
    <2>3. /\ status'[i] = outcome[i] /\ reported'[i] = 1
          /\ \A j \in Mutants \ {i} : status'[j] = status[j] /\ reported'[j] = reported[j]
      BY <1>0, <2>1 DEF TypeOK
    <2> QED BY <1>0, <2>2, <2>3
  <1> QED BY <1>1, <1>2, <1>3, <1>4, <1>5 DEF Next, Main, WorkerStep, Stop

(* Without a cancel, Run returns when every index was reported.            *)
LEMMA NextCompleteUnlessCancelled == IInv /\ [Next]_vars => CompleteUnlessCancelled'
  <1> SUFFICES ASSUME IInv, [Next]_vars, pc' = "returned", ~ctxDone',
                      NEW i \in Mutants, status'[i] = Pending
               PROVE  FALSE
    BY DEF CompleteUnlessCancelled, PendingIn
  <1>0. TypeOK /\ Bounds /\ Phases /\ Queue /\ Accounted
        /\ StatusIsOwnOutcome /\ CompleteUnlessCancelled
    BY DEF IInv
  <1>1. CASE StartIdle
    BY <1>1 DEF StartIdle, slice, PendingIn
  <1>2. CASE Start
    <2>1. pc' = "fail" \/ pc' = "collect"
      BY <1>2 DEF Start
    <2> QED BY <2>1
  <1>3. CASE FailPending
    <2>1. status'[i] = IF status[i] = Pending THEN InfraError ELSE status[i]
      BY <1>3 DEF FailPending
    <2> QED BY <2>1, VerdictsAreNotPending
  <1>4. CASE Return
    <2>1. /\ pc = "collect" /\ results = << >> /\ resultsClosed /\ ~ctxDone
          /\ status' = status
      BY <1>4 DEF Return, slice
    <2>2. \A w \in Workers : Gone(w) /\ ~Busy(w)
      BY <1>0, <2>1 DEF Phases, Gone, Busy
    <2>3. PICK w \in Workers : at[w] = "exited"
      BY <1>0, <2>1, <2>2 DEF Phases, Gone
    <2>4. workClosed /\ received = sent
      BY <1>0, <2>1, <2>3 DEF Accounted
    <2>5. received = Len(order)
      BY <1>0, <2>1, <2>4 DEF Accounted
    <2>6. ~(\E n \in 1..Len(results) : results[n].id = Id[i])
      BY <2>1
    <2>7. reported[i] # 1
      BY <1>0, <2>1 DEF Accounted, StatusIsOwnOutcome
    <2>8. given[i] = Pending
      BY <1>0, <2>1, <2>7 DEF StatusIsOwnOutcome
    <2>9. Taken(i)
      BY <1>0, <2>1, <2>5, <2>8 DEF Queue, Taken
    <2> QED BY <1>0, <2>1, <2>2, <2>6, <2>7, <2>9 DEF Accounted
  <1>5. CASE Feed \/ Close \/ UNCHANGED vars
    BY <1>0, <1>5 DEF Feed, FeedSend, FeedStop, Close, vars, slice,
                      CompleteUnlessCancelled, PendingIn
  <1>6. CASE Cancel
    BY <1>6 DEF Cancel
  <1>7. CASE Collect
    BY <1>7 DEF Collect
  <1>8. ASSUME NEW u \in Workers, WorkerStep(u)
        PROVE  FALSE
    <2>1. UNCHANGED <<pc, status, ctxDone>>
      BY <1>8 DEF WorkerStep, Receive, ReceiveClosed, Drop, StartTest, FinishTest, Send,
                  slice, channels
    <2> QED BY <1>0, <2>1 DEF CompleteUnlessCancelled, PendingIn
  <1> QED BY <1>1, <1>2, <1>3, <1>4, <1>5, <1>6, <1>7, <1>8 DEF Next, Main, Stop

(* Every step keeps the inductive invariant.                               *)
LEMMA NextIInv == IInv /\ [Next]_vars => IInv'
  <1> SUFFICES ASSUME IInv, [Next]_vars PROVE IInv'
    OBVIOUS
  <1>1. TypeOK' /\ Bounds'
    BY NextTypeOK DEF IInv
  <1> QED BY <1>1, NextPhases, NextQueue, NextHolding, NextUntouched, NextPosted, NextAccounted,
             NextStatusIsOwnOutcome, NextCompleteUnlessCancelled DEF IInv

(* The inductive invariant of Pool.Run.                                    *)
THEOREM PoolInvariant == Spec => []IInv
  BY InitIInv, NextIInv, PTL DEF Spec

-----------------------------------------------------------------------------
(* What it is for.                                                         *)

(* No mutant's tests are started twice, whichever worker receives its      *)
(* index (the work channel of Pool.Run).                                   *)
THEOREM PoolTestedAtMostOnce == Spec => []TestedAtMostOnce
  <1>1. IInv => TestedAtMostOnce
    BY DEF IInv, Untouched, TestedAtMostOnce
  <1> QED BY <1>1, PoolInvariant, PTL

(* The write-back by ID gives each mutant the outcome of its own test, and *)
(* calls onResult once for it (idToIdx and the collector of Pool.Run).     *)
THEOREM PoolStatusIsOwnOutcome == Spec => []StatusIsOwnOutcome
  <1>1. IInv => StatusIsOwnOutcome
    BY DEF IInv
  <1> QED BY <1>1, PoolInvariant, PTL

(* Unless it is interrupted, Pool.Run returns with no mutant pending, even *)
(* when no worker could be constructed (failPending).                      *)
THEOREM PoolCompleteUnlessCancelled == Spec => []CompleteUnlessCancelled
  <1>1. IInv => CompleteUnlessCancelled
    BY DEF IInv
  <1> QED BY <1>1, PoolInvariant, PTL

-----------------------------------------------------------------------------
(* Every step of Pool is a step of TestRun or none.                        *)

(* What a pending mutant comes to is one of Test's verdicts.               *)
OutcomesAreVerdicts ==
    \A i \in Mutants : given[i] = Pending => outcome[i] \in Verdicts \cup {Pending}

(* What Test gave back is a verdict, or the mutant as it came.             *)
LEMMA NextOutcomesAreVerdicts ==
    IInv /\ OutcomesAreVerdicts /\ [Next]_vars => OutcomesAreVerdicts'
  <1> SUFFICES ASSUME IInv, OutcomesAreVerdicts, [Next]_vars PROVE OutcomesAreVerdicts'
    OBVIOUS
  <1> USE DEF OutcomesAreVerdicts
  <1>0. TypeOK /\ Phases /\ Holding /\ Queue /\ StatusIsOwnOutcome
    BY DEF IInv
  <1>1. CASE StartIdle \/ Start \/ Return \/ Cancel \/ Feed \/ Close \/ Collect \/ UNCHANGED vars
    <2>1. UNCHANGED <<given, outcome>>
      BY <1>1 DEF StartIdle, Start, Return, Cancel, Feed, FeedSend, FeedStop, Close, Collect,
                  vars, history
    <2> QED BY <2>1
  <1>2. CASE FailPending
    <2>1. /\ given' = given
          /\ \A i \in Mutants : outcome'[i] = IF status[i] = Pending THEN InfraError ELSE outcome[i]
      BY <1>2 DEF FailPending
    <2> QED BY <2>1, VerdictsAssumption
  <1>3. ASSUME NEW u \in Workers,
               Receive(u) \/ ReceiveClosed(u) \/ Drop(u) \/ StartTest(u) \/ Send(u)
        PROVE  OutcomesAreVerdicts'
    <2>1. UNCHANGED <<given, outcome>>
      BY <1>3 DEF Receive, ReceiveClosed, Drop, StartTest, Send, history
    <2> QED BY <2>1
  <1>4. ASSUME NEW u \in Workers, FinishTest(u)
        PROVE  OutcomesAreVerdicts'
    <2>1. at[u] = "test" /\ given' = given
      BY <1>4 DEF FinishTest, Go
    <2>2. holds[u] \in Mutants /\ reported[holds[u]] = 0
      BY <1>0, <2>1 DEF TypeOK, Holding, Busy
    <2>3. status[holds[u]] = given[holds[u]]
      BY <1>0, <2>2 DEF StatusIsOwnOutcome
    <2>4. PICK v \in {status[holds[u]]} \cup Verdicts : outcome' = [outcome EXCEPT ![holds[u]] = v]
      BY <1>4 DEF FinishTest
    <2>5. \A i \in Mutants : outcome'[i] = IF i = holds[u] THEN v ELSE outcome[i]
      BY <1>0, <2>4 DEF TypeOK
    <2> QED BY <2>1, <2>3, <2>4, <2>5
  <1> QED BY <1>1, <1>2, <1>3, <1>4 DEF Next, Main, WorkerStep, Stop

(* The step that reports a mutant decides it, the steps that return finish *)
(* or abandon the run, and the rest, the workers', are invisible.          *)
LEMMA StepImplementsTestRun ==
    ASSUME IInv, IInv', OutcomesAreVerdicts, [Next]_vars
    PROVE  [Abstract!Next]_(Abstract!vars)
  <1> USE DEF Abstract!Next, Abstract!Progress, Abstract!vars,
              Abstract!Pending, Abstract!InfraError, Pending, InfraError
  <1>0. TypeOK /\ Bounds /\ Phases /\ Queue /\ StatusIsOwnOutcome /\ CompleteUnlessCancelled'
    BY DEF IInv
  <1>1. CASE StartIdle
    <2>1. /\ pc = "start" /\ pc' = "returned" /\ UNCHANGED <<status, ctxDone>>
          /\ PendingIn(status) = {}
      BY <1>1 DEF StartIdle, slice
    <2> QED BY <2>1 DEF PendingIn, Abstract!Finish
  <1>2. CASE Start
    <2>1. pc = "start" /\ pc' # "returned" /\ UNCHANGED <<status, ctxDone>>
      BY <1>2 DEF Start
    <2> QED BY <2>1
  <1>3. CASE FailPending
    <2>1. /\ pc = "fail" /\ pc' = "returned" /\ ctxDone' = ctxDone
          /\ status' = [i \in Mutants |-> IF status[i] = Pending THEN InfraError ELSE status[i]]
      BY <1>3 DEF FailPending
    <2> QED BY <2>1 DEF Abstract!Abandon
  <1>4. CASE Return
    <2>1. pc = "collect" /\ pc' = "returned" /\ UNCHANGED <<status, ctxDone>>
      BY <1>4 DEF Return, slice
    <2>2. ctxDone \/ \A i \in Mutants : status[i] # Pending
      BY <1>0, <2>1 DEF CompleteUnlessCancelled, PendingIn
    <2> QED BY <2>1, <2>2 DEF Abstract!Finish
  <1>5. CASE Collect
    <2>1. PICK i \in Mutants :
            /\ Taken(i) /\ reported[i] = 0
            /\ status' = [status EXCEPT ![i] = outcome[i]]
      BY <1>5, CollectStep
    <2>2. pc = "collect" /\ UNCHANGED <<pc, ctxDone>>
      BY <1>5 DEF Collect
    <2>3. given[i] = Pending
      <3>1. received <= Len(order) /\ received \in Nat /\ Len(order) \in Nat
        BY <1>0 DEF Bounds, TypeOK
      <3> QED BY <1>0, <2>1, <3>1 DEF Taken, Queue
    <2>4. status[i] = Pending /\ outcome[i] \in Verdicts \cup {Pending}
      BY <1>0, <2>1, <2>3 DEF StatusIsOwnOutcome, OutcomesAreVerdicts
    <2>5. CASE outcome[i] = Pending
      <3>1. status' = status
        BY <1>0, <2>1, <2>4, <2>5 DEF TypeOK
      <3> QED BY <2>2, <3>1
    <2>6. CASE outcome[i] \in Verdicts
      BY <2>1, <2>2, <2>4, <2>6 DEF Abstract!Decide
    <2> QED BY <2>4, <2>5, <2>6
  <1>6. CASE Feed \/ Close \/ UNCHANGED vars
    <2>1. UNCHANGED <<pc, status, ctxDone>>
      BY <1>6 DEF Feed, FeedSend, FeedStop, Close, vars, slice
    <2> QED BY <2>1
  <1>7. CASE Cancel
    BY <1>7 DEF Cancel, slice, Abstract!Cancel
  <1>8. ASSUME NEW u \in Workers, WorkerStep(u)
        PROVE  UNCHANGED Abstract!vars
    <2>1. UNCHANGED <<pc, status, ctxDone>>
      BY <1>8 DEF WorkerStep, Receive, ReceiveClosed, Drop, StartTest, FinishTest, Send,
                  slice, channels
    <2> QED BY <2>1
  <1> QED BY <1>1, <1>2, <1>3, <1>4, <1>5, <1>6, <1>7, <1>8 DEF Next, Main, Stop

(* Pool.Run implements the safety part of TestRun: each pending mutant is  *)
(* decided at most once, by a verdict of Test, the others keep what they   *)
(* had, and the run ends with every mutant decided unless it is cancelled. *)
THEOREM PoolImplementsTestRun == Spec => Abstract!Init /\ [][Abstract!Next]_(Abstract!vars)
  <1>1. Init => Abstract!Init
    BY DEF Init, Abstract!Init
  <1>2. Init => OutcomesAreVerdicts
    BY DEF Init, OutcomesAreVerdicts
  <1>3. Spec => [](IInv /\ OutcomesAreVerdicts)
    BY <1>2, InitIInv, NextIInv, NextOutcomesAreVerdicts, PTL DEF Spec
  <1> QED BY <1>1, <1>3, StepImplementsTestRun, PTL DEF Spec
=============================================================================
