----------------------------- MODULE TceProofs -----------------------------
(***************************************************************************)
(* Proofs about Tce: its safety invariants, that no status is written      *)
(* while a checkpoint reads them, and that each step is one of             *)
(* SurvivorPass, for any number of workers, packages, files and survivors, *)
(* any compiler and any edits.                                             *)
(***************************************************************************)
EXTENDS Tce, FiniteSetTheorems, SequenceTheorems, TLAPS

-----------------------------------------------------------------------------
(* The inductive invariant, part by part.                                  *)

Busy(w) == at[w] \notin {"receive", "exited"}

(* The work channel holds survivors nobody has looked at, each once.       *)
Queue ==
    /\ \A k, l \in 1..Len(work) : work[k] = work[l] => k = l
    /\ \A k \in 1..Len(work) :
         /\ given[work[k]] = Lived /\ status[work[k]] = Lived
         /\ reported[work[k]] = 0
         /\ \A w \in Workers : Busy(w) => holds[w] # work[k]

(* A worker's survivor is no other worker's, is not reported while it is   *)
(* held, and has the status it came with until it is flipped.              *)
Holding ==
    /\ \A w \in Workers : Busy(w) =>
         /\ given[holds[w]] = Lived /\ reported[holds[w]] = 0
         /\ at[w] # "report" => status[holds[w]] = Lived
    /\ \A v, w \in Workers : Busy(v) /\ Busy(w) /\ holds[v] = holds[w] => v = w

(* A mutant that did not survive its tests is left alone, and no survivor  *)
(* is reported twice.                                                      *)
LeftAlone ==
    \A i \in Mutants :
      /\ reported[i] \in {0, 1}
      /\ given[i] # Lived => status[i] = given[i] /\ reported[i] = 0

(* Until the cancel, every survivor is waiting, held or reported, and no   *)
(* worker leaves before the channel is drained.                            *)
Accounted ==
    /\ pc = "returned" => \A w \in Workers : at[w] = "exited"
    /\ ~ctxDone =>
         /\ \A i \in Mutants : given[i] = Lived =>
              \/ \E k \in 1..Len(work) : work[k] = i
              \/ \E w \in Workers : Busy(w) /\ holds[w] = i
              \/ reported[i] = 1
         /\ \A w \in Workers : at[w] = "exited" => work = << >>

(* From its writing to its build, a worker's two files are about the       *)
(* survivor it holds.                                                      *)
Written ==
    \A w \in Workers :
      /\ at[w] \in {"overlay", "reference", "first", "build"} =>
           tmpSrc[w] = Mutation[holds[w]].text
      /\ at[w] \in {"reference", "first", "build"} =>
           overlay[w] = [file |-> File(w), tmp |-> w]

(* Sources that can be told from the original only by what may be edited.  *)
Editions == {s \in Sources : \A f \in Files \ Editable : s[f] = 0}

(* A package's reference is compiled by one worker, from a text the files  *)
(* had, and stays once it is there.                                        *)
Compiling ==
    /\ disk \in Editions
    /\ \A p \in Pkgs : compiled[p] \in {0, 1} /\ (refs[p].state = "none" => compiled[p] = 0)
    /\ \A p \in Pkgs : refs[p].state = "done" =>
         \E s \in Editions : refs[p].asm = Asm[p][s]
    /\ \A w \in Workers : at[w] = "first" => refs[Pkg(w)].state = "compiling"
    /\ \A w \in Workers : at[w] = "build" => refs[Pkg(w)].state = "done"
    /\ \A v, w \in Workers :
         at[v] = "first" /\ at[w] = "first" /\ Pkg(v) = Pkg(w) => v = w

(* Where nobody edits, a build's answer is the truth about the survivor,   *)
(* and so is the status of one that was looked at.                         *)
Truth ==
    /\ \A w \in Workers : at[w] = "lock" /\ holds[w] \in Settled =>
         /\ equal[w] => SameCode(holds[w])
         /\ SameCode(holds[w]) => equal[w] \/ holds[w] \in failed
    /\ \A w \in Workers :
         at[w] = "report" /\ holds[w] \in Settled \ failed /\ SameCode(holds[w]) =>
           status[holds[w]] = Equivalent
    /\ \A i \in Settled \ failed :
         given[i] = Lived /\ reported[i] = 1 /\ SameCode(i) => status[i] = Equivalent

IInv ==
    /\ TypeOK /\ Queue /\ Holding /\ LeftAlone /\ Accounted
    /\ Written /\ Compiling /\ Truth
    /\ KillableStaysLived

-----------------------------------------------------------------------------
(* The constants, and the order of the survivors.                          *)

(* A mutant's package, file and patched text.                              *)
LEMMA MutationTypes ==
    \A i \in Mutants : /\ Mutation[i].pkg \in Pkgs /\ Mutation[i].file \in Files
                       /\ Mutation[i].text \in Texts /\ Mutation[i].ok \in BOOLEAN
  <1> DEFINE Mutated == [pkg : Pkgs, file : Files, text : Texts, ok : BOOLEAN]
  <1>1. \A i \in Mutants : Mutation[i] \in Mutated
    <2> HIDE DEF Mutated
    <2> QED BY MutationAssumption, ElementOfSeq DEF Mutants, Mutated
  <1> QED BY <1>1

(* What a package compiles to is a number, and two editions of a settled   *)
(* package compile to the same one.                                        *)
LEMMA SettledCode ==
    ASSUME NEW i \in Settled, NEW s \in Sources, NEW t \in Sources,
           \A f \in Files \ Editable : s[f] = t[f]
    PROVE  Asm[Mutation[i].pkg][s] = Asm[Mutation[i].pkg][t]
  <1>1. i \in Mutants /\ Mutation[i].pkg \in Pkgs /\ Mutation[i].pkg \notin Unsettled
    BY MutationTypes DEF Settled
  <1> QED BY <1>1 DEF Unsettled

(* Sorting loses no survivor and repeats none.                             *)
LEMMA SortedWork ==
    ASSUME NEW S \in SUBSET Mutants,
           NEW o \in [1..Cardinality(S) -> S], Orders(S, o)
    PROVE  /\ o \in Seq(Mutants)
           /\ \A k \in 1..Len(o) : o[k] \in S
           /\ \A i \in S : \E k \in 1..Len(o) : o[k] = i
           /\ \A k, l \in 1..Len(o) : o[k] = o[l] => k = l
  <1>1. Cardinality(S) \in Nat
    <2>1. Len(Mutation) \in Nat
      BY MutationAssumption
    <2>2. IsFiniteSet(Mutants)
      BY <2>1, FS_Interval DEF Mutants
    <2> QED BY <2>2, FS_Subset, FS_CardinalityType
  <1>2. o \in Seq(S) /\ Len(o) = Cardinality(S) /\ DOMAIN o = 1..Len(o)
    BY <1>1
  <1>3. o \in Seq(Mutants)
    BY <1>2
  <1>4. ASSUME NEW k \in 1..Len(o), NEW l \in 1..Len(o), o[k] = o[l], k # l
        PROVE  FALSE
    <2>1. o[k] \in Mutants /\ Place[o[k]] \in Nat
      BY <1>2, PlaceAssumption
    <2>2. k < l \/ l < k
      BY <1>1, <1>2, <1>4
    <2> QED BY <1>2, <1>4, <2>1, <2>2 DEF Orders
  <1> QED BY <1>2, <1>3, <1>4 DEF Orders

-----------------------------------------------------------------------------
(* The initial states.                                                     *)

(* Run begins with every survivor in the channel.                          *)
LEMMA InitInv == Init => IInv
  <1> SUFFICES ASSUME Init PROVE IInv
    OBVIOUS
  <1>1. PICK o \in [1..Cardinality(LivedIn(status)) -> LivedIn(status)] :
          Orders(LivedIn(status), o) /\ work = o
    BY DEF Init
  <1>2. LivedIn(status) \in SUBSET Mutants
    BY DEF LivedIn
  <1>3. /\ work \in Seq(Mutants)
        /\ \A k \in 1..Len(work) : work[k] \in LivedIn(status)
        /\ \A i \in LivedIn(status) : \E k \in 1..Len(work) : work[k] = i
        /\ \A k, l \in 1..Len(work) : work[k] = work[l] => k = l
    <2>1. /\ o \in Seq(Mutants)
          /\ \A k \in 1..Len(o) : o[k] \in LivedIn(status)
          /\ \A i \in LivedIn(status) : \E k \in 1..Len(o) : o[k] = i
          /\ \A k, l \in 1..Len(o) : o[k] = o[l] => k = l
      BY <1>1, <1>2, SortedWork
    <2> QED BY <1>1, <2>1, Zenon
  <1>4. \A w \in Workers : ~Busy(w) /\ at[w] = "receive"
    BY DEF Init, Busy
  <1>5. status \in [Mutants -> Statuses]
    BY ShapeAssumption DEF Init
  <1>6. Original \in Sources /\ Original \in Editions
    BY ShapeAssumption DEF Original, Sources, Editions
  <1>7. TypeOK
    BY <1>3, <1>5, <1>6, ShapeAssumption DEF Init, TypeOK, References, NoMutant, NoAsm
  <1>8. Queue /\ Holding /\ LeftAlone /\ Accounted
    BY <1>3, <1>4 DEF Init, LivedIn, Queue, Holding, LeftAlone, Accounted
  <1>9. Written /\ Compiling /\ Truth
    BY <1>4, <1>6 DEF Init, Written, Compiling, Truth, Settled
  <1>10. KillableStaysLived
    BY DEF Init, KillableStaysLived, Lived, Equivalent
  <1> QED BY <1>7, <1>8, <1>9, <1>10 DEF IInv

-----------------------------------------------------------------------------
(* The steps of Check.                                                     *)

(* A worker has gone from one place to another, and no other one moved.    *)
LEMMA Moved ==
    ASSUME TypeOK, NEW u \in Workers, NEW from, NEW to, Go(u, from, to)
    PROVE  at[u] = from /\ at'[u] = to /\ \A v \in Workers \ {u} : at'[v] = at[v]
  BY DEF TypeOK, Go

(* Where Check is. *)
Inner == {"source", "overlay", "reference", "first", "build", "lock"}

(* What the parts about the survivors say does not depend on where in      *)
(* Check a worker is.                                                      *)
LEMMA InsideCheck ==
    ASSUME IInv, NEW u \in Workers, at[u] \in Inner, at'[u] \in Inner,
           \A v \in Workers \ {u} : at'[v] = at[v],
           UNCHANGED <<pc, status, work, holds, ctxDone, given, reported>>
    PROVE  Queue' /\ Holding' /\ LeftAlone' /\ Accounted' /\ KillableStaysLived'
  <1>1. \A v \in Workers : Busy(v)' <=> Busy(v)
    BY DEF Busy, Inner
  <1>2. /\ Busy(u) /\ at[u] # "report" /\ at'[u] # "report"
        /\ at[u] # "exited" /\ at'[u] # "exited"
    BY DEF Busy, Inner
  <1>3. Queue'
    <2>1. Queue
      BY DEF IInv
    <2> QED BY <1>1, <2>1 DEF Queue
  <1>4. Holding'
    <2>1. Holding
      BY DEF IInv
    <2> QED BY <1>1, <1>2, <2>1 DEF Holding
  <1>5. LeftAlone' /\ KillableStaysLived'
    BY DEF IInv, LeftAlone, KillableStaysLived
  <1>6. Accounted'
    <2>1. Accounted
      BY DEF IInv
    <2>2. \A v \in Workers : at'[v] = "exited" <=> at[v] = "exited"
      BY <1>2
    <2> QED BY <1>1, <2>1, <2>2 DEF Accounted
  <1> QED BY <1>3, <1>4, <1>5, <1>6

(* Check returns an error.                                                 *)
LEMMA FailStep ==
    ASSUME IInv, NEW u \in Workers, at[u] \in Inner \ {"lock"}, Fail(u, at[u]),
           UNCHANGED <<scratch, refs, compiled>>
    PROVE  IInv'
  <1>1. TypeOK
    BY DEF IInv
  <1>2. at'[u] = "lock" /\ \A v \in Workers \ {u} : at'[v] = at[v]
    BY <1>1, Moved DEF Fail
  <1>3. at'[u] \in Inner /\ holds[u] \in Mutants
    BY <1>1, <1>2 DEF Inner, TypeOK
  <1>4. Queue' /\ Holding' /\ LeftAlone' /\ Accounted' /\ KillableStaysLived'
    BY <1>2, <1>3, InsideCheck DEF Fail
  <1>5. TypeOK'
    BY <1>1, <1>3 DEF TypeOK, Fail, Go, Inner, scratch
  <1>6. Written'
    BY <1>2 DEF IInv, Written, Fail, scratch, File
  <1>7. Compiling'
    BY <1>2 DEF IInv, Compiling, Fail, Pkg
  <1>8. Truth'
    <2>1. failed' = failed \cup {holds[u]} /\ UNCHANGED <<holds, status, given, reported>>
      BY DEF Fail
    <2>2. \A v \in Workers \ {u} : equal'[v] = equal[v]
      BY <1>1 DEF Fail, TypeOK
    <2>3. equal'[u] = FALSE
      BY <1>1 DEF Fail, TypeOK
    <2> QED BY <1>2, <2>1, <2>2, <2>3 DEF IInv, Truth
  <1> QED BY <1>4, <1>5, <1>6, <1>7, <1>8 DEF IInv

(* The patched source is written.                                          *)
LEMMA WriteSourceStep ==
    ASSUME IInv, NEW u \in Workers, WriteSource(u)
    PROVE  IInv'
  <1>1. TypeOK
    BY DEF IInv
  <1>2. at[u] = "source" /\ at'[u] = "overlay" /\ \A v \in Workers \ {u} : at'[v] = at[v]
    BY <1>1, Moved DEF WriteSource
  <1>3. at[u] \in Inner /\ at'[u] \in Inner /\ holds[u] \in Mutants
    BY <1>1, <1>2 DEF Inner, TypeOK
  <1>4. Queue' /\ Holding' /\ LeftAlone' /\ Accounted' /\ KillableStaysLived'
    BY <1>2, <1>3, InsideCheck DEF WriteSource, history
  <1>5. Mutation[holds[u]].text \in Texts
    BY <1>3, MutationTypes
  <1>6. TypeOK'
    BY <1>1, <1>2, <1>3, <1>5 DEF TypeOK, WriteSource, Go, Tmp, history
  <1>7. Written'
    <2>1. tmpSrc'[u] = Mutation[holds[u]].text /\ \A v \in Workers \ {u} : tmpSrc'[v] = tmpSrc[v]
      BY <1>1 DEF WriteSource, Tmp, TypeOK
    <2> QED BY <1>2, <2>1 DEF IInv, Written, WriteSource, File
  <1>8. Compiling'
    BY <1>2 DEF IInv, Compiling, WriteSource, Pkg, history
  <1>9. Truth'
    BY <1>2 DEF IInv, Truth, WriteSource, history
  <1> QED BY <1>4, <1>6, <1>7, <1>8, <1>9 DEF IInv

(* The overlay is written.                                                 *)
LEMMA WriteOverlayStep ==
    ASSUME IInv, NEW u \in Workers, WriteOverlay(u)
    PROVE  IInv'
  <1>1. TypeOK
    BY DEF IInv
  <1>2. at[u] = "overlay" /\ at'[u] = "reference" /\ \A v \in Workers \ {u} : at'[v] = at[v]
    BY <1>1, Moved DEF WriteOverlay
  <1>3. at[u] \in Inner /\ at'[u] \in Inner /\ holds[u] \in Mutants
    BY <1>1, <1>2 DEF Inner, TypeOK
  <1>4. Queue' /\ Holding' /\ LeftAlone' /\ Accounted' /\ KillableStaysLived'
    BY <1>2, <1>3, InsideCheck DEF WriteOverlay, history
  <1>5. File(u) \in Files
    BY <1>3, MutationTypes DEF File
  <1>6. TypeOK'
    <2>1. [file |-> File(u), tmp |-> Tmp(u)] \in [file : Files \cup {0}, tmp : Workers]
      BY <1>5 DEF Tmp
    <2> QED BY <1>1, <1>2, <1>3, <2>1 DEF TypeOK, WriteOverlay, Go, history
  <1>7. Written'
    <2>1. /\ overlay'[u] = [file |-> File(u), tmp |-> u]
          /\ \A v \in Workers \ {u} : overlay'[v] = overlay[v]
      BY <1>1 DEF WriteOverlay, Tmp, TypeOK
    <2> QED BY <1>2, <2>1 DEF IInv, Written, WriteOverlay, File
  <1>8. Compiling'
    BY <1>2 DEF IInv, Compiling, WriteOverlay, Pkg, history
  <1>9. Truth'
    BY <1>2 DEF IInv, Truth, WriteOverlay, history
  <1> QED BY <1>4, <1>6, <1>7, <1>8, <1>9 DEF IInv

(* The first to ask for a package's reference has not been preceded.       *)
LEMMA AskFirstStep ==
    ASSUME IInv, NEW u \in Workers, AskFirst(u)
    PROVE  IInv'
  <1>1. TypeOK
    BY DEF IInv
  <1> DEFINE p == Pkg(u)
  <1>2. /\ at[u] = "reference" /\ at'[u] \in {"reference", "first"}
        /\ \A v \in Workers \ {u} : at'[v] = at[v]
    BY <1>1 DEF AskFirst, Go, TypeOK
  <1>3. at[u] \in Inner /\ at'[u] \in Inner /\ holds[u] \in Mutants
    BY <1>1, <1>2 DEF Inner, TypeOK
  <1>4. Queue' /\ Holding' /\ LeftAlone' /\ Accounted' /\ KillableStaysLived'
    BY <1>2, <1>3, InsideCheck DEF AskFirst
  <1>5. p \in Pkgs /\ refs[p].state = "none"
    BY <1>3, MutationTypes DEF Pkg, AskFirst, IsFirst
  <1>6. /\ refs'[p].state \in {"failed", "compiling"} /\ refs'[p] \in References
        /\ \A q \in Pkgs \ {p} : refs'[q] = refs[q]
        /\ refs' \in [Pkgs -> References]
    <2> HIDE DEF p
    <2>1. PICK st \in {"failed", "compiling"} : refs' = [refs EXCEPT ![p].state = st]
      BY DEF AskFirst, p
    <2>2. refs \in [Pkgs -> References] /\ refs[p] \in References
      BY <1>1, <1>5 DEF TypeOK
    <2>3. refs' = [refs EXCEPT ![p] = [refs[p] EXCEPT !.state = st]]
      BY <2>1, <2>2
    <2>4. [refs[p] EXCEPT !.state = st] \in References
      BY <2>2 DEF References
    <2>5. [refs[p] EXCEPT !.state = st].state = st
      BY <2>2 DEF References
    <2> QED BY <1>5, <2>2, <2>3, <2>4, <2>5
  <1>7. /\ compiled' \in [Pkgs -> Nat] /\ compiled'[p] \in {compiled[p], compiled[p] + 1}
        /\ \A q \in Pkgs \ {p} : compiled'[q] = compiled[q]
    BY <1>1, <1>5 DEF AskFirst, TypeOK
  <1>8. at'[u] = "first" => refs'[p].state = "compiling"
    <2>1. CASE ctxDone
      BY <1>2, <2>1 DEF AskFirst
    <2>2. CASE ~ctxDone
      <3>1. refs' = [refs EXCEPT ![p].state = "compiling"]
        BY <2>2 DEF AskFirst
      <3> HIDE DEF p
      <3> QED BY <1>1, <1>5, <3>1 DEF TypeOK, References
    <2> QED BY <2>1, <2>2
  <1>9. TypeOK'
    <2>1. at' \in [Workers -> {"receive", "source", "overlay", "reference", "first",
                              "build", "lock", "report", "exited"}]
      BY <1>1 DEF TypeOK, AskFirst, Go
    <2>2. UNCHANGED <<pc, status, work, holds, scratch, equal, disk, ctxDone, given,
                      reported, failed>>
      BY DEF AskFirst
    <2> HIDE DEF p
    <2> QED BY <1>1, <1>2, <1>3, <1>6, <1>7, <2>1, <2>2 DEF TypeOK, scratch
  <1>10. Written'
    BY <1>2 DEF IInv, Written, AskFirst, scratch, File
  <1>11. Compiling'
    <2>1. Compiling /\ compiled[p] = 0
      BY <1>5 DEF IInv, Compiling
    <2>2. UNCHANGED <<disk, holds>>
      BY DEF AskFirst
    <2>3. \A v \in Workers : at[v] \in {"first", "build"} => Pkg(v) # p /\ Pkg(v) \in Pkgs
      BY <1>1, <1>5, <2>1, MutationTypes DEF Compiling, Pkg, TypeOK
    <2>4. \A v \in Workers : Pkg(v)' = Pkg(v)
      BY <2>2 DEF Pkg
    <2>5. \A q \in Pkgs : compiled'[q] \in {0, 1} /\ (refs'[q].state = "none" => compiled'[q] = 0)
      BY <1>6, <1>7, <2>1 DEF Compiling
    <2>6. \A q \in Pkgs : refs'[q].state = "done" => \E s \in Editions : refs'[q].asm = Asm[q][s]
      BY <1>6, <2>1 DEF Compiling
    <2>7. /\ \A v \in Workers : at'[v] = "first" => refs'[Pkg(v)].state = "compiling"
          /\ \A v \in Workers : at'[v] = "build" => refs'[Pkg(v)].state = "done"
      BY <1>2, <1>6, <1>8, <2>1, <2>3 DEF Compiling
    <2>8. \A v, w \in Workers :
            at'[v] = "first" /\ at'[w] = "first" /\ Pkg(v) = Pkg(w) => v = w
      BY <1>2, <2>1, <2>3 DEF Compiling
    <2> HIDE DEF p
    <2> QED BY <2>1, <2>2, <2>4, <2>5, <2>6, <2>7, <2>8 DEF Compiling
  <1>12. Truth'
    BY <1>2 DEF IInv, Truth, AskFirst
  <1> QED BY <1>4, <1>9, <1>10, <1>11, <1>12 DEF IInv

(* The reference's compile ends, one way or the other.                     *)
LEMMA ReferenceStep ==
    ASSUME IInv, NEW u \in Workers, CompileReference(u) \/ ReferenceFails(u)
    PROVE  IInv'
  <1>1. TypeOK
    BY DEF IInv
  <1> DEFINE p == Pkg(u)
  <1>2. at[u] = "first" /\ at'[u] = "reference" /\ \A v \in Workers \ {u} : at'[v] = at[v]
    BY <1>1, Moved DEF CompileReference, ReferenceFails
  <1>3. at[u] \in Inner /\ at'[u] \in Inner /\ holds[u] \in Mutants
    BY <1>1, <1>2 DEF Inner, TypeOK
  <1>4. UNCHANGED <<pc, status, work, holds, scratch, equal, disk, ctxDone, history>>
    BY DEF CompileReference, ReferenceFails
  <1>5. Queue' /\ Holding' /\ LeftAlone' /\ Accounted' /\ KillableStaysLived'
    BY <1>2, <1>3, <1>4, InsideCheck DEF history
  <1>6. p \in Pkgs /\ refs[p].state = "compiling" /\ disk \in Editions /\ disk \in Sources
    BY <1>2, <1>3, MutationTypes DEF Pkg, IInv, Compiling, Editions
  <1>7. /\ refs' \in [Pkgs -> References]
        /\ refs'[p].state = "failed" \/ (refs'[p].state = "done" /\ refs'[p].asm = Asm[p][disk])
        /\ \A q \in Pkgs \ {p} : refs'[q] = refs[q]
    <2> HIDE DEF p
    <2>1. Asm[p][disk] \in Nat
      BY <1>6, AsmAssumption
    <2>2. CASE CompileReference(u)
      BY <1>1, <1>6, <2>1, <2>2 DEF CompileReference, TypeOK, References, p
    <2>3. CASE ReferenceFails(u)
      BY <1>1, <1>6, <2>3 DEF ReferenceFails, TypeOK, References, p
    <2> QED BY <2>2, <2>3
  <1>8. TypeOK'
    BY <1>1, <1>2, <1>3, <1>4, <1>7
    DEF TypeOK, CompileReference, ReferenceFails, Go, scratch, history
  <1>9. Written'
    BY <1>2, <1>4 DEF IInv, Written, scratch, File
  <1>10. Compiling'
    <2>1. Compiling
      BY DEF IInv
    <2>2. \A v \in Workers : Pkg(v)' = Pkg(v)
      BY <1>4 DEF Pkg
    <2>3. \A v \in Workers : at[v] \in {"first", "build"} => Pkg(v) \in Pkgs
      BY <1>1, MutationTypes DEF Pkg, TypeOK
    <2>4. \A v \in Workers : at'[v] \in {"first", "build"} => Pkg(v) # p /\ at[v] = at'[v]
      BY <1>2, <1>6, <2>1 DEF Compiling
    <2>5. \A q \in Pkgs : refs'[q].state = "done" => \E s \in Editions : refs'[q].asm = Asm[q][s]
      BY <1>6, <1>7, <2>1 DEF Compiling
    <2>6. \A q \in Pkgs : refs'[q].state = "none" => refs[q].state = "none"
      BY <1>7
    <2> HIDE DEF p
    <2> QED BY <1>4, <1>7, <2>1, <2>2, <2>3, <2>4, <2>5, <2>6 DEF Compiling, history
  <1>11. Truth'
    BY <1>2, <1>4 DEF IInv, Truth, history
  <1> QED BY <1>5, <1>8, <1>9, <1>10, <1>11 DEF IInv

(* A build starts on a reference that is there.                            *)
LEMMA StartBuildStep ==
    ASSUME IInv, NEW u \in Workers, StartBuild(u)
    PROVE  IInv'
  <1>1. TypeOK
    BY DEF IInv
  <1>2. at[u] = "reference" /\ at'[u] = "build" /\ \A v \in Workers \ {u} : at'[v] = at[v]
    BY <1>1, Moved DEF StartBuild
  <1>3. at[u] \in Inner /\ at'[u] \in Inner /\ holds[u] \in Mutants
    BY <1>1, <1>2 DEF Inner, TypeOK
  <1>4. Queue' /\ Holding' /\ LeftAlone' /\ Accounted' /\ KillableStaysLived'
    BY <1>2, <1>3, InsideCheck DEF StartBuild, history
  <1>5. TypeOK'
    BY <1>1, <1>2, <1>3 DEF TypeOK, StartBuild, Go, scratch, history
  <1>6. Written'
    BY <1>2 DEF IInv, Written, StartBuild, scratch, File
  <1>7. Compiling'
    BY <1>2 DEF IInv, Compiling, StartBuild, Known, Pkg, history
  <1>8. Truth'
    BY <1>2 DEF IInv, Truth, StartBuild, history
  <1> QED BY <1>4, <1>5, <1>6, <1>7, <1>8 DEF IInv

(* What is built under a worker's overlay is the mutant it holds, up to    *)
(* what somebody may have edited.                                          *)
LEMMA BuildTellsTheTruth ==
    ASSUME IInv, NEW u \in Workers, at[u] = "build", holds[u] \in Settled
    PROVE  Asm[Pkg(u)][Overlaid(u)] = refs[Pkg(u)].asm <=> SameCode(holds[u])
  <1> DEFINE i == holds[u]
             p == Mutation[i].pkg
             mutated == [Original EXCEPT ![Mutation[i].file] = Mutation[i].text]
  <1>1. i \in Mutants /\ p \in Pkgs /\ Mutation[i].file \in Files /\ Mutation[i].text \in Texts
    BY MutationTypes DEF Settled
  <1>2. Original \in Sources /\ mutated \in Sources
    BY <1>1, ShapeAssumption DEF Original, Sources
  <1>3. disk \in Sources /\ \A f \in Files \ Editable : disk[f] = Original[f]
    BY DEF IInv, Compiling, Editions, Original
  <1>4. Overlaid(u) \in Sources /\ \A f \in Files \ Editable : Overlaid(u)[f] = mutated[f]
    <2>1. overlay[u] = [file |-> Mutation[i].file, tmp |-> u] /\ tmpSrc[u] = Mutation[i].text
      BY DEF IInv, Written, File
    <2>2. Overlaid(u) = [f \in Files |-> IF f = Mutation[i].file THEN Mutation[i].text ELSE disk[f]]
      BY <2>1 DEF Overlaid
    <2> HIDE DEF i
    <2> QED BY <1>1, <1>2, <1>3, <2>2 DEF Sources, Original
  <1>5. Asm[p][Overlaid(u)] = Asm[p][mutated]
    <2> HIDE DEF mutated
    <2> QED BY <1>2, <1>4, SettledCode
  <1>6. PICK s \in Editions : refs[p].asm = Asm[p][s]
    BY <1>1 DEF IInv, Compiling, Pkg
  <1>7. Asm[p][s] = Asm[p][Original]
    <2>1. s \in Sources /\ \A f \in Files \ Editable : s[f] = Original[f]
      BY <1>6 DEF Editions, Original
    <2> QED BY <1>2, <2>1, SettledCode
  <1> QED BY <1>5, <1>6, <1>7 DEF SameCode, Pkg

(* The build ends, and its assembly is compared.                           *)
LEMMA BuildStep ==
    ASSUME IInv, NEW u \in Workers, Build(u)
    PROVE  IInv'
  <1>1. TypeOK
    BY DEF IInv
  <1>2. at[u] = "build" /\ at'[u] = "lock" /\ \A v \in Workers \ {u} : at'[v] = at[v]
    BY <1>1, Moved DEF Build
  <1>3. at[u] \in Inner /\ at'[u] \in Inner /\ holds[u] \in Mutants
    BY <1>1, <1>2 DEF Inner, TypeOK
  <1>4. Queue' /\ Holding' /\ LeftAlone' /\ Accounted' /\ KillableStaysLived'
    BY <1>2, <1>3, InsideCheck DEF Build, history
  <1>5. /\ equal'[u] = (Asm[Pkg(u)][Overlaid(u)] = refs[Pkg(u)].asm)
        /\ equal' \in [Workers -> BOOLEAN]
        /\ \A v \in Workers \ {u} : equal'[v] = equal[v]
    BY <1>1 DEF Build, TypeOK
  <1>6. TypeOK'
    BY <1>1, <1>2, <1>3, <1>5 DEF TypeOK, Build, Go, scratch, history
  <1>7. Written'
    BY <1>2 DEF IInv, Written, Build, scratch, File
  <1>8. Compiling'
    BY <1>2 DEF IInv, Compiling, Build, Pkg, history
  <1>9. Truth'
    <2>1. holds[u] \in Settled => (equal'[u] <=> SameCode(holds[u]))
      BY <1>2, <1>5, BuildTellsTheTruth
    <2>2. UNCHANGED <<holds, status, given, reported, failed>>
      BY DEF Build, history
    <2> QED BY <1>2, <1>5, <2>1, <2>2 DEF IInv, Truth
  <1> QED BY <1>4, <1>6, <1>7, <1>8, <1>9 DEF IInv

-----------------------------------------------------------------------------
(* The steps outside Check.                                                *)

(* What is left of the channel after a receive.                            *)
LEMMA TailOfWork ==
    ASSUME TypeOK, work # << >>
    PROVE  /\ Head(work) = work[1] /\ 1 \in 1..Len(work) /\ Head(work) \in Mutants
           /\ Tail(work) \in Seq(Mutants)
           /\ \A k \in 1..Len(Tail(work)) :
                k + 1 \in 1..Len(work) /\ Tail(work)[k] = work[k + 1]
           /\ \A k \in 1..Len(work) : k # 1 =>
                k - 1 \in 1..Len(Tail(work)) /\ Tail(work)[k - 1] = work[k]
  <1>1. work \in Seq(Mutants) /\ Len(work) \in Nat /\ Len(work) # 0
    BY EmptySeq DEF TypeOK
  <1>2. /\ Head(work) = work[1] /\ Tail(work) \in Seq(Mutants) /\ Len(Tail(work)) = Len(work) - 1
        /\ \A k \in 1..Len(Tail(work)) : Tail(work)[k] = work[k + 1]
    BY <1>1
  <1>3. work[1] \in Mutants
    BY <1>1, ElementOfSeq
  <1> QED BY <1>1, <1>2, <1>3

(* A worker receives a survivor.                                           *)
LEMMA ReceiveStep ==
    ASSUME IInv, NEW u \in Workers, Receive(u)
    PROVE  IInv'
  <1>1. TypeOK /\ Queue /\ Holding /\ Accounted
    BY DEF IInv
  <1>2. at[u] = "receive" /\ at'[u] = "source" /\ \A v \in Workers \ {u} : at'[v] = at[v]
    BY <1>1, Moved DEF Receive
  <1>3. /\ work # << >> /\ ~ctxDone /\ work' = Tail(work)
        /\ holds' = [holds EXCEPT ![u] = Head(work)]
        /\ UNCHANGED <<pc, status, scratch, equal, refs, disk, ctxDone, history>>
    BY DEF Receive
  <1> DEFINE i == work[1]
  <1>4. /\ Head(work) = i /\ 1 \in 1..Len(work) /\ i \in Mutants /\ work' \in Seq(Mutants)
        /\ \A k \in 1..Len(work') : k + 1 \in 1..Len(work) /\ work'[k] = work[k + 1]
        /\ \A k \in 1..Len(work) : k # 1 => k - 1 \in 1..Len(work') /\ work'[k - 1] = work[k]
    BY <1>1, <1>3, TailOfWork
  <1>5. holds'[u] = i /\ \A v \in Workers \ {u} : holds'[v] = holds[v]
    BY <1>1, <1>3, <1>4 DEF TypeOK
  <1>6. /\ ~Busy(u) /\ Busy(u)' /\ \A v \in Workers \ {u} : Busy(v)' <=> Busy(v)
    BY <1>2 DEF Busy
  <1>7. /\ given[i] = Lived /\ status[i] = Lived /\ reported[i] = 0
        /\ \A w \in Workers : Busy(w) => holds[w] # i
    BY <1>1, <1>4 DEF Queue
  <1>8. \A k \in 1..Len(work') : work'[k] # i
    <2>1. \A k \in 1..Len(work') : k + 1 # 1 /\ k \in Nat
      BY <1>4
    <2> QED BY <1>1, <1>4, <2>1 DEF Queue
  <1>9. TypeOK'
    <2>1. holds' \in [Workers -> Mutants \cup {NoMutant}]
      BY <1>1, <1>3, <1>4 DEF TypeOK
    <2>2. at' \in [Workers -> {"receive", "source", "overlay", "reference", "first",
                              "build", "lock", "report", "exited"}]
      BY <1>1 DEF TypeOK, Receive, Go
    <2> HIDE DEF i
    <2> QED BY <1>1, <1>2, <1>3, <1>4, <1>5, <2>1, <2>2 DEF TypeOK, scratch, history
  <1>10. Queue'
    <2>1. \A k, l \in 1..Len(work') : k + 1 = l + 1 => k = l
      BY <1>4
    <2>2. \A k, l \in 1..Len(work') : work'[k] = work'[l] => k = l
      BY <1>1, <1>4, <2>1 DEF Queue
    <2>3. UNCHANGED <<given, status, reported>>
      BY <1>3 DEF history
    <2> HIDE DEF i, Busy
    <2> QED BY <1>1, <1>4, <1>5, <1>6, <1>8, <2>2, <2>3 DEF Queue
  <1>11. Holding'
    <2>1. UNCHANGED <<given, status, reported>>
      BY <1>3 DEF history
    <2> HIDE DEF i, Busy
    <2> QED BY <1>1, <1>2, <1>5, <1>6, <1>7, <2>1 DEF Holding
  <1>12. LeftAlone' /\ KillableStaysLived'
    BY <1>3 DEF IInv, LeftAlone, KillableStaysLived, history
  <1>13. Accounted'
    <2>1. UNCHANGED <<pc, given, reported, ctxDone>>
      BY <1>3 DEF history
    <2>2. \A v \in Workers : at'[v] = "exited" => at[v] = "exited"
      BY <1>2
    <2>3. pc # "returned" /\ \A v \in Workers : at[v] # "exited"
      BY <1>1, <1>2, <1>3 DEF Accounted
    <2>4. ASSUME NEW j \in Mutants, given[j] = Lived
          PROVE  \/ \E k \in 1..Len(work') : work'[k] = j
                 \/ \E w \in Workers : Busy(w)' /\ holds'[w] = j
                 \/ reported[j] = 1
      <3>1. CASE \E w \in Workers : Busy(w) /\ holds[w] = j
        BY <1>5, <1>6, <3>1
      <3>2. CASE \E k \in 1..Len(work) : work[k] = j
        BY <1>4, <1>5, <1>6, <3>2
      <3> QED BY <1>1, <1>3, <2>4, <3>1, <3>2 DEF Accounted
    <2> HIDE DEF i, Busy
    <2> QED BY <2>1, <2>2, <2>3, <2>4 DEF Accounted
  <1>14. Written' /\ Compiling' /\ Truth'
    <2>1. UNCHANGED <<tmpSrc, overlay, equal, refs, disk, status, given, reported, compiled, failed>>
      BY <1>3 DEF scratch, history
    <2>2. \A v \in Workers : at'[v] \in {"overlay", "reference", "first", "build", "lock", "report"} =>
            v # u /\ at'[v] = at[v] /\ holds'[v] = holds[v]
      BY <1>2, <1>5
    <2>3. \A v \in Workers : holds'[v] = holds[v] => Pkg(v)' = Pkg(v) /\ File(v)' = File(v)
      BY DEF Pkg, File
    <2>4. Written'
      BY <2>1, <2>2, <2>3 DEF IInv, Written
    <2>5. Compiling'
      BY <2>1, <2>2, <2>3 DEF IInv, Compiling
    <2>6. Truth'
      BY <2>1, <2>2 DEF IInv, Truth
    <2> QED BY <2>4, <2>5, <2>6
  <1> QED BY <1>9, <1>10, <1>11, <1>12, <1>13, <1>14 DEF IInv

(* A worker leaves, with the survivor it received after the cancel.        *)
LEMMA ExitStep ==
    ASSUME IInv, NEW u \in Workers, Exit(u)
    PROVE  IInv'
  <1>1. TypeOK /\ Queue /\ Holding /\ Accounted
    BY DEF IInv
  <1>2. at[u] = "receive" /\ at'[u] = "exited" /\ \A v \in Workers \ {u} : at'[v] = at[v]
    BY <1>1, Moved DEF Exit
  <1>3. /\ work = << >> \/ ctxDone
        /\ work' = IF work = << >> THEN work ELSE Tail(work)
        /\ UNCHANGED <<pc, status, holds, scratch, equal, refs, disk, ctxDone, history>>
    BY DEF Exit
  <1>4. /\ work' \in Seq(Mutants)
        /\ \A k \in 1..Len(work') : \E l \in 1..Len(work) : work'[k] = work[l]
        /\ \A k, l \in 1..Len(work') : work'[k] = work'[l] => k = l
    <2>1. CASE work = << >>
      BY <1>1, <1>3, <2>1 DEF TypeOK, Queue
    <2>2. CASE work # << >>
      <3>1. /\ work' \in Seq(Mutants)
            /\ \A k \in 1..Len(work') : k + 1 \in 1..Len(work) /\ work'[k] = work[k + 1]
        <4>1. work' = Tail(work)
          BY <1>3, <2>2
        <4> QED BY <1>1, <2>2, <4>1, TailOfWork
      <3>2. \A k, l \in 1..Len(work') : k + 1 = l + 1 => k = l
        BY <3>1
      <3>3. \A k, l \in 1..Len(work') : work'[k] = work'[l] => k = l
        BY <1>1, <3>1, <3>2 DEF Queue
      <3>4. \A k \in 1..Len(work') : \E l \in 1..Len(work) : work'[k] = work[l]
        BY <3>1
      <3> QED BY <3>1, <3>3, <3>4
    <2> QED BY <2>1, <2>2
  <1>5. \A v \in Workers : Busy(v)' <=> Busy(v)
    BY <1>2 DEF Busy
  <1>6. TypeOK'
    <2>1. at' \in [Workers -> {"receive", "source", "overlay", "reference", "first",
                              "build", "lock", "report", "exited"}]
      BY <1>1 DEF TypeOK, Exit, Go
    <2> QED BY <1>1, <1>2, <1>3, <1>4, <2>1 DEF TypeOK, scratch, history
  <1>7. Queue'
    <2>1. UNCHANGED <<given, status, reported, holds>>
      BY <1>3 DEF history
    <2> HIDE DEF Busy
    <2> QED BY <1>1, <1>4, <1>5, <2>1 DEF Queue
  <1>8. Holding'
    BY <1>1, <1>2, <1>3, <1>5 DEF Holding, history
  <1>9. LeftAlone' /\ KillableStaysLived'
    BY <1>3 DEF IInv, LeftAlone, KillableStaysLived, history
  <1>10. Accounted'
    <2>1. UNCHANGED <<pc, given, reported, ctxDone, holds>>
      BY <1>3 DEF history
    <2>2. pc # "returned"
      BY <1>1, <1>2 DEF Accounted
    <2>3. ~ctxDone => work = << >> /\ work' = work
      BY <1>3
    <2> HIDE DEF Busy
    <2> QED BY <1>1, <1>5, <2>1, <2>2, <2>3 DEF Accounted
  <1>11. Written' /\ Compiling' /\ Truth'
    BY <1>2, <1>3 DEF IInv, Written, Compiling, Truth, scratch, history, Pkg, File
  <1> QED BY <1>6, <1>7, <1>8, <1>9, <1>10, <1>11 DEF IInv

(* The verdict is written under the lock.                                  *)
LEMMA FlipStep ==
    ASSUME IInv, NEW u \in Workers, Flip(u)
    PROVE  IInv'
  <1>1. TypeOK /\ Queue /\ Holding /\ LeftAlone /\ Truth
    BY DEF IInv
  <1>2. at[u] = "lock" /\ at'[u] = "report" /\ \A v \in Workers \ {u} : at'[v] = at[v]
    BY <1>1, Moved DEF Flip
  <1>3. UNCHANGED <<pc, work, holds, scratch, equal, refs, disk, ctxDone, history>>
    BY DEF Flip
  <1> DEFINE i == holds[u]
  <1>4. Busy(u) /\ i \in Mutants /\ given[i] = Lived /\ status[i] = Lived /\ reported[i] = 0
    BY <1>1, <1>2 DEF Busy, Holding, TypeOK
  <1>5. /\ status' \in [Mutants -> Statuses]
        /\ status'[i] = IF equal[u] THEN Equivalent ELSE Lived
        /\ \A j \in Mutants \ {i} : status'[j] = status[j]
    BY <1>1, <1>4 DEF Flip, TypeOK, Statuses
  <1>6. \A v \in Workers : Busy(v)' <=> Busy(v)
    BY <1>2 DEF Busy
  <1>7. TypeOK'
    <2>1. at' \in [Workers -> {"receive", "source", "overlay", "reference", "first",
                              "build", "lock", "report", "exited"}]
      BY <1>1 DEF TypeOK, Flip, Go
    <2> HIDE DEF i
    <2> QED BY <1>1, <1>2, <1>3, <1>4, <1>5, <2>1 DEF TypeOK, scratch, history, i
  <1>8. Queue'
    <2>1. \A k \in 1..Len(work) : work[k] # i /\ work[k] \in Mutants
      <3>1. \A k \in 1..Len(work) : work[k] \in Mutants
        BY <1>1, ElementOfSeq DEF TypeOK
      <3> QED BY <1>1, <1>4, <3>1 DEF Queue
    <2>2. UNCHANGED <<work, holds, given, reported>>
      BY <1>3 DEF history
    <2> HIDE DEF i, Busy
    <2> QED BY <1>1, <1>5, <1>6, <2>1, <2>2 DEF Queue
  <1>9. Holding'
    <2>1. UNCHANGED <<work, holds, given, reported>>
      BY <1>3 DEF history
    <2>2. \A v \in Workers \ {u} : Busy(v) => holds[v] # i /\ holds[v] \in Mutants
      BY <1>1, <1>4 DEF Holding, TypeOK, Busy
    <2> HIDE DEF Busy
    <2> QED BY <1>1, <1>2, <1>4, <1>5, <1>6, <2>1, <2>2 DEF Holding
  <1>10. LeftAlone'
    BY <1>1, <1>3, <1>4, <1>5 DEF LeftAlone, history
  <1>11. Accounted'
    <2>1. UNCHANGED <<pc, work, holds, given, reported, ctxDone>>
      BY <1>3 DEF history
    <2>2. \A v \in Workers : at'[v] = "exited" <=> at[v] = "exited"
      BY <1>2
    <2>3. Accounted
      BY DEF IInv
    <2> HIDE DEF Busy
    <2> QED BY <1>6, <2>1, <2>2, <2>3 DEF Accounted
  <1>12. Written' /\ Compiling'
    BY <1>2, <1>3 DEF IInv, Written, Compiling, scratch, history, Pkg, File
  <1>13. Truth'
    <2>1. UNCHANGED <<holds, given, equal, reported, failed>>
      BY <1>3 DEF history
    <2>2. i \in Settled \ failed /\ SameCode(i) => status'[i] = Equivalent
      BY <1>1, <1>2, <1>5 DEF Truth
    <2>3. \A v \in Workers \ {u} : at[v] # "report"
      BY DEF Flip
    <2>4. \A j \in Settled : j \in Mutants
      BY DEF Settled
    <2> QED BY <1>1, <1>2, <1>4, <1>5, <2>1, <2>2, <2>3, <2>4 DEF Truth
  <1>14. KillableStaysLived'
    <2>1. UNCHANGED <<given, holds>>
      BY <1>3 DEF history
    <2>2. i \in Settled /\ equal[u] => SameCode(i)
      BY <1>1, <1>2 DEF Truth
    <2>3. \A j \in Settled : j \in Mutants
      BY DEF Settled
    <2>4. Lived # Equivalent
      BY DEF Lived, Equivalent
    <2> QED BY <1>5, <2>1, <2>2, <2>3, <2>4 DEF IInv, KillableStaysLived
  <1> QED BY <1>7, <1>8, <1>9, <1>10, <1>11, <1>12, <1>13, <1>14 DEF IInv

(* onResult returns.                                                       *)
LEMMA ReportStep ==
    ASSUME IInv, NEW u \in Workers, Report(u)
    PROVE  IInv'
  <1>1. TypeOK /\ Queue /\ Holding /\ LeftAlone /\ Truth
    BY DEF IInv
  <1>2. at[u] = "report" /\ at'[u] = "receive" /\ \A v \in Workers \ {u} : at'[v] = at[v]
    BY <1>1, Moved DEF Report
  <1>3. UNCHANGED <<pc, status, work, holds, scratch, equal, refs, disk, ctxDone, given,
                    compiled, failed>>
    BY DEF Report
  <1> DEFINE i == holds[u]
  <1>4. Busy(u) /\ i \in Mutants /\ given[i] = Lived /\ reported[i] = 0
    BY <1>1, <1>2 DEF Busy, Holding, TypeOK
  <1>5. /\ reported' \in [Mutants -> Nat] /\ reported'[i] = 1
        /\ \A j \in Mutants \ {i} : reported'[j] = reported[j]
    BY <1>1, <1>4 DEF Report, TypeOK
  <1>6. ~Busy(u)' /\ \A v \in Workers \ {u} : Busy(v)' <=> Busy(v)
    BY <1>2 DEF Busy
  <1>7. TypeOK'
    <2>1. at' \in [Workers -> {"receive", "source", "overlay", "reference", "first",
                              "build", "lock", "report", "exited"}]
      BY <1>1 DEF TypeOK, Report, Go
    <2> QED BY <1>1, <1>2, <1>3, <1>5, <2>1 DEF TypeOK, scratch
  <1>8. \A v \in Workers \ {u} : Busy(v) => holds[v] # i /\ holds[v] \in Mutants
    BY <1>1, <1>4 DEF Holding, TypeOK, Busy
  <1>9. Queue'
    <2>1. \A k \in 1..Len(work) : work[k] # i /\ work[k] \in Mutants
      <3>1. \A k \in 1..Len(work) : work[k] \in Mutants
        BY <1>1, ElementOfSeq DEF TypeOK
      <3> QED BY <1>1, <1>4, <3>1 DEF Queue
    <2> HIDE DEF i, Busy
    <2> QED BY <1>1, <1>3, <1>5, <1>6, <2>1 DEF Queue
  <1>10. Holding'
    <2> HIDE DEF Busy
    <2> QED BY <1>1, <1>2, <1>3, <1>5, <1>6, <1>8 DEF Holding
  <1>11. LeftAlone' /\ KillableStaysLived'
    BY <1>1, <1>3, <1>4, <1>5 DEF IInv, LeftAlone, KillableStaysLived
  <1>12. Accounted'
    <2>1. Accounted
      BY DEF IInv
    <2>2. \A v \in Workers : at'[v] = "exited" => at[v] = "exited"
      BY <1>2
    <2>3. pc # "returned"
      BY <1>2, <2>1 DEF Accounted
    <2>4. ~ctxDone => \A j \in Mutants : given[j] = Lived =>
            \/ \E k \in 1..Len(work) : work[k] = j
            \/ \E w \in Workers : Busy(w)' /\ holds[w] = j
            \/ reported'[j] = 1
      <3> HIDE DEF Busy
      <3> QED BY <1>5, <1>6, <2>1 DEF Accounted
    <2> HIDE DEF Busy
    <2> QED BY <1>3, <2>1, <2>2, <2>3, <2>4 DEF Accounted
  <1>13. Written' /\ Compiling'
    BY <1>2, <1>3 DEF IInv, Written, Compiling, scratch, Pkg, File
  <1>14. Truth'
    <2>1. \A j \in Settled : j \in Mutants
      BY DEF Settled
    <2> QED BY <1>1, <1>2, <1>3, <1>4, <1>5, <2>1 DEF Truth
  <1> QED BY <1>7, <1>9, <1>10, <1>11, <1>12, <1>13, <1>14 DEF IInv

(* The interrupt, the edits and the return.                                *)
LEMMA OtherSteps ==
    ASSUME IInv, Return \/ Cancel \/ (\E f \in Editable : Edit(f)) \/ UNCHANGED vars
    PROVE  IInv'
  <1>1. /\ UNCHANGED <<status, work, at, holds, scratch, equal, refs, history>>
        /\ pc' \in {"wait", "returned"} /\ ctxDone' \in BOOLEAN /\ (ctxDone => ctxDone')
        /\ pc' = "returned" => pc = "returned" \/ \A w \in Workers : at[w] = "exited"
        /\ disk' \in Sources /\ disk' \in Editions
    <2>1. TypeOK /\ disk \in Editions
      BY DEF IInv, Compiling
    <2>2. CASE Return
      BY <2>1, <2>2 DEF Return, TypeOK, Editions
    <2>3. CASE Cancel
      BY <2>1, <2>3 DEF Cancel, TypeOK, Editions
    <2>4. ASSUME NEW f \in Editable, Edit(f)
          PROVE  disk' \in Sources /\ disk' \in Editions
      BY <2>1, <2>4, ShapeAssumption DEF Edit, TypeOK, Editions, Sources
    <2>5. CASE UNCHANGED vars
      BY <2>1, <2>5 DEF vars, TypeOK, Editions
    <2> QED BY <2>1, <2>2, <2>3, <2>4, <2>5 DEF Edit, TypeOK
  <1>2. \A w \in Workers : (Pkg(w)' = Pkg(w)) /\ (File(w)' = File(w)) /\ (Busy(w)' <=> Busy(w))
    BY <1>1 DEF Pkg, File, Busy
  <1>3. TypeOK'
    BY <1>1 DEF IInv, TypeOK, scratch, history
  <1>4. Queue' /\ Holding' /\ LeftAlone' /\ Truth' /\ KillableStaysLived'
    BY <1>1, <1>2 DEF IInv, Queue, Holding, LeftAlone, Truth, KillableStaysLived, history
  <1>5. Written' /\ Compiling'
    BY <1>1, <1>2 DEF IInv, Written, Compiling, scratch, history
  <1>6. Accounted'
    <2> HIDE DEF Busy
    <2> QED BY <1>1, <1>2 DEF IInv, Accounted, history
  <1> QED BY <1>3, <1>4, <1>5, <1>6 DEF IInv

-----------------------------------------------------------------------------
(* The theorems.                                                           *)

LEMMA NextInv == IInv /\ [Next]_vars => IInv'
  <1> SUFFICES ASSUME IInv, [Next]_vars PROVE IInv'
    OBVIOUS
  <1>1. CASE Return \/ Cancel \/ (\E f \in Editable : Edit(f)) \/ UNCHANGED vars
    BY <1>1, OtherSteps
  <1>2. ASSUME NEW w \in Workers, WorkerStep(w) PROVE IInv'
    <2>1. CASE Receive(w)
      BY <2>1, ReceiveStep
    <2>2. CASE Exit(w)
      BY <2>2, ExitStep
    <2>3. CASE PrepareFails(w) \/ NoBuild(w) \/ BuildFails(w)
      <3>1. at[w] \in {"source", "overlay", "reference", "build"} /\ Fail(w, at[w])
        BY <2>3 DEF PrepareFails, NoBuild, BuildFails, Fail, Go
      <3>2. UNCHANGED <<scratch, refs, compiled>>
        BY <2>3 DEF PrepareFails, NoBuild, BuildFails
      <3> QED BY <3>1, <3>2, FailStep DEF Inner
    <2>4. CASE WriteSource(w)
      BY <2>4, WriteSourceStep
    <2>5. CASE WriteOverlay(w)
      BY <2>5, WriteOverlayStep
    <2>6. CASE AskFirst(w)
      BY <2>6, AskFirstStep
    <2>7. CASE CompileReference(w) \/ ReferenceFails(w)
      BY <2>7, ReferenceStep
    <2>8. CASE StartBuild(w)
      BY <2>8, StartBuildStep
    <2>9. CASE Build(w)
      BY <2>9, BuildStep
    <2>10. CASE Flip(w)
      BY <2>10, FlipStep
    <2>11. CASE Report(w)
      BY <2>11, ReportStep
    <2> QED BY <1>2, <2>1, <2>2, <2>3, <2>4, <2>5, <2>6, <2>7, <2>8, <2>9, <2>10, <2>11
            DEF WorkerStep
  <1>3. Next \/ UNCHANGED vars
    OBVIOUS
  <1> QED BY <1>1, <1>2, <1>3 DEF Next, Done

LEMMA Invariance == Spec => []IInv
  BY InitInv, NextInv, PTL DEF Spec

(* When Run has returned without a cancel, a worker has left, which it     *)
(* does when the channel is drained; so every survivor was reported, and   *)
(* what Truth says of a reported one is said of all.                       *)
LEMMA InvImpliesTceInv == IInv => TceInv
  <1> SUFFICES ASSUME IInv PROVE TceInv
    OBVIOUS
  <1>1. TypeOK /\ KillableStaysLived
    BY DEF IInv
  <1>2. ReferenceCompiledOnce
    BY DEF IInv, Compiling, ReferenceCompiledOnce
  <1>3. ASSUME pc = "returned", ~ctxDone, NEW i \in Mutants, given[i] = Lived
        PROVE  reported[i] = 1
    <2>1. PICK w \in Workers : TRUE
      BY WorkersAssumption
    <2>2. work = << >> /\ \A v \in Workers : ~Busy(v)
      BY <1>3, <2>1 DEF IInv, Accounted, Busy
    <2>3. \A k \in 1..Len(work) : FALSE
      BY <2>2
    <2> QED BY <1>3, <2>2, <2>3 DEF IInv, Accounted
  <1>4. EachSurvivorReported
    BY <1>3 DEF IInv, LeftAlone, EachSurvivorReported
  <1>5. FindsEveryEquivalent
    BY <1>3 DEF IInv, Truth, FindsEveryEquivalent, Settled
  <1> QED BY <1>1, <1>2, <1>4, <1>5 DEF TceInv

(* However the workers interleave, whatever fails and whatever is edited:  *)
(* no survivor whose code differs is declared equivalent, none that has    *)
(* the original's code is missed by a pass that ended, each is reported    *)
(* once and each reference compiled once (tce.go:15, :66, :222).           *)
THEOREM TceInvHolds == Spec => []TceInv
  BY Invariance, InvImpliesTceInv, PTL

(* The lock around the status and onResult keeps every other worker from   *)
(* writing a status while a checkpoint reads the slice (tce.go:291).       *)
THEOREM NoWriteDuringReportHolds == Spec => NoWriteDuringReport
  <1>1. [Next]_vars => [\A w \in Workers : at[w] = "report" => UNCHANGED status]_vars
    <2>1. SUFFICES ASSUME Next, NEW w \in Workers, at[w] = "report"
                   PROVE  UNCHANGED status
      BY DEF vars
    <2>2. \A v \in Workers : ~Flip(v)
      BY <2>1 DEF Flip
    <2> QED BY <2>1, <2>2
            DEF Next, WorkerStep, Return, Cancel, Done, Edit, Receive, Exit, PrepareFails,
                WriteSource, WriteOverlay, AskFirst, CompileReference, ReferenceFails,
                StartBuild, NoBuild, Build, BuildFails, Report, Fail, vars
  <1> QED BY <1>1, PTL DEF Spec, NoWriteDuringReport

(* A step of the pass proves a survivor equivalent, finishes, or changes   *)
(* nothing that SurvivorPass sees.                                         *)
LEMMA StepSimulation ==
    ASSUME IInv, [Next]_vars
    PROVE  [Abstract!Next]_(Abstract!vars)
  <1> USE DEF Abstract!Next, Abstract!vars
  <1>1. CASE Return
    BY <1>1 DEF Return, Abstract!Finish
  <1>2. ASSUME NEW w \in Workers, Flip(w), equal[w]
        PROVE  Abstract!Prove(holds[w])
    <2>1. at[w] = "lock" /\ pc' = pc /\ status' = [status EXCEPT ![holds[w]] = Equivalent]
      BY <1>2 DEF Flip, Go
    <2>2. holds[w] \in Mutants /\ status[holds[w]] = Lived
      BY <2>1 DEF IInv, TypeOK, Holding, Busy
    <2>3. pc = "wait"
      BY <2>1 DEF IInv, TypeOK, Accounted
    <2>4. holds[w] \in {i \in Mutants : i \in Settled => SameCode(i)}
      BY <1>2, <2>1, <2>2 DEF IInv, Truth
    <2>5. Abstract!Lived = Lived /\ Abstract!Equivalent = Equivalent
      BY DEF Abstract!Lived, Abstract!Equivalent, Lived, Equivalent
    <2> QED BY <2>1, <2>2, <2>3, <2>4, <2>5 DEF Abstract!Prove
  <1>3. ASSUME NEW w \in Workers, Flip(w)
        PROVE  [Abstract!Next]_(Abstract!vars)
    <2>1. CASE equal[w]
      <3>1. holds[w] \in Mutants
        BY <1>3 DEF Flip, Go, IInv, TypeOK
      <3> QED BY <1>2, <1>3, <2>1, <3>1
    <2>2. CASE ~equal[w]
      BY <1>3, <2>2 DEF Flip
    <2> QED BY <2>1, <2>2
  <1>4. CASE /\ ~Return
             /\ \A w \in Workers : ~Flip(w)
    <2>1. UNCHANGED <<pc, status>>
      BY <1>4
         DEF Next, WorkerStep, Cancel, Done, Edit, Receive, Exit, PrepareFails,
             WriteSource, WriteOverlay, AskFirst, CompileReference, ReferenceFails,
             StartBuild, NoBuild, Build, BuildFails, Report, Fail, vars
    <2> QED BY <2>1
  <1> QED BY <1>1, <1>3, <1>4

(* The pass reclassifies survivors and nothing else, and of a package that *)
(* nobody edits only those with the original's code; and it is over once   *)
(* it returned.                                                            *)
THEOREM TceImplementsSurvivorPass ==
    Spec => Abstract!Init /\ [][Abstract!Next]_(Abstract!vars)
  <1>1. Init => Abstract!Init
    BY DEF Init, Abstract!Init
  <1>2. IInv /\ [Next]_vars => [Abstract!Next]_(Abstract!vars)
    BY StepSimulation
  <1> QED BY <1>1, <1>2, Invariance, PTL DEF Spec
=============================================================================
