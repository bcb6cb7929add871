-------------------------- MODULE IncrementalProofs --------------------------
(***************************************************************************)
(* Proofs about the cache (Incremental), for any mutants, runs and edits.  *)
(***************************************************************************)
EXTENDS Incremental, FiniteSetTheorems, TLAPS

-----------------------------------------------------------------------------
(* The worlds where the code keeps its promises.  In the others TLC has a  *)
(* counterexample: README, what disagrees with the documentation.          *)

(* Files are edited between the runs only.                                 *)
BetweenRuns == ~world.midRunEdits

(* No edit brings back an earlier content.                                 *)
Forward == ~world.reverts

(* Nor is a mutant tested by any suite but its package's own, and every    *)
(* file can be read.                                                       *)
OwnSuite == Forward /\ ~world.crossPkg /\ ~world.readsFail

-----------------------------------------------------------------------------
(* The inductive invariant, part by part.                                  *)

Frozen  == {"freeze", "lookup", "run", "tce", "update", "save"}
Started == {"lookup", "run", "tce", "update", "save"}
Tested  == Started \ {"lookup"}

(* TypeOK, but for the caches.                                             *)
Types ==
    /\ world \in Worlds
    /\ disk \in [Files -> Contents] /\ edits \in 0..MaxEdits /\ runs \in 0..MaxRuns
    /\ pc \in {"down", "key", "cover"} \cup {"discover"} \cup Frozen
    /\ opts \in [gen : Generations, detect : BOOLEAN, single : BOOLEAN]
    /\ scope \subseteq Mutants
    /\ DOMAIN memo \subseteq Files /\ \A f \in DOMAIN memo : memo[f] \in Contents
    /\ srcCache \in Contents
    /\ coverage \in [keyed : BOOLEAN, key : [Files -> Contents], on : [Files -> Contents],
                     cached : BOOLEAN]
    /\ st \in [Mutants -> [status : Statuses, on : [Files -> Contents], replayed : BOOLEAN]]
    /\ resume \in {"run", "tce", "exit"}

(* An entry is of a type that can be replayed, and is keyed on the bytes   *)
(* its mutant was made of.                                                 *)
EntryOK(e) ==
    /\ CanReuse(e.status) /\ e.gen \in Generations
    /\ DOMAIN e.hash \subseteq Files /\ \A f \in DOMAIN e.hash : e.hash[f] \in Contents
    /\ e.on \in [Files -> Contents]
    /\ "src" \in DOMAIN e.hash /\ e.hash["src"] = e.on["src"]

(* A cache is of one generation.                                           *)
CacheOK(c) ==
    /\ c = [gen |-> c.gen, entries |-> c.entries, profile |-> c.profile]
    /\ c.gen \in Generations
    /\ DOMAIN c.entries \subseteq Mutants
    /\ \A m \in DOMAIN c.entries : EntryOK(c.entries[m]) /\ c.entries[m].gen = c.gen
    /\ Cardinality(c.profile) <= 1 /\ c.profile \subseteq Profiles

BothCaches ==
    /\ \A c \in {file, loaded} : CacheOK(c)
    /\ pc # "down" => loaded.gen = opts.gen

(* What the hasher remembers: nothing at the start, and of the mutated     *)
(* file, once it is frozen, the bytes the mutants are made of.             *)
Memoized ==
    /\ pc \in {"down", "key"} => DOMAIN memo = {}
    /\ pc \in Started => "src" \in DOMAIN memo /\ memo["src"] = srcCache

(* A verdict was measured on those bytes, or replayed from one that was.   *)
Measured ==
    \A m \in Mutants :
        /\ CanReuse(st[m].status) => st[m].on["src"] = srcCache /\ pc \in Tested
        /\ st[m].replayed => CanReuse(st[m].status) /\ Gates(st[m].status) \subseteq DOMAIN memo

(* The profile in use has a key when it comes from the cache.              *)
Profiled ==
    /\ coverage.cached => coverage.keyed
    /\ pc \in {"down", "key"} => ~coverage.keyed
    /\ pc = "cover" => ~coverage.cached

(* While nothing is edited, everything is of the disk's content.           *)
Settled ==
    BetweenRuns =>
        /\ \A c \in {file, loaded} :
             /\ \A m \in DOMAIN c.entries :
                  \A f \in Decides(c.entries[m].status) \cap DOMAIN c.entries[m].hash :
                      c.entries[m].hash[f] = c.entries[m].on[f]
             /\ \A p \in c.profile : \A f \in Files : p.key[f] = p.on[f]
        /\ pc # "down" => \A f \in DOMAIN memo : memo[f] = disk[f]
        /\ pc \in Frozen => srcCache = disk["src"]
        /\ \A m \in Mutants : CanReuse(st[m].status) =>
             \A f \in Decides(st[m].status) : st[m].on[f] = disk[f]
        /\ coverage.keyed => \A f \in Files :
             coverage.key[f] = disk[f] /\ (pc # "cover" => coverage.on[f] = disk[f])

(* When contents do not come back, what is remembered is of earlier ones,  *)
(* and a profile was measured on what its key was made of, or later.       *)
Growing ==
    Forward =>
        /\ \A f \in Files : disk[f] <= edits
        /\ \A f \in DOMAIN memo : memo[f] <= disk[f]
        /\ pc \in Frozen => srcCache <= disk["src"]
        /\ \A c \in {file, loaded} : \A p \in c.profile : \A f \in Files :
             p.key[f] <= p.on[f] /\ p.on[f] <= disk[f]
        /\ coverage.keyed => \A f \in Files :
             /\ coverage.key[f] <= disk[f]
             /\ pc # "cover" => coverage.key[f] <= coverage.on[f] /\ coverage.on[f] <= disk[f]
             /\ coverage.cached => coverage.on[f] = coverage.key[f]

(* All that decides a verdict is hashed before any mutant is tested.       *)
HashedFirst ==
    OwnSuite =>
        /\ pc \in {"cover", "discover", "freeze"} => "test" \in DOMAIN memo
        /\ pc \in Started => Files \subseteq DOMAIN memo

(* So a verdict is of no earlier content than its hashes; and what a run   *)
(* finds in the cache was measured before it hashed anything.              *)
InOrder ==
    OwnSuite =>
        /\ \A c \in {file, loaded} : \A m \in DOMAIN c.entries :
             \A f \in Decides(c.entries[m].status) :
                 /\ c.entries[m].on[f] <= disk[f]
                 /\ f \in DOMAIN c.entries[m].hash => c.entries[m].hash[f] <= c.entries[m].on[f]
        /\ pc \notin Tested =>
             \A m \in DOMAIN loaded.entries :
               /\ \A f \in Decides(loaded.entries[m].status) \cap DOMAIN memo :
                      loaded.entries[m].on[f] <= memo[f]
               /\ pc \in {"freeze", "lookup"} => loaded.entries[m].on["src"] <= srcCache
        /\ \A m \in Mutants : CanReuse(st[m].status) =>
             \A f \in Decides(st[m].status) :
                 /\ memo[f] <= st[m].on[f] /\ st[m].on[f] <= disk[f]
                 /\ st[m].replayed => st[m].on[f] = memo[f]

IInv ==
    /\ Types /\ BothCaches /\ Memoized /\ Measured /\ Profiled
    /\ Settled /\ Growing /\ HashedFirst /\ InOrder

-----------------------------------------------------------------------------
(* What is known, beyond that, of the entries a run starts with.           *)

(* Contents only get newer: an entry's hashes are of what a run finds, or  *)
(* of something older.                                                     *)
Aged ==
    Forward => \A c \in {file, loaded} : \A m \in DOMAIN c.entries :
        \A f \in DOMAIN c.entries[m].hash :
            /\ c.entries[m].hash[f] <= disk[f]
            /\ f \in DOMAIN memo => c.entries[m].hash[f] <= memo[f]
            /\ f = "src" /\ pc \in Frozen => c.entries[m].hash[f] <= srcCache

(* Until mutants are tested the run has the entries of the file.           *)
AsLoaded ==
    pc \in {"key", "cover", "discover", "freeze", "lookup"} /\ file.gen = opts.gen =>
        loaded.entries = file.entries

(* An entry's package has changed, for the rest of the run.                *)
Gone(e) ==
    \E f \in Pkg \cap DOMAIN e.hash :
        e.hash[f] # disk[f] /\ (Forward => e.hash[f] < disk[f])

(* An entry of the file is the run's, is replaced by a verdict of the run, *)
(* or is gone.                                                             *)
Keepable == world.resolves /\ (BetweenRuns \/ Forward)
KeptOrGone ==
    Keepable /\ pc # "down" /\ file.gen = opts.gen =>
        \A m \in DOMAIN file.entries :
            \/ /\ m \in DOMAIN loaded.entries
               /\ \/ loaded.entries[m] = file.entries[m]
                  \/ pc \in Tested /\ SamePkg(loaded.entries[m], memo)
            \/ Gone(file.entries[m])

(* A lookup could not replay an entry: a hash is not there or another.     *)
Misses(e) ==
    \E f \in Gates(e.status) :
        \/ f \notin DOMAIN e.hash
        \/ f \in DOMAIN memo /\ e.hash[f] # memo[f]
        \/ world.readsFail /\ f \notin DOMAIN memo

(* Mutants may still be tested; those without a verdict were looked up.    *)
Testing == pc = "run" \/ (pc \in {"update", "save"} /\ resume = "run")
LookedUp ==
    Testing /\ ~opts.single =>
        \A m \in Mutants : Unresolved(m) =>
            \A c \in {file, loaded} : c.gen = opts.gen /\ m \in DOMAIN c.entries =>
                Misses(c.entries[m])

(* Where reads fail, a mutant is the only one: no checkpoint comes between *)
(* its lookup and its test.                                                *)
ReadOnce ==
    world.readsFail /\ pc \in {"update", "save"} /\ resume = "run" =>
        \A m \in Mutants : ~Unresolved(m)

RInv == IInv /\ Aged /\ AsLoaded /\ KeptOrGone /\ LookedUp /\ ReadOnce

-----------------------------------------------------------------------------
(* Files and statuses.                                                     *)

LEMMA WorldFacts ==
    ASSUME world \in Worlds
    PROVE  /\ world.edits \in 0..MaxEdits /\ world.runs \in 0..MaxRuns
           /\ MaxEdits \in Nat /\ MaxRuns \in Nat
           /\ world.crossPkg \in BOOLEAN /\ world.midRunEdits \in BOOLEAN
           /\ world.reverts \in BOOLEAN /\ world.readsFail \in BOOLEAN
           /\ world.resolves \in BOOLEAN
  <1>1. world \in AllWorlds
    BY IncrementalAssumption
  <1> QED BY <1>1, IncrementalAssumption DEF AllWorlds

LEMMA FileFacts ==
    /\ {"src", "sib", "test"} \subseteq Files /\ Files \subseteq {"src", "sib", "test", "dep"}
    /\ Pkg \subseteq Files /\ Tests \subseteq Files /\ "test" \in Files /\ "src" \in Files
    /\ KeyFiles = Files
    /\ ~world.crossPkg => Files = {"src", "sib", "test"}
  BY DEF Files, Pkg, Tests, KeyFiles

LEMMA GateFacts ==
    \A s : /\ Gates(s) \subseteq Files /\ Decides(s) \subseteq Files
           /\ "src" \in Gates(s) /\ "src" \in Decides(s) /\ Pkg \subseteq Gates(s)
           /\ CanReuse(s) => Decides(s) \subseteq Gates(s) /\ s \in Statuses
           /\ Gates(s) \ Pkg # {} => Gates(s) = Files
  BY FileFacts DEF Gates, Decides, Pkg, Files, CanReuse, NeedsTestsHash, Statuses, Killed, Lived,
                   TimedOut, NotViable, Equivalent

LEMMA StatusFacts ==
    /\ ~CanReuse(Pending) /\ ~CanReuse(NotCovered) /\ CanReuse(Lived) /\ CanReuse(Equivalent)
    /\ Decides(Lived) = Files /\ Decides(Equivalent) = Files
    /\ Gates(Lived) = Gates(Equivalent) /\ Gates(Lived) = Files
    /\ Pending \in Statuses /\ NotCovered \in Statuses /\ Lived \in Statuses
    /\ Equivalent \in Statuses /\ Verdicts \subseteq Statuses
  BY IncrementalAssumption
     DEF Gates, Decides, Files, CanReuse, NeedsTestsHash, Statuses, Killed, Lived, TimedOut,
         NotViable, Equivalent, Pending, NotCovered, InfraError, TestVerdicts

-----------------------------------------------------------------------------
(* The hasher.                                                             *)

(* What hashing leaves: all that was there before, and of other files what *)
(* they hold now.                                                          *)
Adds(old, new) ==
    /\ DOMAIN old \subseteq DOMAIN new
    /\ \A f \in DOMAIN old : new[f] = old[f]

Reads(old, new, src) ==
    \A f \in DOMAIN new \ DOMAIN old : new[f] = IF f = "src" THEN src ELSE disk[f]

LEMMA MemosAdd ==
    ASSUME NEW old, NEW src, NEW S, NEW new \in Memos(old, src, S)
    PROVE  /\ Adds(old, new) /\ Reads(old, new, src)
           /\ DOMAIN new \subseteq DOMAIN old \cup S
           /\ "src" \in S => "src" \in DOMAIN new
           /\ ~world.readsFail => DOMAIN new = DOMAIN old \cup S
  <1>1. PICK failed \in (IF world.readsFail THEN SUBSET (Files \ {"src"}) ELSE {{}}) :
             new = Hashed(old, src, S \ failed)
    BY DEF Memos
  <1>2. "src" \notin failed /\ (~world.readsFail => failed = {})
    BY <1>1
  <1>3. /\ DOMAIN new = DOMAIN old \cup (S \ failed)
        /\ \A f \in DOMAIN new :
             new[f] = IF f \in DOMAIN old THEN old[f] ELSE IF f = "src" THEN src ELSE disk[f]
    BY <1>1 DEF Hashed
  <1> QED BY <1>2, <1>3 DEF Adds, Reads

LEMMA AddsTwice ==
    ASSUME NEW a, NEW b, NEW c, NEW src, Adds(a, b), Adds(b, c), Reads(a, b, src), Reads(b, c, src)
    PROVE  Adds(a, c) /\ Reads(a, c, src)
  BY DEF Adds, Reads

-----------------------------------------------------------------------------
(* The steps.                                                              *)

LEMMA SameWorld ==
    ASSUME world' = world
    PROVE  /\ Files' = Files /\ Mutants' = Mutants /\ Generations' = Generations
           /\ BetweenRuns' <=> BetweenRuns
           /\ Forward' <=> Forward
           /\ OwnSuite' <=> OwnSuite
           /\ Profiles' = Profiles
           /\ \A s : Decides(s)' = Decides(s) /\ Gates(s)' = Gates(s)
  BY DEF Files, Mutants, Generations, BetweenRuns, Forward, OwnSuite, Profiles, Decides, Gates

(* The user saves a file: in a world without edits mid-run, between runs.  *)
LEMMA EditFacts ==
    ASSUME IInv, Edit
    PROVE  /\ world' = world /\ edits' = edits + 1
           /\ UNCHANGED <<file, pc, runs, opts, scope, loaded, memo, srcCache, coverage, st, resume>>
           /\ edits' \in 0..MaxEdits /\ disk' \in [Files -> Contents]
           /\ \A f \in Files : disk[f] \in Nat /\ disk'[f] \in Nat
           /\ BetweenRuns => pc = "down"
           /\ Forward => \A f \in Files : disk[f] <= disk'[f] /\ disk'[f] <= edits'
  <1>1. /\ world' = world /\ edits' = edits + 1
        /\ UNCHANGED <<file, pc, runs, opts, scope, loaded, memo, srcCache, coverage, st, resume>>
    BY DEF Edit, run, mem
  <1>2. world.edits \in 0..MaxEdits /\ MaxEdits \in Nat /\ edits \in Nat
    BY WorldFacts DEF IInv, Types
  <1>3. PICK g \in Files, c \in (IF world.reverts THEN 0..edits ELSE {}) \cup {edits + 1} :
             disk' = [disk EXCEPT ![g] = c]
    BY DEF Edit
  <1>4. edits' \in 0..MaxEdits /\ c \in Contents
    BY <1>1, <1>2 DEF Edit, Contents
  <1>5. disk' \in [Files -> Contents]
    BY <1>3, <1>4 DEF IInv, Types
  <1>6. Forward => \A f \in Files : disk[f] <= disk'[f] /\ disk'[f] <= edits'
    <2> SUFFICES ASSUME Forward, NEW f \in Files
                 PROVE  disk[f] <= disk'[f] /\ disk'[f] <= edits'
      OBVIOUS
    <2>1. disk[f] <= edits /\ disk[f] \in Nat
      BY DEF IInv, Growing, Types, Contents
    <2>2. c = edits + 1
      BY <1>3 DEF Forward
    <2> QED BY <1>1, <1>2, <1>3, <2>1, <2>2 DEF IInv, Types
  <1>7. \A f \in Files : disk[f] \in Nat /\ disk'[f] \in Nat
    BY <1>5 DEF IInv, Types, Contents
  <1>8. BetweenRuns => pc = "down"
    BY DEF Edit, BetweenRuns
  <1> QED BY <1>1, <1>4, <1>5, <1>6, <1>7, <1>8

LEMMA EditStep == ASSUME IInv, Edit PROVE IInv'
  <1>1. /\ world' = world /\ edits' \in 0..MaxEdits /\ disk' \in [Files -> Contents]
        /\ UNCHANGED <<file, pc, runs, opts, scope, loaded, memo, srcCache, coverage, st, resume>>
    BY EditFacts
  <1>2. Types'
    BY <1>1, SameWorld DEF IInv, Types
  <1>3. BothCaches'
    BY <1>1, SameWorld DEF IInv, BothCaches, CacheOK, EntryOK
  <1>4. Memoized' /\ Measured' /\ Profiled'
    BY <1>1, SameWorld DEF IInv, Memoized, Measured, Profiled
  <1>5. Settled'
    <2>1. pc = "down" => ~coverage.keyed /\ \A m \in Mutants : ~CanReuse(st[m].status)
      BY DEF IInv, Profiled, Measured, Tested, Started
    <2> QED BY <1>1, EditFacts, <2>1, SameWorld DEF IInv, Settled, Frozen
  <1>6. Forward => \A f \in Files : disk[f] <= disk'[f] /\ disk'[f] <= edits'
    BY EditFacts
  <1>7. \A f \in Files : disk[f] \in Nat /\ disk'[f] \in Nat
    BY EditFacts
  <1>8. Growing'
    BY <1>1, <1>6, <1>7, SameWorld, FileFacts
       DEF IInv, Types, BothCaches, CacheOK, Growing, Frozen, Profiles, Contents
  <1>9. HashedFirst'
    BY <1>1, SameWorld DEF IInv, HashedFirst
  <1>10. InOrder'
    BY <1>1, <1>6, <1>7, SameWorld, GateFacts
       DEF IInv, Types, BothCaches, CacheOK, EntryOK, InOrder, OwnSuite, Contents
  <1> QED BY <1>2, <1>3, <1>4, <1>5, <1>8, <1>9, <1>10 DEF IInv

LEMMA EmptyCacheOK ==
    \A g \in Generations : /\ CacheOK(Empty(g)) /\ Empty(g).gen = g
                           /\ DOMAIN Empty(g).entries = {} /\ Empty(g).profile = {}
  <1>1. Cardinality({}) = 0
    BY FS_EmptySet
  <1> QED BY <1>1 DEF CacheOK, Empty, EmptyFn

(* The metadata gate: a run finds entries of its own generation, or none.  *)
LEMMA StartStep == ASSUME IInv, Start PROVE IInv'
  <1>1. PICK g \in Generations, d \in BOOLEAN, one \in BOOLEAN, S \in SUBSET Mutants :
          opts' = [gen |-> g, detect |-> d, single |-> one] /\ scope' = S /\ loaded' = Load(g)
    BY DEF Start
  <1>2. /\ pc = "down" /\ pc' = "key" /\ runs' = runs + 1 /\ runs < world.runs /\ world' = world
        /\ UNCHANGED <<disk, edits, file, memo, srcCache, coverage, st, resume>>
    BY DEF Start, user
  <1>3. Types'
    <2>1. runs' \in 0..MaxRuns
      BY <1>2, WorldFacts DEF IInv, Types
    <2> QED BY <1>1, <1>2, <2>1, SameWorld DEF IInv, Types, Frozen
  <1>4. \/ loaded' = file /\ file.gen = g
        \/ CacheOK(loaded') /\ loaded'.gen = g /\ DOMAIN loaded'.entries = {} /\ loaded'.profile = {}
    BY <1>1, EmptyCacheOK DEF Load
  <1>5. CacheOK(file) /\ CacheOK(loaded') /\ loaded'.gen = g
    BY <1>4 DEF IInv, BothCaches
  <1>6. BothCaches'
    BY <1>1, <1>2, <1>5, SameWorld DEF BothCaches, CacheOK, EntryOK
  <1>7. Memoized' /\ Measured' /\ Profiled'
    BY <1>2, SameWorld DEF IInv, Memoized, Measured, Profiled, Started, Tested
  <1>8. DOMAIN memo = {} /\ ~coverage.keyed /\ \A m \in Mutants : ~CanReuse(st[m].status)
    BY <1>2 DEF IInv, Memoized, Profiled, Measured, Started, Tested
  <1>9. Settled'
    BY <1>2, <1>4, <1>8, SameWorld DEF IInv, Settled, Frozen
  <1>10. Growing'
    BY <1>2, <1>4, <1>8, SameWorld DEF IInv, Growing, Frozen
  <1>11. HashedFirst'
    BY <1>2, SameWorld DEF IInv, HashedFirst, Started
  <1>12. InOrder'
    BY <1>2, <1>4, <1>8, SameWorld DEF IInv, InOrder
  <1> QED BY <1>3, <1>6, <1>7, <1>9, <1>10, <1>11, <1>12 DEF IInv

(* Before the first start, or when a process is gone.                      *)
LEMMA DownIsFine ==
    ASSUME IInv, world' = world, disk' = disk, edits' = edits, runs' = runs,
           pc' = "down", resume' = "exit", loaded' = file', file' \in {file, loaded},
           opts' = [gen |-> file'.gen, detect |-> FALSE, single |-> FALSE],
           scope' = {}, memo' = EmptyFn, srcCache' = 0, coverage' = NoProfile,
           st' = [m \in Mutants |-> NoVerdict]
    PROVE  IInv'
  <1>1. CacheOK(file')
    BY DEF IInv, BothCaches
  <1>2. file'.gen \in Generations
    BY <1>1 DEF CacheOK
  <1>3. DOMAIN memo' = {} /\ 0 \in Contents
    BY WorldFacts DEF EmptyFn, IInv, Types, Contents
  <1>4. NoFiles \in [Files -> Contents]
    BY <1>3 DEF NoFiles
  <1>5. coverage' \in [keyed : BOOLEAN, key : [Files -> Contents], on : [Files -> Contents],
                       cached : BOOLEAN]
    BY <1>4 DEF NoProfile
  <1>6. st' \in [Mutants -> [status : Statuses, on : [Files -> Contents], replayed : BOOLEAN]]
    BY <1>4, StatusFacts DEF NoVerdict
  <1>7. Types'
    BY <1>2, <1>3, <1>5, <1>6, SameWorld DEF IInv, Types
  <1>8. BothCaches'
    BY <1>1, SameWorld DEF BothCaches, CacheOK, EntryOK
  <1>9. \A m \in Mutants : ~CanReuse(st'[m].status) /\ ~st'[m].replayed
    BY StatusFacts DEF NoVerdict
  <1>10. ~coverage'.keyed /\ ~coverage'.cached
    BY DEF NoProfile
  <1>11. Memoized' /\ Measured' /\ Profiled'
    BY <1>3, <1>9, <1>10, SameWorld DEF Memoized, Measured, Profiled, Started, Tested
  <1>12. Settled'
    BY <1>9, <1>10, SameWorld DEF IInv, Settled, Frozen
  <1>13. Growing'
    BY <1>3, <1>10, SameWorld DEF IInv, Growing, Frozen
  <1>14. HashedFirst'
    BY SameWorld DEF HashedFirst, Started
  <1>15. InOrder'
    BY <1>3, <1>9, SameWorld DEF IInv, InOrder
  <1> QED BY <1>7, <1>8, <1>11, <1>12, <1>13, <1>14, <1>15 DEF IInv

LEMMA ExitStep == ASSUME IInv, Exit, file' \in {file, loaded} PROVE IInv'
  BY DownIsFine DEF Exit, user

(* A checkpoint is written, or fails to be, and the run goes on.           *)
LEMMA SaveStep == ASSUME IInv, Save PROVE IInv'
  <1>1. file' \in {file, loaded}
    BY DEF Save, Written
  <1>2. CASE resume = "exit" /\ Exit
    BY <1>1, <1>2, ExitStep
  <1>3. CASE resume # "exit" /\ pc' = resume /\ UNCHANGED <<user, run, mem, resume>>
    <2>1. /\ pc = "save" /\ pc' \in {"run", "tce"} /\ world' = world
          /\ UNCHANGED <<disk, edits, runs, opts, scope, loaded, memo, srcCache, coverage, st, resume>>
      BY <1>3 DEF Save, user, run, mem, IInv, Types
    <2>2. Types'
      BY <2>1, SameWorld DEF IInv, Types, Frozen
    <2>3. BothCaches'
      BY <1>1, <2>1, SameWorld DEF IInv, BothCaches, CacheOK, EntryOK
    <2>4. Memoized' /\ Measured' /\ Profiled'
      BY <2>1, SameWorld DEF IInv, Memoized, Measured, Profiled, Started, Tested
    <2>5. Settled'
      BY <1>1, <2>1, SameWorld DEF IInv, Settled, Frozen
    <2>6. Growing'
      BY <1>1, <2>1, SameWorld DEF IInv, Growing, Frozen
    <2>7. HashedFirst'
      BY <2>1, SameWorld DEF IInv, HashedFirst, Started
    <2>8. InOrder'
      BY <1>1, <2>1, SameWorld DEF IInv, InOrder, Tested, Started
    <2> QED BY <2>2, <2>3, <2>4, <2>5, <2>6, <2>7, <2>8 DEF IInv
  <1> QED BY <1>2, <1>3 DEF Save

(* The pool, or the detector, is done.                                     *)
LEMMA EndStep == ASSUME IInv, EndTests \/ EndProofs PROVE IInv'
  <1>1. /\ pc \in {"run", "tce"} /\ pc' \in {"tce", "update"} /\ resume' \in {"run", "tce", "exit"}
        /\ world' = world
        /\ UNCHANGED <<disk, edits, file, runs, opts, scope, loaded, memo, srcCache, coverage, st>>
    BY DEF EndTests, EndProofs, Flush, user, run, mem, IInv, Types
  <1>2. Types'
    BY <1>1, SameWorld DEF IInv, Types, Frozen
  <1>3. BothCaches'
    BY <1>1, SameWorld DEF IInv, BothCaches, CacheOK, EntryOK
  <1>4. Memoized' /\ Measured' /\ Profiled'
    BY <1>1, SameWorld DEF IInv, Memoized, Measured, Profiled, Started, Tested
  <1>5. Settled' /\ Growing' /\ HashedFirst' /\ InOrder'
    BY <1>1, SameWorld DEF IInv, Settled, Growing, HashedFirst, InOrder, Frozen, Tested, Started
  <1> QED BY <1>2, <1>3, <1>4, <1>5 DEF IInv

(* The coverage key is hashed from the disk; a profile whose key that is   *)
(* is taken as it is.                                                      *)
LEMMA KeyStep == ASSUME IInv, Key PROVE IInv'
  <1> DEFINE keyed == KeyFiles \subseteq DOMAIN memo'
             key == [f \in Files |-> IF keyed /\ f \in KeyFiles THEN memo'[f] ELSE 0]
             hit == {p \in loaded.profile : keyed /\ \A f \in KeyFiles : p.key[f] = key[f]}
  <1>1. /\ pc = "key" /\ pc' \in {"cover", "discover"} /\ world' = world
        /\ memo' \in Memos(memo, disk["src"], KeyFiles)
        /\ UNCHANGED <<disk, edits, file, runs, opts, scope, loaded, srcCache, st, resume>>
    BY DEF Key, user, run
  <1>2. /\ DOMAIN memo = {} /\ ~coverage.keyed
        /\ \A m \in Mutants : ~CanReuse(st[m].status) /\ ~st[m].replayed
    BY <1>1 DEF IInv, Memoized, Profiled, Measured, Tested, Started
  <1>3. /\ DOMAIN memo' \subseteq Files /\ \A f \in DOMAIN memo' : memo'[f] = disk[f]
        /\ ~world.readsFail => DOMAIN memo' = Files
    <2>1. /\ Adds(memo, memo') /\ Reads(memo, memo', disk["src"])
          /\ DOMAIN memo' \subseteq DOMAIN memo \cup KeyFiles
          /\ ~world.readsFail => DOMAIN memo' = DOMAIN memo \cup KeyFiles
      BY <1>1, MemosAdd
    <2>2. \A f \in DOMAIN memo' : memo'[f] = IF f = "src" THEN disk["src"] ELSE disk[f]
      BY <1>2, <2>1 DEF Reads
    <2> QED BY <1>2, <2>1, <2>2, FileFacts
  <1>4. /\ key \in [Files -> Contents] /\ keyed \in BOOLEAN
        /\ keyed => \A f \in Files : key[f] = disk[f]
    <2>1. \A f \in Files : disk[f] \in Contents /\ 0 \in Contents
      BY WorldFacts DEF IInv, Types, Contents
    <2> QED BY <1>3, <2>1, FileFacts
  <1>5. \/ /\ \E p \in loaded.profile :
                 /\ \A f \in Files : p.key[f] = key[f]
                 /\ coverage' = [keyed |-> TRUE, key |-> key, on |-> p.on, cached |-> TRUE]
           /\ keyed /\ pc' = "discover"
        \/ /\ coverage' = [NoProfile EXCEPT !.keyed = keyed, !.key = key]
           /\ pc' = "cover"
    <2>1. CASE hit # {}
      <3>1. (CHOOSE p \in hit : TRUE) \in hit
        BY <2>1
      <3>2. keyed /\ pc' = "discover" /\ coverage' = [keyed |-> TRUE, key |-> key,
                 on |-> (CHOOSE p \in hit : TRUE).on, cached |-> TRUE]
        BY <2>1 DEF Key
      <3> QED BY <3>1, <3>2, FileFacts
    <2>2. CASE hit = {}
      BY <2>2 DEF Key
    <2> QED BY <2>1, <2>2
  <1> HIDE DEF keyed, key, hit
  <1>6. /\ coverage' \in [keyed : BOOLEAN, key : [Files -> Contents], on : [Files -> Contents],
                          cached : BOOLEAN]
        /\ coverage'.cached => coverage'.keyed
        /\ pc' = "cover" => ~coverage'.cached
        /\ coverage'.keyed => keyed /\ coverage'.key = key
        /\ pc' # "cover" => \E p \in loaded.profile :
             coverage'.on = p.on /\ \A f \in Files : p.key[f] = key[f]
    <2>1. CASE pc' = "discover"
      <3>1. PICK p \in loaded.profile :
                 /\ \A f \in Files : p.key[f] = key[f]
                 /\ coverage' = [keyed |-> TRUE, key |-> key, on |-> p.on, cached |-> TRUE]
                 /\ keyed
        BY <1>5, <2>1
      <3>2. p.on \in [Files -> Contents]
        BY DEF IInv, BothCaches, CacheOK, Profiles
      <3> QED BY <1>4, <2>1, <3>1, <3>2
    <2>2. CASE pc' = "cover"
      <3>1. coverage' = [keyed |-> keyed, key |-> key, on |-> NoFiles, cached |-> FALSE]
        BY <1>5, <2>2 DEF NoProfile
      <3>2. NoFiles \in [Files -> Contents]
        BY WorldFacts DEF NoFiles, IInv, Types, Contents
      <3> QED BY <1>4, <2>2, <3>1, <3>2
    <2> QED BY <1>1, <2>1, <2>2
  <1>7. Types'
    BY <1>1, <1>3, <1>6, SameWorld DEF IInv, Types, Frozen
  <1>8. BothCaches'
    BY <1>1, SameWorld DEF IInv, BothCaches, CacheOK, EntryOK
  <1>9. Memoized' /\ Measured' /\ Profiled'
    BY <1>1, <1>2, <1>6, SameWorld DEF IInv, Memoized, Measured, Profiled, Started, Tested
  <1>10. Settled'
    <2> SUFFICES ASSUME BetweenRuns PROVE Settled'
      BY <1>1, SameWorld DEF Settled
    <2>1. coverage'.keyed => \A f \in Files :
            coverage'.key[f] = disk[f] /\ (pc' # "cover" => coverage'.on[f] = disk[f])
      BY <1>4, <1>6 DEF IInv, Settled
    <2> QED BY <1>1, <1>2, <1>3, <2>1, SameWorld DEF IInv, Settled, Frozen
  <1>11. Growing'
    <2> SUFFICES ASSUME Forward PROVE Growing'
      BY <1>1, SameWorld DEF Growing
    <2>1. \A f \in Files : disk[f] \in Nat
      BY DEF IInv, Types, Contents
    <2>2. \A p \in loaded.profile : \A f \in Files : p.on[f] \in Nat /\ p.key[f] \in Nat
      BY DEF IInv, BothCaches, CacheOK, Profiles, Contents
    <2>3. coverage'.keyed /\ pc' # "cover" => \A f \in Files :
            coverage'.key[f] = disk[f] /\ coverage'.on[f] = disk[f]
      BY <1>4, <1>6, <2>1, <2>2 DEF IInv, Growing
    <2>4. \A f \in DOMAIN memo' : memo'[f] <= disk[f]
      BY <1>3, <2>1
    <2>5. coverage'.keyed => \A f \in Files :
            /\ coverage'.key[f] <= disk[f]
            /\ pc' # "cover" => coverage'.key[f] <= coverage'.on[f] /\ coverage'.on[f] <= disk[f]
            /\ coverage'.cached => coverage'.on[f] = coverage'.key[f]
      BY <1>4, <1>6, <2>1, <2>3
    <2> QED BY <1>1, <2>4, <2>5, SameWorld DEF IInv, Growing, Frozen
  <1>12. HashedFirst'
    BY <1>1, <1>3, SameWorld, FileFacts DEF HashedFirst, OwnSuite, Started
  <1>13. InOrder'
    BY <1>1, <1>2, <1>3, SameWorld DEF IInv, InOrder, Tested, Started
  <1> QED BY <1>7, <1>8, <1>9, <1>10, <1>11, <1>12, <1>13 DEF IInv

LEMMA CoverStep == ASSUME IInv, Cover PROVE IInv'
  <1>1. /\ pc = "cover" /\ pc' = "discover" /\ world' = world
        /\ coverage' = [coverage EXCEPT !.on = disk]
        /\ UNCHANGED <<disk, edits, file, runs, opts, scope, loaded, memo, srcCache, st, resume>>
    BY DEF Cover, user, run
  <1>2. /\ coverage' \in [keyed : BOOLEAN, key : [Files -> Contents], on : [Files -> Contents],
                          cached : BOOLEAN]
        /\ coverage'.on = disk /\ coverage'.key = coverage.key
        /\ coverage'.keyed = coverage.keyed /\ coverage'.cached = coverage.cached
    BY <1>1 DEF IInv, Types
  <1>3. Types'
    BY <1>1, <1>2, SameWorld DEF IInv, Types, Frozen
  <1>4. BothCaches'
    BY <1>1, SameWorld DEF IInv, BothCaches, CacheOK, EntryOK
  <1>5. ~coverage'.cached
    BY <1>1, <1>2 DEF IInv, Profiled
  <1>6. Memoized' /\ Measured' /\ Profiled'
    BY <1>1, <1>5, SameWorld DEF IInv, Memoized, Measured, Profiled, Started, Tested
  <1>7. Settled'
    BY <1>1, <1>2, SameWorld DEF IInv, Settled, Frozen
  <1>8. \A f \in Files : disk[f] \in Nat
    BY DEF IInv, Types, Contents
  <1>9. Growing'
    BY <1>1, <1>2, <1>5, <1>8, SameWorld DEF IInv, Growing, Frozen
  <1>10. HashedFirst' /\ InOrder'
    BY <1>1, SameWorld DEF IInv, HashedFirst, InOrder, Tested, Started
  <1> QED BY <1>3, <1>4, <1>6, <1>7, <1>9, <1>10 DEF IInv

(* The bytes of the mutated file are frozen.                               *)
LEMMA DiscoverStep == ASSUME IInv, Discover PROVE IInv'
  <1>1. /\ pc = "discover" /\ pc' = "freeze" /\ world' = world /\ srcCache' = disk["src"]
        /\ UNCHANGED <<disk, edits, file, runs, opts, scope, loaded, memo, coverage, resume>>
    BY DEF Discover, user, run
  <1>2. \A f \in Files : disk[f] \in Nat /\ disk[f] \in Contents
    BY DEF IInv, Types, Contents
  <1>3. PICK covered \in SUBSET scope :
          st' = [m \in Mutants |-> IF m \in scope \ covered
                                     THEN [NoVerdict EXCEPT !.status = NotCovered]
                                     ELSE NoVerdict]
    BY DEF Discover
  <1>4. /\ st' \in [Mutants -> [status : Statuses, on : [Files -> Contents], replayed : BOOLEAN]]
        /\ \A m \in Mutants : ~CanReuse(st'[m].status) /\ ~st'[m].replayed
    <2>1. NoFiles \in [Files -> Contents]
      BY WorldFacts DEF NoFiles, IInv, Types, Contents
    <2> DEFINE r == [NoVerdict EXCEPT !.status = NotCovered]
    <2>3. r.status = NotCovered /\ r.replayed = FALSE
      BY DEF NoVerdict
    <2>4. NoVerdict \in [status : Statuses, on : [Files -> Contents], replayed : BOOLEAN]
      BY <2>1, StatusFacts DEF NoVerdict
    <2>5. r \in [status : Statuses, on : [Files -> Contents], replayed : BOOLEAN]
      BY <2>4, StatusFacts DEF NoVerdict
    <2>6. ~CanReuse(NoVerdict.status) /\ ~NoVerdict.replayed
      BY StatusFacts DEF NoVerdict
    <2>7. ~CanReuse(r.status)
      BY <2>3, StatusFacts
    <2> HIDE DEF r
    <2>8. st' = [m \in Mutants |-> IF m \in scope \ covered THEN r ELSE NoVerdict]
      BY <1>3 DEF r
    <2> QED BY <2>3, <2>4, <2>5, <2>6, <2>7, <2>8
  <1>5. Types'
    BY <1>1, <1>2, <1>4, FileFacts, SameWorld DEF IInv, Types, Frozen
  <1>6. BothCaches'
    BY <1>1, SameWorld DEF IInv, BothCaches, CacheOK, EntryOK
  <1>7. Memoized' /\ Measured' /\ Profiled'
    BY <1>1, <1>4, SameWorld DEF IInv, Memoized, Measured, Profiled, Started, Tested
  <1>8. Settled'
    BY <1>1, <1>4, SameWorld DEF IInv, Settled
  <1>9. Growing'
    <2>1. srcCache' <= disk["src"]
      BY <1>1, <1>2, FileFacts
    <2> QED BY <1>1, <2>1, SameWorld DEF IInv, Growing
  <1>10. HashedFirst'
    BY <1>1, SameWorld DEF IInv, HashedFirst, Started
  <1>11. InOrder'
    BY <1>1, <1>4, GateFacts, SameWorld DEF IInv, InOrder, Tested, Started
  <1> QED BY <1>5, <1>6, <1>7, <1>8, <1>9, <1>10, <1>11 DEF IInv

(* SetSrcCache keeps the memos of the tests, and hashes the package anew.  *)
LEMMA FreezeStep == ASSUME IInv, Freeze PROVE IInv'
  <1>1. /\ pc = "freeze" /\ pc' = "lookup" /\ world' = world
        /\ memo' \in Memos(Kept(memo), srcCache, Pkg)
        /\ UNCHANGED <<disk, edits, file, runs, opts, scope, loaded, srcCache, coverage, st, resume>>
    BY DEF Freeze, user, run
  <1>2. DOMAIN Kept(memo) = DOMAIN memo \cap {"test"} /\ \A f \in DOMAIN Kept(memo) : Kept(memo)[f] = memo[f]
    BY DEF Kept, Restrict, Tests
  <1>3. /\ DOMAIN memo' \subseteq Files /\ "src" \in DOMAIN memo' /\ memo'["src"] = srcCache
        /\ \A f \in DOMAIN memo' \ {"src"} : memo'[f] = disk[f] \/ (f \in DOMAIN memo /\ memo'[f] = memo[f])
        /\ ~world.readsFail => DOMAIN memo' = (DOMAIN memo \cap {"test"}) \cup Pkg
    <2>1. /\ Adds(Kept(memo), memo') /\ Reads(Kept(memo), memo', srcCache)
          /\ DOMAIN memo' \subseteq DOMAIN Kept(memo) \cup Pkg
          /\ "src" \in Pkg => "src" \in DOMAIN memo'
          /\ ~world.readsFail => DOMAIN memo' = DOMAIN Kept(memo) \cup Pkg
      BY <1>1, MemosAdd
    <2>2. \A f \in DOMAIN Kept(memo) : f \in DOMAIN memo /\ f # "src" /\ memo'[f] = memo[f]
      BY <1>2, <2>1 DEF Adds
    <2>3. \A f \in DOMAIN memo' \ DOMAIN Kept(memo) :
            memo'[f] = IF f = "src" THEN srcCache ELSE disk[f]
      BY <2>1 DEF Reads
    <2>4. "src" \in Pkg
      BY DEF Pkg
    <2> QED BY <1>2, <2>1, <2>2, <2>3, <2>4, FileFacts
  <1>4. \A f \in DOMAIN memo' : memo'[f] \in Contents /\ memo'[f] \in Nat
    BY <1>3 DEF IInv, Types, Contents
  <1>5. \A m \in Mutants : ~CanReuse(st[m].status) /\ ~st[m].replayed
    BY <1>1 DEF IInv, Measured, Tested, Started
  <1>6. \A f \in Files : disk[f] \in Nat
    BY DEF IInv, Types, Contents
  <1>7. Types'
    BY <1>1, <1>3, <1>4, SameWorld DEF IInv, Types, Frozen
  <1>8. BothCaches'
    BY <1>1, SameWorld DEF IInv, BothCaches, CacheOK, EntryOK
  <1>9. Memoized' /\ Measured' /\ Profiled'
    BY <1>1, <1>3, <1>5, SameWorld DEF IInv, Memoized, Measured, Profiled, Started, Tested
  <1>10. Settled'
    <2>1. BetweenRuns => \A f \in DOMAIN memo' : memo'[f] = disk[f]
      BY <1>1, <1>3 DEF IInv, Settled, Frozen
    <2> QED BY <1>1, <1>5, <2>1, SameWorld DEF IInv, Settled, Frozen
  <1>11. Growing'
    <2>1. Forward => \A f \in DOMAIN memo' : memo'[f] <= disk[f]
      BY <1>1, <1>3, <1>6 DEF IInv, Growing, Frozen
    <2> QED BY <1>1, <2>1, SameWorld DEF IInv, Growing, Frozen
  <1>12. HashedFirst'
    BY <1>1, <1>3, FileFacts, SameWorld DEF IInv, HashedFirst, OwnSuite, Pkg
  <1>13. InOrder'
    <2> SUFFICES ASSUME OwnSuite PROVE InOrder'
      BY <1>1, SameWorld DEF InOrder
    <2>1. \A m \in DOMAIN loaded.entries :
            \A f \in Decides(loaded.entries[m].status) \cap DOMAIN memo' :
                loaded.entries[m].on[f] <= memo'[f]
      BY <1>1, <1>3 DEF IInv, InOrder, Tested, Started
    <2> QED BY <1>1, <1>5, <2>1, SameWorld DEF IInv, InOrder, Tested, Started
  <1> QED BY <1>7, <1>8, <1>9, <1>10, <1>11, <1>12, <1>13 DEF IInv

(* What is hashed after the freeze adds to the memos, and agrees with them.*)
LEMMA LaterMemos ==
    ASSUME IInv, pc \in Started, NEW new, Adds(memo, new), Reads(memo, new, srcCache),
           DOMAIN new \subseteq Files
    PROVE  /\ "src" \in DOMAIN new /\ new["src"] = srcCache
           /\ \A f \in DOMAIN memo : f \in DOMAIN new /\ new[f] = memo[f]
           /\ \A f \in DOMAIN new : new[f] \in Contents /\ new[f] \in Nat
           /\ BetweenRuns => \A f \in DOMAIN new : new[f] = disk[f]
           /\ Forward => \A f \in DOMAIN new : new[f] <= disk[f]
           /\ OwnSuite => Files \subseteq DOMAIN memo /\ Files \subseteq DOMAIN new
  <1>1. /\ \A f \in DOMAIN memo : f \in DOMAIN new /\ new[f] = memo[f]
        /\ \A f \in DOMAIN new \ DOMAIN memo : new[f] = IF f = "src" THEN srcCache ELSE disk[f]
    BY DEF Adds, Reads
  <1>2. "src" \in DOMAIN memo /\ memo["src"] = srcCache
    BY DEF IInv, Memoized
  <1>3. \A f \in DOMAIN new : f \in DOMAIN memo \/ new[f] = disk[f]
    BY <1>1, <1>2
  <1>4. \A f \in Files : disk[f] \in Contents /\ disk[f] \in Nat
    BY DEF IInv, Types, Contents
  <1>5. \A f \in DOMAIN new : new[f] \in Contents /\ new[f] \in Nat
    BY <1>1, <1>3, <1>4 DEF IInv, Types, Contents
  <1>6. BetweenRuns => \A f \in DOMAIN new : new[f] = disk[f]
    BY <1>1, <1>3 DEF IInv, Settled, Started
  <1>7. Forward => \A f \in DOMAIN new : new[f] <= disk[f]
    BY <1>1, <1>3, <1>4 DEF IInv, Growing
  <1>8. OwnSuite => Files \subseteq DOMAIN memo
    BY DEF IInv, HashedFirst
  <1> QED BY <1>1, <1>2, <1>5, <1>6, <1>7, <1>8

(* What is replayed decides the same as its entry.                         *)
LEMMA ReplayedFacts ==
    ASSUME NEW e, EntryOK(e)
    PROVE  /\ Replayed(e).on = e.on /\ Replayed(e).replayed = TRUE
           /\ CanReuse(Replayed(e).status)
           /\ Decides(Replayed(e).status) = Decides(e.status)
           /\ Gates(Replayed(e).status) = Gates(e.status)
           /\ Replayed(e) \in [status : Statuses, on : [Files -> Contents], replayed : BOOLEAN]
  <1>1. /\ Replayed(e).on = e.on /\ Replayed(e).replayed = TRUE
        /\ Replayed(e).status = IF e.status = Equivalent /\ ~opts.detect THEN Lived ELSE e.status
    BY DEF Replayed
  <1>2. CanReuse(e.status) /\ e.on \in [Files -> Contents]
    BY DEF EntryOK
  <1>3. /\ CanReuse(Replayed(e).status)
        /\ Decides(Replayed(e).status) = Decides(e.status)
        /\ Gates(Replayed(e).status) = Gates(e.status)
    BY <1>1, <1>2, StatusFacts
  <1>4. Replayed(e).status \in Statuses
    BY <1>3, GateFacts
  <1>5. Replayed(e) = [status |-> Replayed(e).status, on |-> Replayed(e).on,
                       replayed |-> Replayed(e).replayed]
    BY DEF Replayed
  <1> QED BY <1>1, <1>2, <1>3, <1>4, <1>5

LEMMA Singleton ==
    ASSUME NEW x
    PROVE  Cardinality({x}) = 1
  BY FS_Singleton

(* Lookup hashes the package of the entries, then their tests where the    *)
(* package is the same.                                                    *)
LEMMA LookupFacts ==
    ASSUME IInv, Lookup
    PROVE  /\ Adds(memo, memo') /\ Reads(memo, memo', srcCache) /\ DOMAIN memo' \subseteq Files
           /\ ~world.readsFail => \A m \in Found :
                /\ PkgKnown(memo')
                /\ SamePkg(loaded.entries[m], memo') =>
                       Gates(loaded.entries[m].status) \subseteq DOMAIN memo'
  <1> DEFINE S == IF Found = {} THEN {} ELSE Pkg
  <1>1. PICK known \in Memos(memo, srcCache, S) :
          memo' \in GateMemos(known, {loaded.entries[m].status : m \in Candidates(known)})
    BY DEF Lookup, PkgMemos
  <1> DEFINE T == UNION {Gates(s) : s \in {loaded.entries[m].status : m \in Candidates(known)}}
  <1>2. memo' \in Memos(known, srcCache, T)
    BY <1>1 DEF GateMemos
  <1>3. S \subseteq Files
    BY FileFacts
  <1>4. T \subseteq Files
    <2>1. \A s : Gates(s) \subseteq Files
      BY GateFacts
    <2> QED BY <2>1
  <1>5. (Found # {} => S = Pkg) /\ \A m \in Candidates(known) : Gates(loaded.entries[m].status) \subseteq T
    OBVIOUS
  <1> HIDE DEF S, T
  <1>6. /\ Adds(memo, known) /\ Reads(memo, known, srcCache) /\ DOMAIN known \subseteq DOMAIN memo \cup S
        /\ ~world.readsFail => DOMAIN known = DOMAIN memo \cup S
    BY <1>1, MemosAdd
  <1>7. /\ Adds(known, memo') /\ Reads(known, memo', srcCache) /\ DOMAIN memo' \subseteq DOMAIN known \cup T
        /\ ~world.readsFail => DOMAIN memo' = DOMAIN known \cup T
    BY <1>2, MemosAdd
  <1>8. Adds(memo, memo') /\ Reads(memo, memo', srcCache) /\ DOMAIN memo' \subseteq Files
    <2>1. DOMAIN memo \subseteq Files
      BY DEF IInv, Types
    <2> QED BY <1>3, <1>4, <1>6, <1>7, <2>1, AddsTwice
  <1>9. ASSUME ~world.readsFail, NEW m \in Found
        PROVE  /\ PkgKnown(memo')
               /\ SamePkg(loaded.entries[m], memo') =>
                      Gates(loaded.entries[m].status) \subseteq DOMAIN memo'
    <2>1. Pkg \subseteq DOMAIN known /\ Pkg \subseteq DOMAIN memo'
      BY <1>5, <1>6, <1>7, <1>9
    <2>2. \A f \in Pkg : known[f] = memo'[f]
      BY <1>7, <2>1 DEF Adds
    <2>3. SamePkg(loaded.entries[m], memo') => m \in Candidates(known)
      BY <1>9, <2>1, <2>2 DEF SamePkg, PkgKnown, Candidates
    <2> QED BY <1>5, <1>7, <1>9, <2>1, <2>3 DEF PkgKnown
  <1> QED BY <1>8, <1>9

(* A hit: its entry agrees with the memos on all that decides it.          *)
LEMMA LookupStep == ASSUME IInv, Lookup PROVE IInv'
  <1> DEFINE hits == {m \in Candidates(memo') : Same(loaded.entries[m], memo')}
  <1>1. /\ pc = "lookup" /\ pc' = "run" /\ world' = world
        /\ UNCHANGED <<disk, edits, file, runs, opts, scope, srcCache, coverage, resume>>
        /\ st' = [m \in Mutants |-> IF m \in hits THEN Replayed(loaded.entries[m]) ELSE st[m]]
        /\ loaded' = IF coverage.cached \/ ~coverage.keyed THEN loaded
                     ELSE [loaded EXCEPT !.profile = {[key |-> coverage.key, on |-> coverage.on]}]
    BY DEF Lookup, user, run
  <1>2. Adds(memo, memo') /\ Reads(memo, memo', srcCache) /\ DOMAIN memo' \subseteq Files
    BY LookupFacts
  <1>3. /\ "src" \in DOMAIN memo' /\ memo'["src"] = srcCache
        /\ \A f \in DOMAIN memo : f \in DOMAIN memo' /\ memo'[f] = memo[f]
        /\ \A f \in DOMAIN memo' : memo'[f] \in Contents /\ memo'[f] \in Nat
        /\ BetweenRuns => \A f \in DOMAIN memo' : memo'[f] = disk[f]
        /\ Forward => \A f \in DOMAIN memo' : memo'[f] <= disk[f]
        /\ OwnSuite => Files \subseteq DOMAIN memo /\ Files \subseteq DOMAIN memo'
    BY <1>1, <1>2, LaterMemos DEF Started
  <1>4. \A m \in hits :
          /\ m \in DOMAIN loaded.entries /\ EntryOK(loaded.entries[m])
          /\ \A f \in Gates(loaded.entries[m].status) :
               /\ f \in DOMAIN loaded.entries[m].hash /\ f \in DOMAIN memo'
               /\ loaded.entries[m].hash[f] = memo'[f]
    BY DEF Candidates, Found, Same, IInv, BothCaches, CacheOK
  <1>5. \A m \in Mutants : ~CanReuse(st[m].status) /\ ~st[m].replayed
    BY <1>1 DEF IInv, Measured, Tested, Started
  <1> HIDE DEF hits
  <1>6. \A m \in Mutants : CanReuse(st'[m].status) \/ st'[m].replayed =>
          \E e \in {loaded.entries[x] : x \in DOMAIN loaded.entries} :
            /\ EntryOK(e) /\ st'[m] = Replayed(e)
            /\ m \in DOMAIN loaded.entries /\ e = loaded.entries[m]
            /\ \A f \in Gates(e.status) :
                 f \in DOMAIN e.hash /\ f \in DOMAIN memo' /\ e.hash[f] = memo'[f]
    BY <1>1, <1>4, <1>5
  <1>7. \A m \in Mutants : CanReuse(st'[m].status) \/ st'[m].replayed =>
          /\ m \in DOMAIN loaded.entries /\ st'[m].on = loaded.entries[m].on
          /\ CanReuse(st'[m].status) /\ Gates(st'[m].status) \subseteq DOMAIN memo'
          /\ Decides(st'[m].status) = Decides(loaded.entries[m].status)
          /\ "src" \in Gates(st'[m].status)
          /\ loaded.entries[m].hash["src"] = loaded.entries[m].on["src"]
          /\ Decides(st'[m].status) \subseteq Gates(st'[m].status)
          /\ \A f \in Gates(st'[m].status) : f \in DOMAIN loaded.entries[m].hash
                                              /\ loaded.entries[m].hash[f] = memo'[f]
    <2> TAKE m \in Mutants
    <2> HAVE CanReuse(st'[m].status) \/ st'[m].replayed
    <2>1. PICK e \in {loaded.entries[x] : x \in DOMAIN loaded.entries} :
            /\ EntryOK(e) /\ st'[m] = Replayed(e)
            /\ m \in DOMAIN loaded.entries /\ e = loaded.entries[m]
            /\ \A f \in Gates(e.status) :
                 f \in DOMAIN e.hash /\ f \in DOMAIN memo' /\ e.hash[f] = memo'[f]
      BY <1>6
    <2>2. /\ st'[m].on = e.on /\ CanReuse(st'[m].status)
          /\ Decides(st'[m].status) = Decides(e.status) /\ Gates(st'[m].status) = Gates(e.status)
      BY <2>1, ReplayedFacts
    <2>3. "src" \in Gates(st'[m].status) /\ Decides(st'[m].status) \subseteq Gates(st'[m].status)
      BY <2>2, GateFacts
    <2>4. e.hash["src"] = e.on["src"]
      BY <2>1 DEF EntryOK
    <2> QED BY <2>1, <2>2, <2>3, <2>4
  <1>8. st' \in [Mutants -> [status : Statuses, on : [Files -> Contents], replayed : BOOLEAN]]
    <2>1. \A m \in hits : Replayed(loaded.entries[m])
              \in [status : Statuses, on : [Files -> Contents], replayed : BOOLEAN]
      BY <1>4, ReplayedFacts
    <2> QED BY <1>1, <2>1 DEF IInv, Types
  <1>9. Types'
    BY <1>1, <1>2, <1>3, <1>8, SameWorld DEF IInv, Types, Frozen
  <1>10. /\ loaded'.gen = loaded.gen /\ loaded'.entries = loaded.entries
         /\ \/ loaded'.profile = loaded.profile
            \/ /\ coverage.keyed /\ ~coverage.cached
               /\ loaded'.profile = {[key |-> coverage.key, on |-> coverage.on]}
         /\ loaded' = [gen |-> loaded'.gen, entries |-> loaded'.entries, profile |-> loaded'.profile]
    <2>1. loaded = [gen |-> loaded.gen, entries |-> loaded.entries, profile |-> loaded.profile]
      BY DEF IInv, BothCaches, CacheOK
    <2>2. CASE coverage.cached \/ ~coverage.keyed
      BY <1>1, <2>1, <2>2
    <2>3. CASE ~(coverage.cached \/ ~coverage.keyed)
      <3>1. loaded' = [loaded EXCEPT !.profile = {[key |-> coverage.key, on |-> coverage.on]}]
        BY <1>1, <2>3
      <3>2. loaded' = [gen |-> loaded.gen, entries |-> loaded.entries,
                       profile |-> {[key |-> coverage.key, on |-> coverage.on]}]
        BY <2>1, <3>1
      <3> QED BY <2>3, <3>2
    <2> QED BY <2>2, <2>3
  <1>11. CacheOK(loaded')
    <2>1. coverage.key \in [Files -> Contents] /\ coverage.on \in [Files -> Contents]
      BY DEF IInv, Types
    <2>2. [key |-> coverage.key, on |-> coverage.on] \in Profiles
      BY <2>1 DEF Profiles
    <2>3. CacheOK(loaded)
      BY DEF IInv, BothCaches
    <2>4. Cardinality(loaded'.profile) <= 1 /\ loaded'.profile \subseteq Profiles
      <3>1. \A x : Cardinality({x}) <= 1
        <4> TAKE x
        <4>1. Cardinality({x}) = 1
          BY Singleton
        <4> QED BY <4>1
      <3>2. CASE loaded'.profile = loaded.profile
        BY <2>3, <3>2 DEF CacheOK
      <3>3. CASE loaded'.profile = {[key |-> coverage.key, on |-> coverage.on]}
        BY <2>2, <3>1, <3>3
      <3> QED BY <1>10, <3>2, <3>3
    <2> QED BY <1>10, <2>3, <2>4 DEF CacheOK
  <1>12. BothCaches'
    BY <1>1, <1>10, <1>11, SameWorld DEF IInv, BothCaches, CacheOK, EntryOK
  <1>13. Memoized' /\ Profiled'
    BY <1>1, <1>3 DEF IInv, Memoized, Profiled
  <1>14. Measured'
    <2>1. \A m \in Mutants : CanReuse(st'[m].status) => st'[m].on["src"] = srcCache
      BY <1>3, <1>7
    <2>2. \A m \in Mutants : st'[m].replayed =>
            CanReuse(st'[m].status) /\ Gates(st'[m].status) \subseteq DOMAIN memo'
      BY <1>7
    <2> QED BY <1>1, <2>1, <2>2, SameWorld DEF Measured, Tested, Started
  <1>15. Settled'
    <2> SUFFICES ASSUME BetweenRuns PROVE Settled'
      BY <1>1, SameWorld DEF Settled
    <2>1. \A p \in loaded'.profile : \A f \in Files : p.key[f] = p.on[f]
      BY <1>1, <1>10 DEF IInv, Settled
    <2>2. \A m \in Mutants : CanReuse(st'[m].status) =>
            \A f \in Decides(st'[m].status) : st'[m].on[f] = disk[f]
      <3> SUFFICES ASSUME NEW m \in Mutants, CanReuse(st'[m].status), NEW f \in Decides(st'[m].status)
                   PROVE  st'[m].on[f] = disk[f]
        OBVIOUS
      <3>1. f \in DOMAIN memo' /\ memo'[f] = disk[f] /\ loaded.entries[m].hash[f] = memo'[f]
        BY <1>3, <1>7
      <3>2. f \in Decides(loaded.entries[m].status) \cap DOMAIN loaded.entries[m].hash
        BY <1>7
      <3>3. loaded.entries[m].hash[f] = loaded.entries[m].on[f]
        BY <1>7, <3>2 DEF IInv, Settled
      <3> QED BY <1>7, <3>1, <3>3
    <2> QED BY <1>1, <1>3, <1>10, <2>1, <2>2, SameWorld DEF IInv, Settled, Frozen
  <1>16. Growing'
    <2> SUFFICES ASSUME Forward PROVE Growing'
      BY <1>1, SameWorld DEF Growing
    <2>1. \A p \in loaded'.profile : \A f \in Files : p.key[f] <= p.on[f] /\ p.on[f] <= disk[f]
      BY <1>1, <1>10 DEF IInv, Growing
    <2> QED BY <1>1, <1>3, <2>1, SameWorld DEF IInv, Growing, Frozen
  <1>17. HashedFirst'
    BY <1>1, <1>3, SameWorld DEF HashedFirst, Started
  <1>18. InOrder'
    <2> SUFFICES ASSUME OwnSuite PROVE InOrder'
      BY <1>1, SameWorld DEF InOrder
    <2>1. ASSUME NEW m \in Mutants, CanReuse(st'[m].status), NEW f \in Decides(st'[m].status)
          PROVE  st'[m].on[f] = memo'[f] /\ memo'[f] <= st'[m].on[f] /\ st'[m].on[f] <= disk[f]
      <3> DEFINE e == loaded.entries[m]
      <3>1. /\ m \in DOMAIN loaded.entries /\ st'[m].on = e.on /\ f \in Decides(e.status)
            /\ f \in DOMAIN e.hash /\ e.hash[f] = memo'[f] /\ f \in Files
        BY <1>7, <2>1, GateFacts
      <3>2. f \in DOMAIN memo /\ memo'[f] = memo[f]
        BY <1>3, <3>1
      <3>3. e.on[f] <= disk[f] /\ e.hash[f] <= e.on[f] /\ e.on[f] <= memo[f]
        BY <1>1, <3>1, <3>2 DEF IInv, InOrder, Tested, Started
      <3>4. e.on[f] \in Nat /\ memo'[f] \in Nat
        BY <1>3, <3>1 DEF IInv, BothCaches, CacheOK, EntryOK, Contents
      <3> QED BY <3>1, <3>2, <3>3, <3>4
    <2> QED BY <1>1, <1>10, <2>1, SameWorld DEF IInv, InOrder, Tested, Started
  <1> QED BY <1>9, <1>12, <1>13, <1>14, <1>15, <1>16, <1>17, <1>18 DEF IInv

(* A mutant is tested on the frozen bytes, and on the disk.                *)
LEMMA TestStep == ASSUME IInv, NEW m \in Mutants, Test(m) PROVE IInv'
  <1>1. /\ pc = "run" /\ pc' \in {"run", "update"} /\ resume' = "run" /\ world' = world
        /\ UNCHANGED <<disk, edits, file, runs, opts, scope, loaded, memo, srcCache, coverage>>
    BY DEF Test, Checkpoint, user, run
  <1>2. PICK v \in Verdicts :
          st' = [st EXCEPT ![m] = [status |-> v, on |-> [disk EXCEPT !["src"] = srcCache],
                                   replayed |-> FALSE]]
    BY DEF Test
  <1> DEFINE on == [disk EXCEPT !["src"] = srcCache]
  <1>3. /\ on \in [Files -> Contents] /\ on["src"] = srcCache
        /\ \A f \in Files \ {"src"} : on[f] = disk[f]
    BY FileFacts DEF IInv, Types
  <1> HIDE DEF on
  <1>4. st' = [st EXCEPT ![m] = [status |-> v, on |-> on, replayed |-> FALSE]]
    BY <1>2 DEF on
  <1>5. /\ st' \in [Mutants -> [status : Statuses, on : [Files -> Contents], replayed : BOOLEAN]]
        /\ st'[m].on = on /\ ~st'[m].replayed
        /\ \A n \in Mutants \ {m} : st'[n] = st[n]
    BY <1>3, <1>4, StatusFacts DEF IInv, Types
  <1>6. Types'
    BY <1>1, <1>5, SameWorld DEF IInv, Types, Frozen
  <1>7. BothCaches'
    BY <1>1, SameWorld DEF IInv, BothCaches, CacheOK, EntryOK
  <1>8. Memoized' /\ Profiled'
    BY <1>1 DEF IInv, Memoized, Profiled, Started
  <1>9. Measured'
    BY <1>1, <1>3, <1>5, SameWorld DEF IInv, Measured, Tested, Started
  <1>10. Settled'
    <2>1. BetweenRuns => \A f \in Files : on[f] = disk[f]
      BY <1>1, <1>3 DEF IInv, Settled, Frozen
    <2>2. \A s : Decides(s) \subseteq Files
      BY GateFacts
    <2> QED BY <1>1, <1>5, <2>1, <2>2, SameWorld DEF IInv, Settled, Frozen
  <1>11. Growing'
    BY <1>1, SameWorld DEF IInv, Growing, Frozen
  <1>12. HashedFirst'
    BY <1>1, SameWorld DEF IInv, HashedFirst, Started
  <1>13. InOrder'
    <2> SUFFICES ASSUME OwnSuite PROVE InOrder'
      BY <1>1, SameWorld DEF InOrder
    <2>1. \A f \in Files : disk[f] \in Nat
      BY DEF IInv, Types, Contents
    <2>2. \A f \in Files : f \in DOMAIN memo /\ memo[f] <= disk[f]
      BY <1>1 DEF IInv, HashedFirst, Growing, OwnSuite, Started
    <2>3. memo["src"] = srcCache /\ srcCache \in Nat /\ srcCache <= disk["src"]
      BY <1>1 DEF IInv, Memoized, Growing, OwnSuite, Started, Frozen, Types, Contents
    <2>4. \A f \in Files : memo[f] <= on[f] /\ on[f] <= disk[f]
      BY <1>3, <2>1, <2>2, <2>3
    <2>5. \A s : Decides(s) \subseteq Files
      BY GateFacts
    <2> QED BY <1>1, <1>5, <2>4, <2>5, SameWorld DEF IInv, InOrder, Tested, Started
  <1> QED BY <1>6, <1>7, <1>8, <1>9, <1>10, <1>11, <1>12, <1>13 DEF IInv

(* A survivor is compiled anew: its package counts as it is now.           *)
LEMMA ProveStep == ASSUME IInv, NEW m \in Mutants, Prove(m) PROVE IInv'
  <1>1. /\ pc = "tce" /\ pc' \in {"tce", "update"} /\ resume' = "tce" /\ world' = world
        /\ st[m].status = Lived
        /\ UNCHANGED <<disk, edits, file, runs, opts, scope, loaded, memo, srcCache, coverage>>
    BY DEF Prove, Checkpoint, user, run
  <1> DEFINE on == [st[m].on EXCEPT !["src"] = srcCache, !["sib"] = disk["sib"]]
  <1>2. st[m] \in [status : Statuses, on : [Files -> Contents], replayed : BOOLEAN]
    BY DEF IInv, Types
  <1>3. /\ on \in [Files -> Contents] /\ on["src"] = srcCache /\ on["sib"] = disk["sib"]
        /\ \A f \in Files \ {"src", "sib"} : on[f] = st[m].on[f]
    BY <1>2, FileFacts DEF IInv, Types
  <1> DEFINE proved == [st[m] EXCEPT !.status = Equivalent, !.on = on, !.replayed = FALSE]
  <1>4. st' = [st EXCEPT ![m] = proved]
    BY DEF Prove, IInv, Types
  <1> HIDE DEF on
  <1>5. /\ proved \in [status : Statuses, on : [Files -> Contents], replayed : BOOLEAN]
        /\ proved.status = Equivalent /\ proved.on = on /\ proved.replayed = FALSE
    BY <1>2, <1>3, StatusFacts
  <1> HIDE DEF proved
  <1>6. /\ st' \in [Mutants -> [status : Statuses, on : [Files -> Contents], replayed : BOOLEAN]]
        /\ st'[m].on = on /\ ~st'[m].replayed /\ st'[m].status = Equivalent
        /\ \A n \in Mutants \ {m} : st'[n] = st[n]
    BY <1>3, <1>4, <1>5, StatusFacts DEF IInv, Types
  <1>7. Types'
    BY <1>1, <1>6, SameWorld DEF IInv, Types, Frozen
  <1>8. BothCaches'
    BY <1>1, SameWorld DEF IInv, BothCaches, CacheOK, EntryOK
  <1>9. Memoized' /\ Profiled'
    BY <1>1 DEF IInv, Memoized, Profiled, Started
  <1>10. Measured'
    BY <1>1, <1>3, <1>6, SameWorld DEF IInv, Measured, Tested, Started
  <1>11. CanReuse(st[m].status) /\ Decides(st[m].status) = Files /\ Decides(Equivalent) = Files
    BY <1>1, StatusFacts
  <1>12. Settled'
    <2>1. BetweenRuns => \A f \in Files : on[f] = disk[f]
      BY <1>1, <1>3, <1>11, FileFacts DEF IInv, Settled, Frozen
    <2> QED BY <1>1, <1>6, <1>11, <2>1, SameWorld DEF IInv, Settled, Frozen
  <1>13. Growing'
    BY <1>1, SameWorld DEF IInv, Growing, Frozen
  <1>14. HashedFirst'
    BY <1>1, SameWorld DEF IInv, HashedFirst, Started
  <1>15. InOrder'
    <2> SUFFICES ASSUME OwnSuite PROVE InOrder'
      BY <1>1, SameWorld DEF InOrder
    <2>1. \A f \in Files : disk[f] \in Nat
      BY DEF IInv, Types, Contents
    <2>2. \A f \in Files : f \in DOMAIN memo /\ memo[f] <= disk[f]
      BY <1>1 DEF IInv, HashedFirst, Growing, OwnSuite, Started
    <2>3. memo["src"] = srcCache /\ srcCache \in Nat /\ srcCache <= disk["src"]
      BY <1>1 DEF IInv, Memoized, Growing, OwnSuite, Started, Frozen, Types, Contents
    <2>4. \A f \in Files : memo[f] <= st[m].on[f] /\ st[m].on[f] <= disk[f]
      BY <1>11 DEF IInv, InOrder
    <2>5. \A f \in Files : memo[f] <= on[f] /\ on[f] <= disk[f]
      BY <1>3, <2>1, <2>2, <2>3, <2>4
    <2> QED BY <1>1, <1>6, <1>11, <2>5, SameWorld DEF IInv, InOrder, Tested, Started
  <1> QED BY <1>7, <1>8, <1>9, <1>10, <1>12, <1>13, <1>14, <1>15 DEF IInv

(* What Update stores of a verdict.                                        *)
LEMMA EntryFacts ==
    ASSUME NEW m, NEW known, PkgKnown(known)
    PROVE  /\ EntryOf(m, known).status = st[m].status /\ EntryOf(m, known).on = st[m].on
           /\ EntryOf(m, known).gen = opts.gen
           /\ DOMAIN EntryOf(m, known).hash \subseteq DOMAIN known
           /\ "src" \in DOMAIN EntryOf(m, known).hash
           /\ \A f \in DOMAIN EntryOf(m, known).hash : EntryOf(m, known).hash[f] = known[f]
  <1> DEFINE gates == Gates(st[m].status)
             kept == IF gates \subseteq DOMAIN known THEN gates ELSE gates \cap Pkg
  <1>1. Pkg \subseteq DOMAIN known
    BY DEF PkgKnown
  <1>2. kept \subseteq DOMAIN known /\ "src" \in kept
    BY <1>1, GateFacts DEF Pkg
  <1>3. /\ EntryOf(m, known).status = st[m].status /\ EntryOf(m, known).on = st[m].on
        /\ EntryOf(m, known).gen = opts.gen /\ EntryOf(m, known).hash = Restrict(known, kept)
    BY DEF EntryOf
  <1> HIDE DEF kept
  <1>4. DOMAIN Restrict(known, kept) = kept /\ \A f \in kept : Restrict(known, kept)[f] = known[f]
    BY DEF Restrict
  <1> QED BY <1>2, <1>3, <1>4

(* Update hashes what it stores, then what it carries over.                *)
Stores(known, mine) ==
    /\ Adds(memo, known) /\ Reads(memo, known, srcCache) /\ DOMAIN known \subseteq Files
    /\ Adds(known, memo')
    /\ Adds(memo, memo') /\ Reads(memo, memo', srcCache) /\ DOMAIN memo' \subseteq Files
    /\ mine \subseteq Stored /\ \A m \in mine : PkgKnown(known)
    /\ loaded' = [loaded EXCEPT !.entries =
                    [m \in mine \cup Carried(memo') |->
                       IF m \in mine THEN EntryOf(m, known) ELSE loaded.entries[m]]]

LEMMA UpdateFacts == ASSUME IInv, Update PROVE \E known, mine : Stores(known, mine)
  <1> DEFINE stored(pkg) == {m \in Stored : PkgKnown(pkg)}
             rest(pkg) == IF world.resolves THEN DOMAIN loaded.entries \ stored(pkg) ELSE {}
  <1>1. PICK pkg \in PkgMemos(memo, Stored) :
          \E known \in GateMemos(pkg, {st[m].status : m \in stored(pkg)}) :
             /\ memo' \in PkgMemos(known, rest(pkg))
             /\ loaded' = [loaded EXCEPT !.entries =
                             [m \in stored(pkg) \cup Carried(memo') |->
                                IF m \in stored(pkg) THEN EntryOf(m, known) ELSE loaded.entries[m]]]
    BY DEF Update
  <1>2. PICK known \in GateMemos(pkg, {st[m].status : m \in stored(pkg)}) :
             /\ memo' \in PkgMemos(known, rest(pkg))
             /\ loaded' = [loaded EXCEPT !.entries =
                             [m \in stored(pkg) \cup Carried(memo') |->
                                IF m \in stored(pkg) THEN EntryOf(m, known) ELSE loaded.entries[m]]]
    BY <1>1
  <1>3. \A S : (IF S = {} THEN {} ELSE Pkg) \subseteq Files
    BY FileFacts
  <1>4. Adds(memo, pkg) /\ Reads(memo, pkg, srcCache) /\ DOMAIN pkg \subseteq Files
    <2> DEFINE S == IF Stored = {} THEN {} ELSE Pkg
    <2>1. pkg \in Memos(memo, srcCache, S)
      BY <1>1 DEF PkgMemos
    <2>2. S \subseteq Files
      BY <1>3
    <2> HIDE DEF S
    <2> QED BY <2>1, <2>2, MemosAdd DEF IInv, Types
  <1>5. /\ Adds(memo, known) /\ Reads(memo, known, srcCache) /\ DOMAIN known \subseteq Files
        /\ DOMAIN pkg \subseteq DOMAIN known
    <2> DEFINE T == UNION {Gates(s) : s \in {st[m].status : m \in stored(pkg)}}
    <2>1. known \in Memos(pkg, srcCache, T)
      BY <1>2 DEF GateMemos
    <2>2. \A s : Gates(s) \subseteq Files
      BY GateFacts
    <2>3. T \subseteq Files
      BY <2>2
    <2> HIDE DEF T
    <2>4. Adds(pkg, known) /\ Reads(pkg, known, srcCache) /\ DOMAIN known \subseteq DOMAIN pkg \cup T
      BY <2>1, MemosAdd
    <2>5. DOMAIN pkg \subseteq DOMAIN known
      BY <2>4 DEF Adds
    <2> QED BY <1>4, <2>3, <2>4, <2>5, AddsTwice
  <1>6. /\ Adds(known, memo') /\ Adds(memo, memo') /\ Reads(memo, memo', srcCache)
        /\ DOMAIN memo' \subseteq Files
    <2> DEFINE S == IF rest(pkg) = {} THEN {} ELSE Pkg
    <2>1. memo' \in Memos(known, srcCache, S)
      BY <1>2 DEF PkgMemos
    <2>2. S \subseteq Files
      BY <1>3
    <2> HIDE DEF S
    <2>3. Adds(known, memo') /\ Reads(known, memo', srcCache) /\ DOMAIN memo' \subseteq DOMAIN known \cup S
      BY <2>1, MemosAdd
    <2> QED BY <1>5, <2>2, <2>3, AddsTwice
  <1>7. stored(pkg) \subseteq Stored /\ \A m \in stored(pkg) : PkgKnown(known)
    BY <1>5 DEF PkgKnown
  <1> DEFINE mine == stored(pkg)
  <1>8. loaded' = [loaded EXCEPT !.entries =
                     [m \in mine \cup Carried(memo') |->
                        IF m \in mine THEN EntryOf(m, known) ELSE loaded.entries[m]]]
    BY <1>2
  <1>9. mine \subseteq Stored /\ \A m \in mine : PkgKnown(known)
    BY <1>7
  <1> HIDE DEF mine
  <1>10. Stores(known, mine)
    BY <1>5, <1>6, <1>8, <1>9 DEF Stores
  <1> QED BY <1>10

(* Update stores the verdicts under the hashes it takes, and carries over  *)
(* entries as they are.                                                    *)
LEMMA UpdateStep == ASSUME IInv, Update PROVE IInv'
  <1>1. /\ pc = "update" /\ pc' = "save" /\ world' = world
        /\ UNCHANGED <<disk, edits, file, runs, opts, scope, srcCache, coverage, st, resume>>
    BY DEF Update, user, run
  <1> PICK known, mine : Stores(known, mine)
    BY UpdateFacts
  <1>2. /\ Adds(memo, known) /\ Reads(memo, known, srcCache) /\ DOMAIN known \subseteq Files
        /\ Adds(memo, memo') /\ Reads(memo, memo', srcCache) /\ DOMAIN memo' \subseteq Files
        /\ mine \subseteq Stored /\ \A m \in mine : PkgKnown(known)
        /\ loaded' = [loaded EXCEPT !.entries =
                        [m \in mine \cup Carried(memo') |->
                           IF m \in mine THEN EntryOf(m, known) ELSE loaded.entries[m]]]
    BY DEF Stores
  <1>3. /\ "src" \in DOMAIN known /\ known["src"] = srcCache
        /\ \A f \in DOMAIN memo : f \in DOMAIN known /\ known[f] = memo[f]
        /\ \A f \in DOMAIN known : known[f] \in Contents
        /\ BetweenRuns => \A f \in DOMAIN known : known[f] = disk[f]
        /\ OwnSuite => Files \subseteq DOMAIN memo
    BY <1>1, <1>2, LaterMemos DEF Started
  <1>4. /\ "src" \in DOMAIN memo' /\ memo'["src"] = srcCache
        /\ \A f \in DOMAIN memo : f \in DOMAIN memo' /\ memo'[f] = memo[f]
        /\ \A f \in DOMAIN memo' : memo'[f] \in Contents /\ memo'[f] \in Nat
        /\ BetweenRuns => \A f \in DOMAIN memo' : memo'[f] = disk[f]
        /\ Forward => \A f \in DOMAIN memo' : memo'[f] <= disk[f]
        /\ OwnSuite => Files \subseteq DOMAIN memo /\ Files \subseteq DOMAIN memo'
    BY <1>1, <1>2, LaterMemos DEF Started
  <1> DEFINE entries == [m \in mine \cup Carried(memo') |->
                           IF m \in mine THEN EntryOf(m, known) ELSE loaded.entries[m]]
  <1>5. /\ loaded'.gen = loaded.gen /\ loaded'.entries = entries /\ loaded'.profile = loaded.profile
        /\ loaded' = [gen |-> loaded'.gen, entries |-> loaded'.entries, profile |-> loaded'.profile]
    <2>1. loaded = [gen |-> loaded.gen, entries |-> loaded.entries, profile |-> loaded.profile]
      BY DEF IInv, BothCaches, CacheOK
    <2> QED BY <1>2, <2>1
  <1>6. \A m \in mine : m \in Mutants /\ CanReuse(st[m].status)
    BY <1>2 DEF Stored, IInv, Types
  <1>7. Carried(memo') \subseteq DOMAIN loaded.entries
    BY DEF Carried
  <1>8. \A m \in mine :
           /\ EntryOf(m, known).status = st[m].status /\ EntryOf(m, known).on = st[m].on
           /\ EntryOf(m, known).gen = opts.gen
           /\ DOMAIN EntryOf(m, known).hash \subseteq DOMAIN known
           /\ "src" \in DOMAIN EntryOf(m, known).hash
           /\ \A f \in DOMAIN EntryOf(m, known).hash : EntryOf(m, known).hash[f] = known[f]
    BY <1>2, EntryFacts
  <1>9. \A m \in DOMAIN entries : \/ m \in mine /\ entries[m] = EntryOf(m, known)
                                  \/ m \in DOMAIN loaded.entries /\ entries[m] = loaded.entries[m]
    BY <1>7
  <1>10. DOMAIN entries \subseteq Mutants
    BY <1>6, <1>7 DEF IInv, BothCaches, CacheOK
  <1> HIDE DEF entries
  <1>11. \A m \in DOMAIN entries : EntryOK(entries[m]) /\ entries[m].gen = loaded.gen
    <2> SUFFICES ASSUME NEW m \in DOMAIN entries
                 PROVE  EntryOK(entries[m]) /\ entries[m].gen = loaded.gen
      OBVIOUS
    <2>1. CASE m \in mine /\ entries[m] = EntryOf(m, known)
      <3>1. opts.gen = loaded.gen /\ opts.gen \in Generations
        BY <1>1 DEF IInv, BothCaches, CacheOK
      <3>2. st[m].on \in [Files -> Contents] /\ st[m].on["src"] = srcCache
        BY <1>6, <2>1 DEF IInv, Types, Measured
      <3> QED BY <1>2, <1>3, <1>6, <1>8, <2>1, <3>1, <3>2 DEF EntryOK
    <2>2. CASE m \in DOMAIN loaded.entries /\ entries[m] = loaded.entries[m]
      BY <2>2 DEF IInv, BothCaches, CacheOK
    <2> QED BY <1>9, <2>1, <2>2
  <1>12. CacheOK(loaded')
    BY <1>5, <1>10, <1>11 DEF IInv, BothCaches, CacheOK
  <1>13. Types'
    BY <1>1, <1>2, <1>4, SameWorld DEF IInv, Types, Frozen
  <1>14. BothCaches'
    BY <1>1, <1>5, <1>12, SameWorld DEF IInv, BothCaches, CacheOK, EntryOK
  <1>15. Memoized' /\ Profiled'
    BY <1>1, <1>4 DEF IInv, Memoized, Profiled
  <1>16. Measured'
    BY <1>1, <1>4, SameWorld DEF IInv, Measured, Tested, Started
  <1>17. Settled'
    <2> SUFFICES ASSUME BetweenRuns PROVE Settled'
      BY <1>1, SameWorld DEF Settled
    <2>1. ASSUME NEW m \in DOMAIN entries,
                 NEW f \in Decides(entries[m].status) \cap DOMAIN entries[m].hash
          PROVE  entries[m].hash[f] = entries[m].on[f]
      <3>1. CASE m \in mine /\ entries[m] = EntryOf(m, known)
        <4>1. f \in Decides(st[m].status) /\ f \in DOMAIN known /\ entries[m].hash[f] = known[f]
          BY <1>8, <2>1, <3>1
        <4>2. known[f] = disk[f] /\ st[m].on[f] = disk[f]
          BY <1>3, <1>6, <3>1, <4>1 DEF IInv, Settled
        <4> QED BY <1>8, <3>1, <4>1, <4>2
      <3>2. CASE m \in DOMAIN loaded.entries /\ entries[m] = loaded.entries[m]
        BY <2>1, <3>2 DEF IInv, Settled
      <3> QED BY <1>9, <3>1, <3>2
    <2> QED BY <1>1, <1>4, <1>5, <2>1, SameWorld DEF IInv, Settled, Frozen
  <1>18. Growing'
    BY <1>1, <1>4, <1>5, SameWorld DEF IInv, Growing, Frozen
  <1>19. HashedFirst'
    BY <1>1, <1>4, SameWorld DEF HashedFirst, Started
  <1>20. InOrder'
    <2> SUFFICES ASSUME OwnSuite PROVE InOrder'
      BY <1>1, SameWorld DEF InOrder
    <2>1. ASSUME NEW m \in DOMAIN entries, NEW f \in Decides(entries[m].status)
          PROVE  /\ entries[m].on[f] <= disk[f]
                 /\ f \in DOMAIN entries[m].hash => entries[m].hash[f] <= entries[m].on[f]
      <3>1. CASE m \in mine /\ entries[m] = EntryOf(m, known)
        <4>1. f \in Decides(st[m].status) /\ f \in Files /\ entries[m].on[f] = st[m].on[f]
          BY <1>8, <2>1, <3>1, GateFacts
        <4>2. memo[f] <= st[m].on[f] /\ st[m].on[f] <= disk[f]
          BY <1>6, <3>1, <4>1 DEF IInv, InOrder
        <4>3. known[f] = memo[f]
          BY <1>3, <4>1
        <4> QED BY <1>8, <3>1, <4>1, <4>2, <4>3
      <3>2. CASE m \in DOMAIN loaded.entries /\ entries[m] = loaded.entries[m]
        BY <2>1, <3>2 DEF IInv, InOrder
      <3> QED BY <1>9, <3>1, <3>2
    <2>2. \A m \in Mutants : CanReuse(st[m].status) =>
            \A f \in Decides(st[m].status) :
              /\ memo'[f] <= st[m].on[f] /\ st[m].on[f] <= disk[f]
              /\ st[m].replayed => st[m].on[f] = memo'[f]
      <3>1. \A s : \A f \in Decides(s) : f \in DOMAIN memo /\ memo'[f] = memo[f]
        BY <1>4, GateFacts
      <3> QED BY <3>1 DEF IInv, InOrder
    <2> QED BY <1>1, <1>5, <2>1, <2>2, SameWorld DEF IInv, InOrder, Tested, Started
  <1> QED BY <1>13, <1>14, <1>15, <1>16, <1>17, <1>18, <1>19, <1>20 DEF IInv

-----------------------------------------------------------------------------
(* The invariant, and what it says of every behaviour.                     *)

LEMMA InitIInv == Init => IInv
  <1> SUFFICES ASSUME Init PROVE IInv
    OBVIOUS
  <1>1. /\ world \in Worlds /\ disk = NoFiles /\ edits = 0 /\ pc = "down" /\ runs = 0
        /\ scope = {} /\ loaded = file /\ memo = EmptyFn /\ srcCache = 0 /\ coverage = NoProfile
        /\ st = [m \in Mutants |-> NoVerdict] /\ resume = "exit"
        /\ opts = [gen |-> file.gen, detect |-> FALSE, single |-> FALSE]
    BY DEF Init
  <1>2. PICK g \in Generations : file = Empty(g)
    BY DEF Init
  <1>3. /\ CacheOK(file) /\ file.gen \in Generations /\ DOMAIN file.entries = {} /\ file.profile = {}
    BY <1>2, EmptyCacheOK
  <1>4. /\ 0 \in Contents /\ 0 \in 0..MaxEdits /\ 0 \in 0..MaxRuns /\ DOMAIN memo = {}
    BY <1>1, IncrementalAssumption DEF Contents, EmptyFn
  <1>5. NoFiles \in [Files -> Contents] /\ \A f \in Files : NoFiles[f] = 0
    BY <1>4 DEF NoFiles
  <1>6. coverage \in [keyed : BOOLEAN, key : [Files -> Contents], on : [Files -> Contents],
                      cached : BOOLEAN]
    BY <1>1, <1>5 DEF NoProfile
  <1>7. st \in [Mutants -> [status : Statuses, on : [Files -> Contents], replayed : BOOLEAN]]
    BY <1>1, <1>5, StatusFacts DEF NoVerdict
  <1>8. Types
    BY <1>1, <1>3, <1>4, <1>5, <1>6, <1>7 DEF Types
  <1>9. \A m \in Mutants : ~CanReuse(st[m].status) /\ ~st[m].replayed
    BY <1>1, StatusFacts DEF NoVerdict
  <1>10. ~coverage.keyed /\ ~coverage.cached
    BY <1>1 DEF NoProfile
  <1>11. BothCaches
    BY <1>1, <1>3 DEF BothCaches
  <1>12. Memoized /\ Measured /\ Profiled
    BY <1>1, <1>4, <1>9, <1>10 DEF Memoized, Measured, Profiled, Started
  <1>13. Settled
    BY <1>1, <1>3, <1>4, <1>9, <1>10 DEF Settled, Frozen
  <1>14. Growing
    BY <1>1, <1>3, <1>4, <1>5, <1>10 DEF Growing, Frozen
  <1>15. HashedFirst /\ InOrder
    BY <1>1, <1>3, <1>4, <1>9 DEF HashedFirst, InOrder, Started
  <1> QED BY <1>8, <1>11, <1>12, <1>13, <1>14, <1>15 DEF IInv

LEMMA NextIInv == ASSUME IInv, [Next]_vars PROVE IInv'
  <1>1. CASE Crash
    BY <1>1, ExitStep DEF Crash
  <1>2. CASE UNCHANGED vars
    <2>1. /\ world' = world
          /\ UNCHANGED <<disk, edits, file, pc, runs, opts, scope, loaded, memo, srcCache,
                         coverage, st, resume>>
      BY <1>2 DEF vars, user, run, mem
    <2>2. Types' /\ BothCaches' /\ Memoized' /\ Measured' /\ Profiled'
      BY <2>1, SameWorld DEF IInv, Types, BothCaches, CacheOK, EntryOK, Memoized, Measured, Profiled
    <2>3. Settled' /\ Growing' /\ HashedFirst' /\ InOrder'
      BY <2>1, SameWorld DEF IInv, Settled, Growing, HashedFirst, InOrder
    <2> QED BY <2>2, <2>3 DEF IInv
  <1>3. CASE \E m \in Mutants : Test(m) \/ Prove(m)
    BY <1>3, TestStep, ProveStep
  <1> QED BY <1>1, <1>2, <1>3, EditStep, StartStep, KeyStep, CoverStep, DiscoverStep, FreezeStep,
             LookupStep, EndStep, UpdateStep, SaveStep DEF Next

(* The caches are well formed in every state, and of one generation; a     *)
(* stored verdict is keyed on the bytes its mutant was made of.            *)
LEMMA IInvCacheInv == IInv => CacheInv
  <1> SUFFICES ASSUME IInv PROVE CacheInv
    OBVIOUS
  <1>1. CacheOK(file) /\ CacheOK(loaded)
    BY DEF IInv, BothCaches
  <1>2. TypeOK
    BY <1>1 DEF IInv, Types, Frozen, CacheOK, EntryOK, TypeOK
  <1>3. KeyedOnFrozenSource
    BY <1>1 DEF CacheOK, EntryOK, KeyedOnFrozenSource
  <1>4. SameGeneration
    BY <1>1 DEF IInv, BothCaches, CacheOK, SameGeneration
  <1> QED BY <1>2, <1>3, <1>4 DEF CacheInv

(* What is replayed was measured on what the hasher saw: while nothing is  *)
(* edited both are the disk's; when contents do not come back, a content   *)
(* no older than its hash and no newer than the memo is the one of both.   *)
LEMMA IInvNoStaleReplay == IInv => (BetweenRuns \/ OwnSuite => NoStaleReplay)
  <1> SUFFICES ASSUME IInv, BetweenRuns \/ OwnSuite, NEW m \in Mutants, st[m].replayed,
                      NEW f \in Decides(st[m].status)
               PROVE  f \in DOMAIN memo /\ st[m].on[f] = memo[f]
    BY DEF NoStaleReplay
  <1>1. CanReuse(st[m].status) /\ Gates(st[m].status) \subseteq DOMAIN memo /\ pc \in Tested
    BY DEF IInv, Measured
  <1>2. f \in DOMAIN memo
    BY <1>1, GateFacts
  <1>3. CASE BetweenRuns
    BY <1>1, <1>2, <1>3 DEF IInv, Settled, Tested, Started
  <1>4. CASE OwnSuite
    BY <1>1, <1>2, <1>4 DEF IInv, InOrder
  <1> QED BY <1>3, <1>4

LEMMA IInvNoStaleProfile == IInv => (BetweenRuns \/ Forward => NoStaleProfile)
  <1> SUFFICES ASSUME IInv, BetweenRuns \/ Forward, coverage.cached, NEW f \in Files
               PROVE  coverage.on[f] = coverage.key[f]
    BY DEF NoStaleProfile
  <1>1. coverage.keyed /\ pc # "cover"
    BY DEF IInv, Profiled
  <1>2. CASE BetweenRuns
    BY <1>1, <1>2 DEF IInv, Settled
  <1>3. CASE Forward
    BY <1>1, <1>3 DEF IInv, Growing
  <1> QED BY <1>2, <1>3

(* What the two theorems of replays and the cache rest on, in every world: *)
(* entries and memos name what their verdict, profile or attempt was       *)
(* settled by, a hash is one of the file's past, and the frozen source is  *)
(* hashed before anything else of its package (cache.go:281).              *)
THEOREM IInvHolds == Spec => []IInv
  BY InitIInv, NextIInv, PTL DEF Spec

(* The cache a crash, a failed write or an interrupted run leaves behind   *)
(* is a good one: each entry is of one generation, of a verdict that can   *)
(* be replayed, and keyed on the very bytes its mutant was made of         *)
(* (cache.go:281), in every world.                                         *)
THEOREM CacheInvHolds == Spec => []CacheInv
  BY IInvHolds, IInvCacheInv, PTL

(* No verdict is replayed where anything that decides it has changed, for  *)
(* any edits between the runs, and for edits during them where contents do *)
(* not come back, a mutant is tested by its own package's suite and every  *)
(* file is read.                                                           *)
THEOREM NoStaleReplayHolds == Spec => [](BetweenRuns \/ OwnSuite => NoStaleReplay)
  BY IInvHolds, IInvNoStaleReplay, PTL

(* Nor is a coverage profile, even where files fail to be read and other   *)
(* packages' suites are run.                                               *)
THEOREM NoStaleProfileHolds == Spec => [](BetweenRuns \/ Forward => NoStaleProfile)
  BY IInvHolds, IInvNoStaleProfile, PTL

-----------------------------------------------------------------------------
(* The entries a run starts with.                                          *)

LEMMA Numbers ==
    ASSUME IInv
    PROVE  /\ \A f \in Files : disk[f] \in Nat
           /\ \A f \in DOMAIN memo : f \in Files /\ memo[f] \in Nat
           /\ srcCache \in Nat
           /\ \A c \in {file, loaded} : \A m \in DOMAIN c.entries :
                m \in Mutants /\ \A f \in DOMAIN c.entries[m].hash :
                                   f \in Files /\ c.entries[m].hash[f] \in Nat
  BY DEF IInv, Types, BothCaches, CacheOK, EntryOK, Contents

LEMMA AlwaysSameWorld == [Next]_vars => world' = world
  BY DEF Next, vars, user, run, mem, Edit, Start, Key, Cover, Discover, Freeze, Lookup, EndTests,
         EndProofs, Update, Save, Crash, Exit, Test, Prove

(* Steps that touch neither what is remembered nor what is loaded.         *)
Plain == Cover \/ EndTests \/ EndProofs \/ (\E m \in Mutants : Test(m) \/ Prove(m))

LEMMA PlainFacts ==
    ASSUME IInv, Plain
    PROVE  /\ world' = world /\ UNCHANGED <<disk, file, opts, scope, loaded, memo, srcCache>>
           /\ \/ pc = "cover" /\ pc' = "discover"
              \/ pc \in {"run", "tce"} /\ pc' \in {"run", "tce", "update"}
  BY DEF Plain, Cover, EndTests, EndProofs, Test, Prove, Checkpoint, Flush, user, run, mem, IInv, Types

LEMMA SaveFacts ==
    ASSUME IInv, Save
    PROVE  /\ world' = world /\ disk' = disk /\ file' \in {file, loaded} /\ pc = "save"
           /\ \/ pc' = "down" /\ loaded' = file' /\ DOMAIN memo' = {}
              \/ /\ resume # "exit" /\ pc' = resume /\ pc' \in {"run", "tce"} /\ resume' = resume
                 /\ UNCHANGED <<opts, scope, loaded, memo, srcCache, st>>
  <1>1. world' = world /\ disk' = disk /\ file' \in {file, loaded} /\ pc = "save"
    BY DEF Save, Written, Exit, user
  <1>2. CASE resume = "exit" /\ Exit
    BY <1>1, <1>2 DEF Exit, EmptyFn
  <1>3. CASE resume # "exit" /\ pc' = resume /\ UNCHANGED <<user, run, mem, resume>>
    BY <1>1, <1>3 DEF user, run, mem, IInv, Types
  <1> QED BY <1>1, <1>2, <1>3 DEF Save

LEMMA CrashFacts ==
    ASSUME Crash
    PROVE  /\ world' = world /\ disk' = disk /\ file' = file
           /\ pc' = "down" /\ loaded' = file' /\ DOMAIN memo' = {}
  BY DEF Crash, Exit, user, EmptyFn

(* The steps up to the lookup, which leave the entries as they are.        *)
Early == Key \/ Cover \/ Discover \/ Freeze \/ Lookup

LEMMA EarlyFacts ==
    ASSUME IInv, Early
    PROVE  /\ world' = world /\ UNCHANGED <<disk, file, opts, scope>>
           /\ loaded'.entries = loaded.entries /\ loaded'.gen = loaded.gen
           /\ pc \in {"key", "cover", "discover", "freeze", "lookup"}
           /\ pc' \in {"cover", "discover", "freeze", "lookup", "run"}
  <1>1. CASE Key \/ Cover \/ Discover \/ Freeze
    BY <1>1 DEF Key, Cover, Discover, Freeze, user, run
  <1>2. CASE Lookup
    <2>1. /\ world' = world /\ UNCHANGED <<disk, file, opts, scope>> /\ pc = "lookup" /\ pc' = "run"
          /\ loaded' = IF coverage.cached \/ ~coverage.keyed THEN loaded
                       ELSE [loaded EXCEPT !.profile = {[key |-> coverage.key, on |-> coverage.on]}]
      BY <1>2 DEF Lookup, user, run
    <2>2. loaded = [gen |-> loaded.gen, entries |-> loaded.entries, profile |-> loaded.profile]
      BY DEF IInv, BothCaches, CacheOK
    <2> QED BY <2>1, <2>2
  <1> QED BY <1>1, <1>2 DEF Early

LEMMA StartFacts ==
    ASSUME IInv, Start
    PROVE  /\ world' = world /\ UNCHANGED <<disk, file, memo, srcCache>>
           /\ pc = "down" /\ pc' = "key" /\ DOMAIN memo = {}
           /\ opts'.gen = file.gen => loaded' = file
           /\ loaded' = file \/ DOMAIN loaded'.entries = {}
  <1>1. PICK g \in Generations, d \in BOOLEAN, one \in BOOLEAN, S \in SUBSET Mutants :
          opts' = [gen |-> g, detect |-> d, single |-> one] /\ scope' = S /\ loaded' = Load(g)
    BY DEF Start
  <1>2. /\ world' = world /\ UNCHANGED <<disk, file, memo, srcCache>>
        /\ pc = "down" /\ pc' = "key" /\ DOMAIN memo = {}
    BY DEF Start, user, IInv, Memoized
  <1>3. opts'.gen = g
    BY <1>1
  <1> QED BY <1>1, <1>2, <1>3, EmptyCacheOK DEF Load

(* After an update: a verdict of the run under the memos, or a prior entry *)
(* that matches them or cannot be compared.                                *)
LEMMA StoredFacts ==
    ASSUME IInv, Update, NEW known, NEW mine, Stores(known, mine)
    PROVE  /\ pc = "update" /\ pc' = "save" /\ world' = world
           /\ UNCHANGED <<disk, file, opts, scope, srcCache, st, resume>>
           /\ loaded'.gen = loaded.gen
           /\ DOMAIN loaded'.entries = mine \cup Carried(memo')
           /\ Carried(memo') \subseteq DOMAIN loaded.entries
           /\ \A m \in Carried(memo') \ mine : loaded'.entries[m] = loaded.entries[m]
           /\ \A m \in mine :
                /\ m \in scope /\ CanReuse(st[m].status) /\ SamePkg(loaded'.entries[m], memo')
                /\ \A f \in DOMAIN loaded'.entries[m].hash :
                     f \in DOMAIN memo' /\ loaded'.entries[m].hash[f] = memo'[f]
  <1>1. /\ pc = "update" /\ pc' = "save" /\ world' = world
        /\ UNCHANGED <<disk, file, opts, scope, srcCache, st, resume>>
    BY DEF Update, user, run
  <1> DEFINE entries == [m \in mine \cup Carried(memo') |->
                           IF m \in mine THEN EntryOf(m, known) ELSE loaded.entries[m]]
  <1>2. loaded'.gen = loaded.gen /\ loaded'.entries = entries
    <2>1. loaded = [gen |-> loaded.gen, entries |-> loaded.entries, profile |-> loaded.profile]
      BY DEF IInv, BothCaches, CacheOK
    <2>2. loaded' = [loaded EXCEPT !.entries = entries]
      BY DEF Stores
    <2> QED BY <2>1, <2>2
  <1>3. /\ DOMAIN entries = mine \cup Carried(memo')
        /\ \A m \in Carried(memo') \ mine : entries[m] = loaded.entries[m]
        /\ \A m \in mine : entries[m] = EntryOf(m, known)
    OBVIOUS
  <1> HIDE DEF entries
  <1>4. Carried(memo') \subseteq DOMAIN loaded.entries
    BY DEF Carried
  <1>5. ASSUME NEW m \in mine
        PROVE  /\ m \in scope /\ CanReuse(st[m].status) /\ SamePkg(entries[m], memo')
               /\ \A f \in DOMAIN entries[m].hash :
                    f \in DOMAIN memo' /\ entries[m].hash[f] = memo'[f]
    <2>1. m \in scope /\ CanReuse(st[m].status) /\ PkgKnown(known) /\ Adds(known, memo')
      BY <1>5 DEF Stores, Stored
    <2>2. \A f \in DOMAIN entries[m].hash :
            f \in DOMAIN memo' /\ entries[m].hash[f] = memo'[f]
      BY <1>3, <1>5, <2>1, EntryFacts DEF Adds
    <2>3. PkgKnown(memo')
      BY <2>1 DEF PkgKnown, Adds
    <2> QED BY <2>1, <2>2, <2>3 DEF SamePkg
  <1> QED BY <1>1, <1>2, <1>3, <1>4, <1>5

LEMMA AgedStep == ASSUME IInv, Aged, [Next]_vars PROVE Aged'
  <1> SUFFICES ASSUME Forward, NEW c \in {file', loaded'}, NEW m \in DOMAIN c.entries,
                      NEW f \in DOMAIN c.entries[m].hash
               PROVE  /\ c.entries[m].hash[f] <= disk'[f]
                      /\ f \in DOMAIN memo' => c.entries[m].hash[f] <= memo'[f]
                      /\ f = "src" /\ pc' \in Frozen => c.entries[m].hash[f] <= srcCache'
    BY AlwaysSameWorld, SameWorld DEF Aged
  <1> DEFINE h == c.entries[m].hash[f]
  <1>1. \A b \in {file, loaded} : m \in DOMAIN b.entries /\ b.entries[m] = c.entries[m] =>
          /\ h \in Nat /\ f \in Files /\ h <= disk[f]
          /\ f \in DOMAIN memo => h <= memo[f]
          /\ f = "src" /\ pc \in Frozen => h <= srcCache
    BY Numbers DEF Aged
  <1>2. /\ \A g \in Files : disk[g] \in Nat
        /\ \A g \in DOMAIN memo : g \in Files /\ memo[g] \in Nat
        /\ srcCache \in Nat
    BY Numbers
  <1>3. CASE Edit
    <2>1. /\ UNCHANGED <<file, loaded, memo, srcCache, pc>>
          /\ \A g \in Files : disk'[g] \in Nat /\ disk[g] <= disk'[g]
      BY <1>3, EditFacts
    <2> QED BY <1>1, <1>2, <2>1
  <1>4. CASE Start
    <2>1. /\ UNCHANGED <<disk, file, memo>> /\ pc' = "key" /\ DOMAIN memo = {} /\ c = file
      BY <1>4, StartFacts
    <2> QED BY <1>1, <2>1 DEF Frozen
  <1>5. CASE Key
    <2>1. /\ memo' \in Memos(memo, disk["src"], KeyFiles) /\ DOMAIN memo = {} /\ pc' \notin Frozen
          /\ UNCHANGED <<disk, file, loaded>>
      BY <1>5 DEF Key, user, run, IInv, Memoized, Frozen
    <2>2. Reads(memo, memo', disk["src"])
      BY <2>1, MemosAdd
    <2>3. \A g \in DOMAIN memo' : memo'[g] = disk[g]
      BY <2>1, <2>2 DEF Reads
    <2> QED BY <1>1, <2>1, <2>3
  <1>6. CASE Plain \/ Save \/ Crash
    <2>1. /\ c \in {file, loaded} /\ disk' = disk
          /\ \/ DOMAIN memo' = {} /\ pc' = "down"
             \/ /\ UNCHANGED <<memo, srcCache>>
                /\ pc' \in Frozen => pc \in Frozen
      BY <1>6, PlainFacts, SaveFacts, CrashFacts DEF Frozen
    <2> QED BY <1>1, <2>1 DEF Frozen
  <1>7. CASE Discover
    <2>1. UNCHANGED <<disk, file, loaded, memo>> /\ srcCache' = disk["src"]
      BY <1>7 DEF Discover, user, run
    <2> QED BY <1>1, <2>1
  <1>8. CASE Freeze
    <2>1. /\ memo' \in Memos(Kept(memo), srcCache, Pkg) /\ pc \in Frozen
          /\ UNCHANGED <<disk, file, loaded, srcCache>>
      BY <1>8 DEF Freeze, user, run, Frozen
    <2>2. Adds(Kept(memo), memo') /\ Reads(Kept(memo), memo', srcCache)
      BY <2>1, MemosAdd
    <2>3. \A g \in DOMAIN Kept(memo) : g \in DOMAIN memo /\ Kept(memo)[g] = memo[g]
      BY DEF Kept, Restrict
    <2>4. f \in DOMAIN memo' => (f \in DOMAIN memo /\ memo'[f] = memo[f])
                                 \/ memo'[f] = (IF f = "src" THEN srcCache ELSE disk[f])
      BY <2>2, <2>3 DEF Adds, Reads
    <2> QED BY <1>1, <2>1, <2>4
  <1>9. CASE Lookup
    <2>1. /\ Adds(memo, memo') /\ Reads(memo, memo', srcCache)
          /\ UNCHANGED <<disk, file, srcCache>> /\ loaded'.entries = loaded.entries /\ pc \in Frozen
      BY <1>9, LookupFacts, EarlyFacts DEF Early, Lookup, Frozen
    <2>2. f \in DOMAIN memo' => (f \in DOMAIN memo /\ memo'[f] = memo[f])
                                 \/ memo'[f] = (IF f = "src" THEN srcCache ELSE disk[f])
      BY <2>1 DEF Adds, Reads
    <2> QED BY <1>1, <2>1, <2>2
  <1>10. CASE Update
    <2> PICK known, mine : Stores(known, mine)
      BY <1>10, UpdateFacts
    <2>1. /\ pc \in Frozen /\ UNCHANGED <<disk, file, srcCache>>
          /\ \/ m \in DOMAIN file.entries /\ c.entries[m] = file.entries[m]
             \/ m \in DOMAIN loaded.entries /\ c.entries[m] = loaded.entries[m]
             \/ f \in DOMAIN memo' /\ h = memo'[f]
      BY <1>10, StoredFacts DEF Frozen
    <2>2. Adds(memo, memo') /\ Reads(memo, memo', srcCache) /\ DOMAIN memo' \subseteq Files
      BY DEF Stores
    <2>3. /\ memo'["src"] = srcCache
          /\ \A g \in DOMAIN memo' : g \in Files /\ memo'[g] \in Nat /\ memo'[g] <= disk[g]
      BY <1>10, <2>1, <2>2, LaterMemos, StoredFacts DEF Started
    <2>4. f \in DOMAIN memo' => (f \in DOMAIN memo /\ memo'[f] = memo[f])
                                 \/ memo'[f] = (IF f = "src" THEN srcCache ELSE disk[f])
      BY <2>2 DEF Adds, Reads
    <2>5. CASE f \in DOMAIN memo' /\ h = memo'[f]
      BY <2>1, <2>3, <2>5
    <2>6. CASE ~(f \in DOMAIN memo' /\ h = memo'[f])
      BY <1>1, <2>1, <2>4, <2>6
    <2> QED BY <2>5, <2>6
  <1>11. CASE UNCHANGED vars
    BY <1>1, <1>11 DEF vars, user, mem
  <1> QED BY <1>3, <1>4, <1>5, <1>6, <1>7, <1>8, <1>9, <1>10, <1>11 DEF Next, Plain

LEMMA AsLoadedStep == ASSUME IInv, AsLoaded, [Next]_vars PROVE AsLoaded'
  <1>1. CASE Edit
    BY <1>1, EditFacts DEF AsLoaded
  <1>2. CASE Start
    BY <1>2, StartFacts DEF AsLoaded
  <1>3. CASE Early
    BY <1>3, EarlyFacts DEF AsLoaded
  <1>4. CASE Plain
    BY <1>4, PlainFacts DEF AsLoaded
  <1>5. CASE Save \/ Crash
    BY <1>5, SaveFacts, CrashFacts DEF AsLoaded
  <1>6. CASE Update
    BY <1>6 DEF AsLoaded, Update
  <1>7. CASE UNCHANGED vars
    BY <1>7 DEF vars, run, mem, AsLoaded
  <1> QED BY <1>1, <1>2, <1>3, <1>4, <1>5, <1>6, <1>7 DEF Next, Plain, Early

(* An update drops an entry only when its package has changed.             *)
LEMMA DroppedIsGone ==
    ASSUME IInv, Aged, Keepable, Update, NEW known, NEW mine, Stores(known, mine),
           NEW m \in DOMAIN loaded.entries, m \notin DOMAIN loaded'.entries
    PROVE  Gone(loaded.entries[m])
  <1> DEFINE e == loaded.entries[m]
  <1>1. m \notin Carried(memo') /\ world.resolves
    BY StoredFacts DEF Keepable
  <1>2. PkgKnown(memo') /\ ~SamePkg(e, memo')
    BY <1>1 DEF Carried
  <1>3. PICK f \in Pkg \cap DOMAIN e.hash : e.hash[f] # memo'[f]
    BY <1>2 DEF SamePkg
  <1>4. /\ Adds(memo, memo') /\ Reads(memo, memo', srcCache) /\ DOMAIN memo' \subseteq Files
        /\ pc \in Started /\ pc \in Frozen
    BY StoredFacts DEF Stores, Started, Frozen
  <1>5. /\ f \in DOMAIN memo' /\ memo'[f] \in Nat
        /\ BetweenRuns => memo'[f] = disk[f]
        /\ Forward => memo'[f] <= disk[f]
        /\ memo'["src"] = srcCache
    BY <1>2, <1>4, LaterMemos DEF PkgKnown
  <1>6. (f \in DOMAIN memo /\ memo'[f] = memo[f]) \/ memo'[f] = (IF f = "src" THEN srcCache ELSE disk[f])
    BY <1>4, <1>5 DEF Adds, Reads
  <1>7. e.hash[f] \in Nat /\ disk[f] \in Nat
    BY <1>3, FileFacts, Numbers
  <1>8. Forward => e.hash[f] <= memo'[f]
    BY <1>3, <1>4, <1>6 DEF Aged
  <1>9. e.hash[f] # disk[f] /\ (Forward => e.hash[f] < disk[f])
    BY <1>3, <1>5, <1>7, <1>8 DEF Keepable
  <1> QED BY <1>3, <1>9 DEF Gone

LEMMA KeptStep == ASSUME IInv, Aged, AsLoaded, KeptOrGone, [Next]_vars PROVE KeptOrGone'
  <1>1. world' = world /\ (Keepable' <=> Keepable)
    BY AlwaysSameWorld, SameWorld DEF Keepable
  <1> SUFFICES ASSUME Keepable, pc' # "down", file'.gen = opts'.gen, NEW m \in DOMAIN file'.entries
               PROVE  \/ /\ m \in DOMAIN loaded'.entries
                         /\ \/ loaded'.entries[m] = file'.entries[m]
                            \/ pc' \in Tested /\ SamePkg(loaded'.entries[m], memo')
                      \/ Gone(file.entries[m])'
    BY <1>1 DEF KeptOrGone
  <1> DEFINE e == file.entries[m]
  <1>2. m \in DOMAIN file.entries =>
          \A f \in Pkg \cap DOMAIN e.hash : f \in Files /\ e.hash[f] \in Nat
    BY Numbers
  <1>3. pc # "down" /\ file.gen = opts.gen /\ m \in DOMAIN file.entries =>
          \/ /\ m \in DOMAIN loaded.entries
             /\ \/ loaded.entries[m] = e
                \/ pc \in Tested /\ SamePkg(loaded.entries[m], memo)
          \/ Gone(e)
    BY DEF KeptOrGone
  <1>4. CASE Edit
    <2>1. /\ UNCHANGED <<file, loaded, memo, pc, opts>> /\ Forward
          /\ \A f \in Files : disk[f] \in Nat /\ disk'[f] \in Nat /\ disk[f] <= disk'[f]
      BY <1>4, EditFacts DEF Keepable
    <2>2. CASE Gone(e)
      <3>1. m \in DOMAIN file.entries
        BY <2>1
      <3>2. PICK f \in Pkg \cap DOMAIN e.hash : e.hash[f] < disk[f]
        BY <2>1, <2>2 DEF Gone
      <3>3. f \in Files /\ e.hash[f] \in Nat
        BY <1>2, <3>1
      <3>4. e.hash[f] # disk'[f] /\ e.hash[f] < disk'[f]
        BY <2>1, <3>2, <3>3
      <3> QED BY <1>1, <2>1, <3>4, SameWorld DEF Gone
    <2>3. CASE ~Gone(e)
      BY <1>3, <2>1, <2>3
    <2> QED BY <2>2, <2>3
  <1>5. CASE Start
    BY <1>5, StartFacts
  <1>6. CASE Early
    BY <1>6, EarlyFacts DEF AsLoaded
  <1>7. CASE Plain \/ UNCHANGED vars
    <2>1. /\ UNCHANGED <<disk, file, loaded, memo, opts>> /\ pc # "down"
          /\ pc \in Tested => pc' \in Tested
      BY <1>7, PlainFacts DEF vars, user, run, mem, Tested, Started
    <2>2. CASE Gone(e)
      BY <1>1, <2>1, <2>2, SameWorld DEF Gone
    <2>3. CASE ~Gone(e)
      BY <1>3, <2>1, <2>3
    <2> QED BY <2>2, <2>3
  <1>8. CASE Save
    <2>1. /\ pc = "save" /\ pc' \in Tested /\ disk' = disk /\ file' \in {file, loaded}
          /\ UNCHANGED <<opts, loaded, memo>>
      BY <1>8, SaveFacts DEF Tested, Started
    <2>2. CASE file' = loaded
      BY <2>1, <2>2
    <2>3. CASE file' = file /\ Gone(e)
      BY <1>1, <2>1, <2>3, SameWorld DEF Gone
    <2>4. CASE file' = file /\ ~Gone(e)
      BY <1>3, <2>1, <2>4
    <2> QED BY <2>1, <2>2, <2>3, <2>4
  <1>9. CASE Crash
    BY <1>9, CrashFacts
  <1>10. CASE Update
    <2> PICK known, mine : Stores(known, mine)
      BY <1>10, UpdateFacts
    <2>1. /\ pc = "update" /\ pc' \in Tested /\ UNCHANGED <<disk, file, opts>>
          /\ m \in DOMAIN file.entries
          /\ DOMAIN loaded'.entries = mine \cup Carried(memo')
          /\ \A n \in mine : SamePkg(loaded'.entries[n], memo')
          /\ \A n \in Carried(memo') \ mine : loaded'.entries[n] = loaded.entries[n]
      BY <1>10, StoredFacts DEF Tested, Started
    <2>2. CASE Gone(e)
      BY <1>1, <2>1, <2>2, SameWorld DEF Gone
    <2>3. CASE ~Gone(e) /\ loaded.entries[m] = e /\ m \in DOMAIN loaded.entries
      <3>1. m \in DOMAIN loaded'.entries
        BY <1>10, <2>3, DroppedIsGone
      <3> QED BY <2>1, <2>3, <3>1
    <2>4. CASE SamePkg(loaded.entries[m], memo) /\ m \in DOMAIN loaded.entries
      <3>1. Adds(memo, memo')
        BY DEF Stores
      <3>2. SamePkg(loaded.entries[m], memo')
        BY <2>4, <3>1 DEF SamePkg, PkgKnown, Adds
      <3>3. m \in mine \cup Carried(memo')
        BY <2>4, <3>2 DEF Carried, Keepable
      <3> QED BY <2>1, <3>2, <3>3
    <2> QED BY <1>3, <2>1, <2>2, <2>3, <2>4
  <1> QED BY <1>4, <1>5, <1>6, <1>7, <1>8, <1>9, <1>10 DEF Next, Plain, Early

LEMMA MissesStay ==
    ASSUME NEW e, Misses(e), world' = world, Adds(memo, memo'), world.readsFail => memo' = memo
    PROVE  Misses(e)'
  <1>1. PICK f \in Gates(e.status) :
          \/ f \notin DOMAIN e.hash
          \/ f \in DOMAIN memo /\ e.hash[f] # memo[f]
          \/ world.readsFail /\ f \notin DOMAIN memo
    BY DEF Misses
  <1>2. \/ f \notin DOMAIN e.hash
        \/ f \in DOMAIN memo' /\ e.hash[f] # memo'[f]
        \/ world.readsFail /\ f \notin DOMAIN memo'
    BY <1>1 DEF Adds
  <1>3. f \in Gates(e.status)'
    BY SameWorld
  <1> QED BY <1>2, <1>3 DEF Misses

(* What a lookup does not replay, it cannot.                               *)
LEMMA NoHitMisses ==
    ASSUME IInv, Lookup, NEW m \in Found,
           ~(m \in Candidates(memo') /\ Same(loaded.entries[m], memo'))
    PROVE  \E f \in Gates(loaded.entries[m].status) :
              \/ f \notin DOMAIN loaded.entries[m].hash
              \/ f \in DOMAIN memo' /\ loaded.entries[m].hash[f] # memo'[f]
              \/ world.readsFail /\ f \notin DOMAIN memo'
  <1> DEFINE e == loaded.entries[m]
  <1>1. ~SamePkg(e, memo') \/ ~Same(e, memo')
    BY DEF Candidates
  <1>2. Pkg \subseteq Gates(e.status)
    BY GateFacts
  <1>3. CASE ~SamePkg(e, memo')
    <2>1. (\E f \in Pkg : f \notin DOMAIN memo')
            \/ \E f \in Pkg \cap DOMAIN e.hash : e.hash[f] # memo'[f]
      BY <1>3 DEF SamePkg, PkgKnown
    <2>2. ~world.readsFail => Pkg \subseteq DOMAIN memo'
      BY LookupFacts DEF PkgKnown
    <2> QED BY <1>2, <2>1, <2>2, WorldFacts DEF IInv, Types
  <1>4. CASE SamePkg(e, memo') /\ ~Same(e, memo')
    <2>1. ~world.readsFail => Gates(e.status) \subseteq DOMAIN memo'
      BY <1>4, LookupFacts
    <2> QED BY <1>4, <2>1, WorldFacts DEF Same, IInv, Types
  <1> QED BY <1>1, <1>3, <1>4

LEMMA LookedUpStep ==
    ASSUME IInv, AsLoaded, LookedUp, ReadOnce, [Next]_vars
    PROVE  LookedUp'
  <1>1. world' = world
    BY AlwaysSameWorld
  <1> SUFFICES ASSUME Testing', ~opts'.single, NEW m \in Mutants, m \in scope', st'[m].status = Pending,
                      NEW c \in {file', loaded'}, c.gen = opts'.gen, m \in DOMAIN c.entries
               PROVE  Misses(c.entries[m])'
    BY <1>1, SameWorld DEF LookedUp, Unresolved
  <1>2. \A b \in {file, loaded} :
          /\ Testing /\ ~opts.single /\ Unresolved(m) /\ b.gen = opts.gen
          /\ m \in DOMAIN b.entries /\ b.entries[m] = c.entries[m]
          => Misses(c.entries[m])
    BY DEF LookedUp
  <1>3. Adds(memo, memo') /\ (world.readsFail => memo' = memo) /\ Misses(c.entries[m])
          => Misses(c.entries[m])'
    BY <1>1, MissesStay
  <1>4. memo' = memo => Adds(memo, memo')
    BY DEF Adds
  <1>5. CASE Edit \/ UNCHANGED vars
    <2>1. UNCHANGED <<file, pc, opts, scope, loaded, memo, st, resume>>
      BY <1>5, EditFacts DEF vars, run, mem
    <2> QED BY <1>2, <1>3, <1>4, <2>1 DEF Testing, Unresolved
  <1>6. CASE Start \/ Key \/ Cover \/ Discover \/ Freeze \/ Crash
    BY <1>6 DEF Start, Key, Cover, Discover, Freeze, Crash, Exit, Testing
  <1>7. CASE EndTests \/ EndProofs \/ \E n \in Mutants : Prove(n)
    BY <1>7 DEF EndTests, EndProofs, Prove, Checkpoint, Flush, Testing
  <1>8. CASE Lookup
    <2>1. /\ pc = "lookup" /\ UNCHANGED <<file, opts, scope>>
          /\ loaded'.entries = loaded.entries /\ loaded'.gen = loaded.gen
      BY <1>8, EarlyFacts DEF Early, Lookup
    <2>2. m \in DOMAIN loaded.entries /\ loaded.entries[m] = c.entries[m]
      BY <2>1 DEF AsLoaded
    <2> DEFINE hits == {n \in Candidates(memo') : Same(loaded.entries[n], memo')}
    <2>3. /\ st' = [n \in Mutants |-> IF n \in hits THEN Replayed(loaded.entries[n]) ELSE st[n]]
          /\ m \notin hits
      <3>1. st' = [n \in Mutants |-> IF n \in hits THEN Replayed(loaded.entries[n]) ELSE st[n]]
        BY <1>8 DEF Lookup
      <3>2. m \in hits => CanReuse(st'[m].status)
        <4> HAVE m \in hits
        <4>1. st'[m] = Replayed(loaded.entries[m])
          BY <3>1
        <4>2. EntryOK(loaded.entries[m])
          BY <2>2 DEF IInv, BothCaches, CacheOK
        <4> QED BY <4>1, <4>2, ReplayedFacts
      <3>3. ~CanReuse(st'[m].status)
        BY StatusFacts
      <3> QED BY <3>1, <3>2, <3>3
    <2>4. st[m].status = Pending
      BY <2>3
    <2>5. m \in Found
      BY <2>1, <2>2, <2>4 DEF Found, Unresolved
    <2>6. \E f \in Gates(c.entries[m].status) :
              \/ f \notin DOMAIN c.entries[m].hash
              \/ f \in DOMAIN memo' /\ c.entries[m].hash[f] # memo'[f]
              \/ world.readsFail /\ f \notin DOMAIN memo'
      BY <1>8, <2>2, <2>3, <2>5, NoHitMisses
    <2>7. Gates(c.entries[m].status)' = Gates(c.entries[m].status)
      BY <1>1, SameWorld
    <2> QED BY <1>1, <2>6, <2>7 DEF Misses
  <1>9. ASSUME NEW n \in Mutants, Test(n) PROVE Misses(c.entries[m])'
    <2>1. /\ pc = "run" /\ UNCHANGED <<file, opts, scope, loaded, memo>>
          /\ \E v \in Verdicts : st'[n].status = v
          /\ \A x \in Mutants \ {n} : st'[x] = st[x]
      BY <1>9 DEF Test, user, run, IInv, Types
    <2>2. m # n
      BY <2>1, IncrementalAssumption
         DEF TestVerdicts, Pending, Killed, Lived, NotViable, TimedOut, InfraError
    <2> QED BY <1>2, <1>3, <1>4, <2>1, <2>2 DEF Testing, Unresolved
  <1>10. CASE Update
    <2> PICK known, mine : Stores(known, mine)
      BY <1>10, UpdateFacts
    <2>1. /\ pc = "update" /\ pc' = "save" /\ UNCHANGED <<file, opts, scope, st, resume>>
          /\ loaded'.gen = loaded.gen
          /\ DOMAIN loaded'.entries = mine \cup Carried(memo')
          /\ Carried(memo') \subseteq DOMAIN loaded.entries
          /\ \A n \in Carried(memo') \ mine : loaded'.entries[n] = loaded.entries[n]
          /\ \A n \in mine : CanReuse(st[n].status)
      BY <1>10, StoredFacts
    <2>2. resume = "run" /\ Testing /\ Unresolved(m) /\ m \notin mine
      BY <2>1, StatusFacts DEF Testing, Unresolved
    <2>3. ~world.readsFail
      BY <2>1, <2>2 DEF ReadOnce
    <2>4. \/ m \in DOMAIN file.entries /\ c.entries[m] = file.entries[m] /\ file.gen = opts.gen
          \/ m \in DOMAIN loaded.entries /\ c.entries[m] = loaded.entries[m] /\ loaded.gen = opts.gen
      BY <2>1, <2>2
    <2>5. Misses(c.entries[m])
      BY <1>2, <2>1, <2>2, <2>4
    <2>6. Adds(memo, memo')
      BY DEF Stores
    <2> QED BY <1>3, <2>3, <2>5, <2>6
  <1>11. CASE Save
    <2>1. /\ pc = "save" /\ pc' = resume /\ pc' \in {"run", "tce"} /\ resume' = resume
          /\ file' \in {file, loaded} /\ UNCHANGED <<opts, scope, loaded, memo, st>>
      BY <1>11, SaveFacts DEF Testing
    <2>2. resume = "run" /\ Testing /\ Unresolved(m)
      BY <2>1 DEF Testing, Unresolved
    <2> QED BY <1>2, <1>3, <1>4, <2>1, <2>2
  <1> QED BY <1>5, <1>6, <1>7, <1>8, <1>9, <1>10, <1>11 DEF Next

LEMMA ReadOnceStep == ASSUME IInv, ReadOnce, [Next]_vars PROVE ReadOnce'
  <1>1. world' = world /\ Mutants' = Mutants
    BY AlwaysSameWorld, SameWorld
  <1> SUFFICES ASSUME world.readsFail, pc' \in {"update", "save"}, resume' = "run", NEW m \in Mutants,
                      m \in scope', st'[m].status = Pending
               PROVE  FALSE
    BY <1>1 DEF ReadOnce, Unresolved
  <1>2. CASE Edit \/ UNCHANGED vars \/ Update
    <2>1. pc \in {"update", "save"} /\ UNCHANGED <<scope, st, resume>>
      BY <1>2, EditFacts DEF Update, vars, run, mem
    <2> QED BY <2>1 DEF ReadOnce, Unresolved
  <1>3. CASE Start \/ Key \/ Cover \/ Discover \/ Freeze \/ Lookup \/ Crash \/ Save
    BY <1>3, SaveFacts DEF Start, Key, Cover, Discover, Freeze, Lookup, Crash, Exit
  <1>4. CASE EndTests \/ EndProofs \/ \E n \in Mutants : Prove(n)
    BY <1>4 DEF EndTests, EndProofs, Prove, Checkpoint, Flush
  <1>5. ASSUME NEW n \in Mutants, Test(n) PROVE FALSE
    <2>1. n = m
      BY IncrementalAssumption DEF IInv, Types, Mutants
    <2>2. \E v \in Verdicts : st'[n].status = v
      BY <1>5 DEF Test, IInv, Types
    <2> QED BY <2>1, <2>2, IncrementalAssumption
            DEF TestVerdicts, Pending, Killed, Lived, NotViable, TimedOut, InfraError
  <1> QED BY <1>2, <1>3, <1>4, <1>5 DEF Next

LEMMA RInvAlways == Spec => []RInv
  <1>1. Init => RInv
    <2> SUFFICES ASSUME Init PROVE RInv
      OBVIOUS
    <2>1. /\ IInv /\ pc = "down" /\ loaded = file
      BY InitIInv DEF Init
    <2>2. DOMAIN file.entries = {}
      BY EmptyCacheOK DEF Init
    <2> QED BY <2>1, <2>2 DEF RInv, Aged, AsLoaded, KeptOrGone, LookedUp, Testing, ReadOnce
  <1>2. RInv /\ [Next]_vars => RInv'
    BY NextIInv, AgedStep, AsLoadedStep, KeptStep, LookedUpStep, ReadOnceStep DEF RInv
  <1> QED BY <1>1, <1>2, PTL DEF Spec

(* A run that writes the cache keeps every entry, of its own mutants or    *)
(* not, whose package is still as it was (cache.go:893): where the file of *)
(* an entry is found, and edits come between the runs or bring nothing     *)
(* back.                                                                   *)
THEOREM KeepsWhatMatchesHolds == Spec /\ Keepable => KeepsWhatMatches
  <1>1. Keepable /\ [Next]_vars => Keepable'
    BY AlwaysSameWorld, SameWorld DEF Keepable
  <1>2. RInv /\ Keepable /\ [Next]_vars =>
          [\A m \in DOMAIN file.entries :
              (opts.gen = file.gen /\ SamePkg(file.entries[m], disk)) => m \in DOMAIN file'.entries]_file
    <2> SUFFICES ASSUME RInv, Keepable, [Next]_vars, file' # file, NEW m \in DOMAIN file.entries,
                        opts.gen = file.gen, SamePkg(file.entries[m], disk)
                 PROVE  m \in DOMAIN file'.entries
      OBVIOUS
    <2>1. IInv /\ KeptOrGone
      BY DEF RInv
    <2>2. Save
      <3>1. ~Edit /\ ~Start /\ ~Early /\ ~Plain /\ ~Crash /\ ~UNCHANGED vars
        BY <2>1, EditFacts, StartFacts, EarlyFacts, PlainFacts, CrashFacts DEF vars
      <3>2. ~Update
        BY DEF Update
      <3> QED BY <3>1, <3>2 DEF Next, Plain, Early
    <2>3. pc = "save" /\ file' = loaded
      BY <2>1, <2>2, SaveFacts
    <2>4. ~Gone(file.entries[m])
      BY DEF SamePkg, Gone
    <2> QED BY <2>1, <2>3, <2>4 DEF KeptOrGone
  <1> QED BY RInvAlways, <1>1, <1>2, PTL DEF Spec, KeepsWhatMatches

(* A mutant is not tested when the cache file holds a verdict on just what *)
(* it would be tested on, and both runs could read it: an interrupted run  *)
(* resumes (README.md:43), where edits come between the runs or bring      *)
(* nothing back.                                                           *)
THEOREM NoRetestHolds == Spec /\ (BetweenRuns \/ Forward) => NoRetest
  <1>1. (BetweenRuns \/ Forward) /\ [Next]_vars => (BetweenRuns \/ Forward)'
    BY AlwaysSameWorld, SameWorld
  <1>2. RInv /\ (BetweenRuns \/ Forward) /\ [Next]_vars =>
          [\A m \in DOMAIN file.entries :
              LET e == file.entries[m] IN
              (/\ pc = "run" /\ pc' \in {"run", "update"} /\ st'[m] # st[m]
               /\ file.gen = opts.gen /\ ~opts.single
               /\ Gates(e.status) \subseteq DOMAIN e.hash \cap DOMAIN memo)
                => \E f \in Decides(e.status) : {e.on[f], e.hash[f]} # {st'[m].on[f]}]_st
    <2> SUFFICES ASSUME RInv, BetweenRuns \/ Forward, [Next]_vars, NEW m \in DOMAIN file.entries,
                        pc = "run", pc' \in {"run", "update"}, st'[m] # st[m],
                        file.gen = opts.gen, ~opts.single,
                        Gates(file.entries[m].status) \subseteq DOMAIN file.entries[m].hash \cap DOMAIN memo
                 PROVE  \E f \in Decides(file.entries[m].status) : file.entries[m].hash[f] # st'[m].on[f]
      OBVIOUS
    <2> DEFINE e == file.entries[m]
    <2>1. IInv /\ Aged /\ LookedUp
      BY DEF RInv
    <2>2. m \in Mutants /\ EntryOK(e)
      BY <2>1 DEF IInv, BothCaches, CacheOK
    <2>3. Test(m)
      <3>1. ~Edit /\ ~Start /\ ~Early /\ ~EndTests /\ ~EndProofs /\ ~Update /\ ~Save /\ ~Crash
            /\ ~UNCHANGED vars
        BY <2>1, EditFacts, EarlyFacts, StartFacts, SaveFacts, CrashFacts
           DEF EndTests, EndProofs, Update, vars, mem
      <3>2. ASSUME NEW n \in Mutants, Prove(n) PROVE FALSE
        BY <3>2 DEF Prove
      <3>3. ASSUME NEW n \in Mutants, Test(n) PROVE n = m
        BY <2>1, <2>2, <3>3 DEF Test, IInv, Types
      <3> QED BY <3>1, <3>2, <3>3 DEF Next, Early, Plain
    <2>4. Misses(e)
      BY <2>1, <2>2, <2>3 DEF LookedUp, Testing, Test
    <2>5. PICK f \in Gates(e.status) : e.hash[f] # memo[f]
      BY <2>4 DEF Misses
    <2>6. f \in Decides(e.status) /\ f \in Files /\ f \in DOMAIN memo /\ f \in DOMAIN e.hash
      <3>1. Gates(e.status) = Decides(e.status)
        BY <2>2, FileFacts DEF EntryOK, Gates, Decides, CanReuse, NeedsTestsHash, Killed, Lived, TimedOut,
                               NotViable, Equivalent, Files
      <3> QED BY <2>5, <3>1, GateFacts
    <2>7. st'[m].on = [disk EXCEPT !["src"] = srcCache]
      BY <2>1, <2>2, <2>3 DEF Test, IInv, Types
    <2>8. st'[m].on[f] = IF f = "src" THEN srcCache ELSE disk[f]
      BY <2>1, <2>6, <2>7 DEF IInv, Types
    <2>9. memo["src"] = srcCache /\ "src" \in DOMAIN memo
      BY <2>1 DEF IInv, Memoized, Started
    <2>10. CASE BetweenRuns
      BY <2>1, <2>5, <2>6, <2>8, <2>9, <2>10 DEF IInv, Settled
    <2>11. CASE Forward
      <3>1. e.hash[f] <= memo[f] /\ memo[f] <= disk[f]
        BY <2>1, <2>6, <2>11 DEF Aged, IInv, Growing
      <3>2. e.hash[f] \in Nat /\ memo[f] \in Nat /\ disk[f] \in Nat
        BY <2>1, <2>6, Numbers
      <3> QED BY <2>5, <2>6, <2>8, <2>9, <3>1, <3>2
    <2> QED BY <2>10, <2>11
  <1> QED BY RInvAlways, <1>1, <1>2, PTL DEF Spec, NoRetest
=============================================================================
