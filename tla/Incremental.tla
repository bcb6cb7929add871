----------------------------- MODULE Incremental -----------------------------
(***************************************************************************)
(* The incremental cache across runs: internal/cache/cache.go (Load,       *)
(* Hasher, Lookup, Update, Save), driven by pipeline.go.  A user edits the *)
(* files between the runs and during them; a run can crash, or be          *)
(* interrupted, and a write of the cache can fail.                         *)
(*                                                                         *)
(* The mutants are of one file of one package.  A file stands for all      *)
(* those the cache treats alike, and a hash for the content it was taken   *)
(* of.                                                                     *)
(***************************************************************************)
EXTENDS Naturals, FiniteSets, Functions, Statuses

CONSTANTS
    AllMutants,
    AllGenerations, \* tags, test flags and toolchain: what the metadata gate compares
    Verdicts,       \* the statuses a test may end with
    MaxEdits, MaxRuns,  \* bounds
    Worlds          \* the circumstances to look at, each one of AllWorlds

AllWorlds ==
    [mutants : SUBSET AllMutants,
     generations : SUBSET AllGenerations,
     crossPkg : BOOLEAN,     \* a mutant is tested by the suites of importing packages, too
     resolves : BOOLEAN,     \* RelFile, joined to the project directory, is the mutant's file
     midRunEdits : BOOLEAN,  \* files are edited while a run is going on
     reverts : BOOLEAN,      \* an edit may bring back an earlier content
     readsFail : BOOLEAN,    \* the hasher's reads may fail, one as another
     edits : 0..MaxEdits, runs : 0..MaxRuns]   \* bounds

ASSUME IncrementalAssumption ==
    /\ Worlds \subseteq AllWorlds
    \* Each try to hash a package is one of a mutant's own then.
    /\ \A w \in Worlds : w.readsFail => \A m, n \in w.mutants : m = n
    /\ Verdicts \subseteq TestVerdicts
    /\ MaxEdits \in Nat /\ MaxRuns \in Nat

VARIABLES
    world,     \* where all of this happens: it does not change
    disk,      \* the content of each file
    edits,     \* how many edits there have been
    file,      \* the cache file
    pc,        \* where the run is
    runs,      \* how many runs there have been
    opts,      \* the run's [gen, detect (equivalents), single (--run-mutant-id)]
    scope,     \* the mutants it has found
    loaded,    \* mr.loadedCache
    memo,      \* the hasher's memos
    srcCache,  \* the content of src the mutants are made of
    coverage,  \* the profile in use: [keyed, key, on, cached]
    st,        \* each mutant: [status, on, replayed]
    resume     \* where a checkpoint returns to

user == <<world, disk, edits>>
run  == <<runs, opts, scope>>
mem  == <<loaded, memo, srcCache, coverage, st>>
vars == <<user, file, pc, run, mem, resume>>

Mutants     == world.mutants
Generations == world.generations

(* src: the mutated file, whose bytes a run freezes when it parses them.   *)
(* sib: what else its package is compiled from, read by each build from    *)
(* disk: an embedded file, a sibling that --exclude-files leaves out.      *)
(* test: its package's test files.  dep: the production sources of an      *)
(* importer whose suite runs for the mutant.                               *)
Files == {"src", "sib", "test"} \cup (IF world.crossPkg THEN {"dep"} ELSE {})
Tests == {"test"}

(* What decides a verdict: a mutant that does not compile is never tested. *)
Decides(s) == IF s = NotViable THEN {"src", "sib"} ELSE Files

Contents == 0..MaxEdits

(* `on' records what a verdict or a profile was really measured on.        *)
Entries  == [status : Statuses, hash : UNION {[S -> Contents] : S \in SUBSET Files},
             on : [Files -> Contents], gen : Generations]
Profiles == [key : [Files -> Contents], on : [Files -> Contents]]
Caches   == [gen : Generations,
             entries : UNION {[S -> Entries] : S \in SUBSET Mutants},
             profile : SUBSET Profiles]

EmptyFn  == [x \in {} |-> x]
Empty(g) == [gen |-> g, entries |-> EmptyFn, profile |-> {}]
NoFiles  == [f \in Files |-> 0]
NoProfile == [keyed |-> FALSE, key |-> NoFiles, on |-> NoFiles, cached |-> FALSE]
NoVerdict == [status |-> Pending, on |-> NoFiles, replayed |-> FALSE]

TypeOK ==
    /\ world \in Worlds
    /\ disk \in [Files -> Contents] /\ edits \in 0..MaxEdits /\ runs \in 0..MaxRuns
    /\ \A c \in {file, loaded} :
         /\ c.gen \in Generations
         /\ DOMAIN c.entries \subseteq Mutants
         /\ \A m \in DOMAIN c.entries : LET e == c.entries[m] IN
              /\ CanReuse(e.status) /\ e.gen \in Generations
              /\ DOMAIN e.hash \subseteq Files
              /\ \A f \in DOMAIN e.hash : e.hash[f] \in Contents
              /\ e.on \in [Files -> Contents]
         /\ Cardinality(c.profile) <= 1 /\ c.profile \subseteq Profiles
    /\ pc \in {"down", "key", "cover", "discover", "freeze", "lookup", "run",
               "tce", "update", "save"}
    /\ opts \in [gen : Generations, detect : BOOLEAN, single : BOOLEAN]
    /\ scope \subseteq Mutants
    /\ DOMAIN memo \subseteq Files /\ \A f \in DOMAIN memo : memo[f] \in Contents
    /\ srcCache \in Contents
    /\ coverage \in [keyed : BOOLEAN, key : [Files -> Contents], on : [Files -> Contents],
                     cached : BOOLEAN]
    /\ st \in [Mutants -> [status : Statuses, on : [Files -> Contents], replayed : BOOLEAN]]
    /\ resume \in {"run", "tce", "exit"}

-----------------------------------------------------------------------------
(* The hasher.                                                             *)

(* What each file in S hashes to: its memo, else what the source cache or  *)
(* the disk holds now; that is memoized.                                   *)
Hashed(known, src, S) ==
    [f \in DOMAIN known \cup S |->
        IF f \in DOMAIN known THEN known[f] ELSE IF f = "src" THEN src ELSE disk[f]]

(* The memos there may be once S was to be hashed: a file that fails to be *)
(* read leaves none.  That of src alone decides nothing: it comes from     *)
(* memory once it is frozen, and before that its memo is dropped.          *)
Memos(known, src, S) ==
    {Hashed(known, src, S \ failed) :
        failed \in IF world.readsFail THEN SUBSET (Files \ {"src"}) ELSE {{}}}

(* The memos SetSrcCache keeps, before it hashes the mutants' packages.    *)
(* (Faulty: those of the coverage key.)                                    *)
FaultyKept(known) == known
Kept(known) == Restrict(known, DOMAIN known \cap Tests)

(* The files of the coverage key.  (Faulty: the instrumented ones alone.)  *)
FaultyKeyFiles == Files \ Tests
KeyFiles == Files

(* The files whose hashes gate the reuse of a verdict: pkg_hash (prod_hash *)
(* among it) and tests_hash.  (Faulty: prod_hash and tests_hash.)          *)
FaultyGates(s) == {"src"} \cup (IF NeedsTestsHash(s) THEN Files \ {"sib"} ELSE {})
Gates(s) == {"src", "sib"} \cup (IF NeedsTestsHash(s) THEN Files ELSE {})

(* prod_hash and pkg_hash can be had, and the entry's are the same.        *)
Pkg == {"src", "sib"}
PkgKnown(known) == Pkg \subseteq DOMAIN known
SamePkg(e, known) ==
    PkgKnown(known) /\ \A f \in Pkg \cap DOMAIN e.hash : e.hash[f] = known[f]

(* All of the entry's hashes are had, and the same: one that fails matches *)
(* nothing, nor does a tests_hash that is not there.                       *)
(* (Faulty: a NotViable entry's tests are compared, which it does not have;*)
(* a hash that failed matches one that is not there.)                      *)
FaultySame(e, known) == e.hash = known
FaultySameUnread(e, known) ==
    Restrict(e.hash, Gates(e.status) \cap DOMAIN e.hash)
      = Restrict(known, Gates(e.status) \cap DOMAIN known)
Same(e, known) ==
    \A f \in Gates(e.status) :
        f \in DOMAIN e.hash \cap DOMAIN known /\ e.hash[f] = known[f]

-----------------------------------------------------------------------------
Init ==
    /\ world \in Worlds
    /\ disk = NoFiles /\ edits = 0
    /\ \E g \in Generations : file = Empty(g)      \* as good as none
    /\ pc = "down" /\ runs = 0
    /\ opts = [gen |-> file.gen, detect |-> FALSE, single |-> FALSE]
    /\ scope = {} /\ loaded = file /\ memo = EmptyFn /\ srcCache = 0
    /\ coverage = NoProfile
    /\ st = [m \in Mutants |-> NoVerdict]
    /\ resume = "exit"

(* The user saves a file.                                                  *)
Edit ==
    /\ edits < world.edits
    /\ world.midRunEdits \/ pc = "down"
    /\ edits' = edits + 1
    /\ \E f \in Files, c \in (IF world.reverts THEN 0..edits ELSE {}) \cup {edits + 1} :
         c # disk[f] /\ disk' = [disk EXCEPT ![f] = c]
    /\ UNCHANGED <<world, file, pc, run, mem, resume>>

(* setup: Load, and its metadata gate.  (Faulty: without the gate.)        *)
FaultyLoad(g) == file
Load(g) == IF file.gen = g THEN file ELSE Empty(g)

Start ==
    /\ pc = "down" /\ runs < world.runs
    /\ runs' = runs + 1
    /\ \E g \in Generations, d \in BOOLEAN, one \in BOOLEAN, S \in SUBSET Mutants :
         /\ one => Cardinality(S) = 1
         /\ opts' = [gen |-> g, detect |-> d, single |-> one]
         /\ scope' = S
         /\ loaded' = Load(g)
    /\ pc' = "key"
    /\ UNCHANGED <<user, file, memo, srcCache, coverage, st, resume>>

(* cachedCoverageProfile.  There is no key when a file of it is not read.  *)
Key ==
    /\ pc = "key"
    /\ memo' \in Memos(memo, disk["src"], KeyFiles)
    /\ LET keyed == KeyFiles \subseteq DOMAIN memo'
           key == [f \in Files |-> IF keyed /\ f \in KeyFiles THEN memo'[f] ELSE 0]
           hit == {p \in loaded.profile : keyed /\ \A f \in KeyFiles : p.key[f] = key[f]}
       IN  \/ /\ hit # {}
              /\ coverage' = [keyed |-> TRUE, key |-> key,
                              on |-> (CHOOSE p \in hit : TRUE).on, cached |-> TRUE]
              /\ pc' = "discover"
           \/ /\ hit = {}
              /\ coverage' = [NoProfile EXCEPT !.keyed = keyed, !.key = key]
              /\ pc' = "cover"
    /\ UNCHANGED <<user, file, run, loaded, srcCache, st, resume>>

(* collectCoverage: the tests are run with coverage, and the baseline.     *)
Cover ==
    /\ pc = "cover"
    /\ coverage' = [coverage EXCEPT !.on = disk]
    /\ pc' = "discover"
    /\ UNCHANGED <<user, file, run, loaded, memo, srcCache, st, resume>>

(* discoverMutants: src is parsed, and what the profile does not cover is  *)
(* NOT COVERED.                                                            *)
Discover ==
    /\ pc = "discover"
    /\ srcCache' = disk["src"]
    /\ \E covered \in SUBSET scope :
         st' = [m \in Mutants |-> IF m \in scope \ covered
                                    THEN [NoVerdict EXCEPT !.status = NotCovered]
                                    ELSE NoVerdict]
    /\ pc' = "freeze"
    /\ UNCHANGED <<user, file, run, loaded, memo, coverage, resume>>

(* preReadSources and SetSrcCache.                                         *)
Freeze ==
    /\ pc = "freeze"
    /\ memo' \in Memos(Kept(memo), srcCache, Pkg)
    /\ pc' = "lookup"
    /\ UNCHANGED <<user, file, run, loaded, srcCache, coverage, st, resume>>

Unresolved(m) == m \in scope /\ st[m].status = Pending

(* The entries Lookup looks at, those it compares the tests of, and those  *)
(* it replays.                                                             *)
Found == IF opts.single THEN {} ELSE {m \in DOMAIN loaded.entries : Unresolved(m)}
Candidates(known) == {m \in Found : SamePkg(loaded.entries[m], known)}

(* The hashes of the mutants in ms: of their package, and of their tests   *)
(* where the package's do not end it.                                      *)
PkgMemos(known, ms) == Memos(known, srcCache, IF ms = {} THEN {} ELSE Pkg)
GateMemos(known, statuses) == Memos(known, srcCache, UNION {Gates(s) : s \in statuses})

(* demoteEquivalents: without detection an equivalent mutant is a survivor.*)
Replayed(e) ==
    [status   |-> IF e.status = Equivalent /\ ~opts.detect THEN Lived ELSE e.status,
     on       |-> e.on,
     replayed |-> TRUE]

(* applyCache, and runMutants as far as the stamp of the profile.          *)
Lookup ==
    /\ pc = "lookup"
    /\ \E known \in PkgMemos(memo, Found) :
         memo' \in GateMemos(known, {loaded.entries[m].status : m \in Candidates(known)})
    /\ LET hits == {m \in Candidates(memo') : Same(loaded.entries[m], memo')}
       IN  st' = [m \in Mutants |-> IF m \in hits THEN Replayed(loaded.entries[m]) ELSE st[m]]
    /\ loaded' = IF coverage.cached \/ ~coverage.keyed THEN loaded
                 ELSE [loaded EXCEPT !.profile = {[key |-> coverage.key, on |-> coverage.on]}]
    /\ pc' = "run"
    /\ UNCHANGED <<user, file, run, srcCache, coverage, resume>>

(* checkpoint(false), after a result: throttled, or not.                   *)
Checkpoint(from) == pc' \in {from, "update"} /\ resume' = from

(* The pool tests a mutant: its source is frozen, the rest is on disk.     *)
Test(m) ==
    /\ pc = "run" /\ Unresolved(m)
    /\ \E v \in Verdicts :
         st' = [st EXCEPT ![m] = [status |-> v, on |-> [disk EXCEPT !["src"] = srcCache],
                                  replayed |-> FALSE]]
    /\ Checkpoint("run")
    /\ UNCHANGED <<user, file, run, loaded, memo, srcCache, coverage>>

(* The forced checkpoint that ends a run.                                  *)
Flush == pc' = "update" /\ resume' = "exit"

(* The pool is done, or the run was interrupted.                           *)
EndTests ==
    /\ pc = "run"
    /\ \/ opts.detect /\ pc' = "tce" /\ UNCHANGED resume
       \/ ~opts.detect /\ Flush
    /\ UNCHANGED <<user, file, run, mem>>

(* tce.Detector: a survivor, replayed or not, compiles like the original.  *)
Prove(m) ==
    /\ pc = "tce" /\ m \in scope /\ st[m].status = Lived
    /\ st' = [st EXCEPT ![m].status = Equivalent,
                        ![m].on = [@ EXCEPT !["src"] = srcCache, !["sib"] = disk["sib"]],
                        ![m].replayed = FALSE]
    /\ Checkpoint("tce")
    /\ UNCHANGED <<user, file, run, loaded, memo, srcCache, coverage>>

EndProofs ==
    /\ pc = "tce"
    /\ Flush
    /\ UNCHANGED <<user, file, run, mem>>

-----------------------------------------------------------------------------
(* Update and Save.                                                        *)

(* The verdicts of this run that are stored.  (Faulty: every result.)      *)
FaultyStored == {m \in scope : st[m].status # Pending}
Stored == {m \in scope : CanReuse(st[m].status)}

(* What is stored of a verdict: without a tests_hash when that fails.      *)
EntryOf(m, known) ==
    LET gates == Gates(st[m].status)
    IN  [status |-> st[m].status, on |-> st[m].on, gen |-> opts.gen,
         hash |-> Restrict(known, IF gates \subseteq DOMAIN known THEN gates ELSE gates \cap Pkg)]

(* The prior entries that are carried over: those that match, or that      *)
(* cannot be compared.  (Faulty: those of this run's mutants alone; those  *)
(* that match.)                                                            *)
FaultyCarried(known) == {m \in DOMAIN loaded.entries \cap scope : SamePkg(loaded.entries[m], known)}
FaultyCarriedRead(known) == {m \in DOMAIN loaded.entries : SamePkg(loaded.entries[m], known)}
Carried(known) ==
    IF world.resolves
    THEN {m \in DOMAIN loaded.entries : PkgKnown(known) => SamePkg(loaded.entries[m], known)}
    ELSE {}

(* The verdicts of this run first; then the entries none of them replaces. *)
Update ==
    /\ pc = "update"
    /\ \E pkg \in PkgMemos(memo, Stored) :
       LET stored == {m \in Stored : PkgKnown(pkg)}
           rest == IF world.resolves THEN DOMAIN loaded.entries \ stored ELSE {}
       IN  \E known \in GateMemos(pkg, {st[m].status : m \in stored}) :
             /\ memo' \in PkgMemos(known, rest)
             /\ loaded' = [loaded EXCEPT !.entries =
                             [m \in stored \cup Carried(memo') |->
                                IF m \in stored THEN EntryOf(m, known) ELSE loaded.entries[m]]]
    /\ pc' = "save"
    /\ UNCHANGED <<user, file, run, srcCache, coverage, st, resume>>

(* A temporary file is written and renamed, or it is not.                  *)
Written == {file, loaded}

(* The process and what it had in memory are gone.                         *)
Exit ==
    /\ pc' = "down" /\ resume' = "exit"
    /\ opts' = [gen |-> file'.gen, detect |-> FALSE, single |-> FALSE]
    /\ scope' = {} /\ loaded' = file' /\ memo' = EmptyFn /\ srcCache' = 0
    /\ coverage' = NoProfile
    /\ st' = [m \in Mutants |-> NoVerdict]
    /\ UNCHANGED <<user, runs>>

Save ==
    /\ pc = "save"
    /\ file' \in Written
    /\ \/ resume = "exit" /\ Exit
       \/ resume # "exit" /\ pc' = resume /\ UNCHANGED <<user, run, mem, resume>>

(* The process dies, or a phase fails: nothing else is written.            *)
Crash ==
    /\ pc # "down"
    /\ file' = file
    /\ Exit

Next ==
    \/ Edit \/ Start \/ Key \/ Cover \/ Discover \/ Freeze \/ Lookup
    \/ EndTests \/ EndProofs \/ Update \/ Save \/ Crash
    \/ \E m \in Mutants : Test(m) \/ Prove(m)

Spec == Init /\ [][Next]_vars

-----------------------------------------------------------------------------
(* Properties.                                                             *)

(* A verdict is replayed only where everything that decided it is as this  *)
(* run's hasher saw it, and under the same tags, flags and toolchain,      *)
(* whatever was edited while either run was going on, or could not be read *)
(* (README.md:843, cache.go:110, cache.go:787).                            *)
NoStaleReplay ==
    \A m \in Mutants : st[m].replayed =>
        \A f \in Decides(st[m].status) : f \in DOMAIN memo /\ st[m].on[f] = memo[f]

(* The same of the generation.                                             *)
SameGeneration ==
    pc # "down" => \A m \in DOMAIN loaded.entries : loaded.entries[m].gen = opts.gen

(* A replayed coverage profile was measured on the files as the run found  *)
(* them (cache.go:533).                                                    *)
NoStaleProfile ==
    coverage.cached => \A f \in Files : coverage.on[f] = coverage.key[f]

(* A stored verdict is keyed on the very source its mutant was made from,  *)
(* even when that source is edited and restored around it (cache.go:281).  *)
KeyedOnFrozenSource ==
    \A m \in DOMAIN file.entries : file.entries[m].hash["src"] = file.entries[m].on["src"]

(* A run that writes the cache keeps every entry, of its own mutants or    *)
(* not, whose package is still as it was (cache.go:893).                   *)
KeepsWhatMatches ==
    [][\A m \in DOMAIN file.entries :
          (opts.gen = file.gen /\ SamePkg(file.entries[m], disk)) => m \in DOMAIN file'.entries
      ]_file

(* Entries for files outside the run's mutant set are preserved when their *)
(* file still exists with matching content and their package still hashes  *)
(* the same (cache.go:894).                                                *)
KeepsOtherEntries ==
    [][\A m \in DOMAIN file.entries \ scope :
          (opts.gen = file.gen /\ SamePkg(file.entries[m], disk)) => m \in DOMAIN file'.entries
      ]_file

(* A mutant is not tested when the cache file holds a verdict on just what *)
(* it would be tested on, and both runs could read it: an interrupted run  *)
(* resumes (README.md:43).  --run-mutant-id tests it all the same.         *)
NoRetest ==
    [][\A m \in DOMAIN file.entries :
          LET e == file.entries[m] IN
          (/\ pc = "run" /\ pc' \in {"run", "update"} /\ st'[m] # st[m]
           /\ file.gen = opts.gen /\ ~opts.single
           /\ Gates(e.status) \subseteq DOMAIN e.hash \cap DOMAIN memo)
            => \E f \in Decides(e.status) : {e.on[f], e.hash[f]} # {st'[m].on[f]}
      ]_st

(* An edit of a test while a run is going on can only turn into a miss on  *)
(* the next run (cache.go:288).                                            *)
TestEditIsAMiss ==
    \A m \in Mutants : st[m].replayed /\ NeedsTestsHash(st[m].status) =>
        st[m].on["test"] = memo["test"]

(* cache.go:281: what the cache holds of a verdict is what decided it.     *)
CacheInv == TypeOK /\ KeyedOnFrozenSource /\ SameGeneration
=============================================================================
