------------------------------ MODULE Statuses ------------------------------
(***************************************************************************)
(* The statuses of a mutant (internal/mutator/types.go) and the two sets   *)
(* of them the cache distinguishes (internal/cache/cache.go).              *)
(***************************************************************************)

Pending     == "PENDING"
Killed      == "KILLED"
Lived       == "LIVED"
NotCovered  == "NOT COVERED"
NotViable   == "NOT VIABLE"
TimedOut    == "TIMED OUT"
Equivalent  == "EQUIVALENT"
InfraError  == "INFRA ERROR"

Statuses == {Pending, Killed, Lived, NotCovered, NotViable, TimedOut,
             Equivalent, InfraError}

(* What Worker.Test can make of a pending mutant when it is not cancelled. *)
TestVerdicts == {Killed, Lived, NotViable, TimedOut, InfraError}

(* Worker.Test's early returns, which do not look at the context: a file   *)
(* missing from the source cache, a patch that does not apply, a scratch   *)
(* file that cannot be written.                                            *)
EarlyVerdicts == {NotViable, InfraError}

(* canReuse: the statuses the cache stores and replays.                    *)
CanReuse(s) == s \in {Killed, Lived, TimedOut, NotViable, Equivalent}

(* needsTestsHash: the reusable statuses whose reuse depends on the test   *)
(* files, too.                                                             *)
NeedsTestsHash(s) == s \in {Killed, Lived, TimedOut, Equivalent}
=============================================================================
