----------------------------- MODULE MCFleetJobs -----------------------------
(* FleetJobs with one skill in two packages, both with declared statuses:    *)
(* d1 runs as a python_runner, d2 as skill_steps.                            *)
EXTENDS FleetJobs, TLC

CONSTANTS ship, d1, d2, j1, j2, c1, c2, p1

MCSkillOf   == [d \in Digests |-> ship]
MCDeclares  == [d \in Digests |-> {"shipped", "returned"}]
MCStatuses  == {"shipped", "returned"}
MCSucceeds  == [d \in Digests \cup {NoDigest} |-> IF d = NoDigest THEN {} ELSE {"shipped"}]
MCInstalled == [c \in Clients |-> Digests]
MCKind      == [d \in Digests |-> IF d = d1 THEN "python_runner" ELSE "skill_steps"]

Ask(j, c, p, d) == [job |-> j, client |-> c, profile |-> p, digest |-> d]
Final(d, s) == [paused |-> FALSE, ident |-> d, status |-> s]

\* two jobs of one profile on two clients; either may be asked for twice
MCSpecs     == {Ask(j1, c1, p1, d1), Ask(j2, c2, p1, d2)}
MCOneSpec   == {Ask(j1, c1, p1, d1)}

MCReports   == {Final(d1, "shipped"), Final(d1, "returned"), Final(NoDigest, "shipped")}
MCSuccesses == {Final(d1, "shipped"), Final(NoDigest, "shipped")}
MCOneReport == {Final(d1, "shipped")}

Symmetry == Permutations(Requests)
=============================================================================
