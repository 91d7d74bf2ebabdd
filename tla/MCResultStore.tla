---------------------------- MODULE MCResultStore ----------------------------
(* ResultStore with two jobs of a package that declares its statuses         *)
(* (shipped counts as a success, returned does not), on either of two        *)
(* profiles.  Repack makes a report name a package that is not known.        *)
EXTENDS ResultStore, TLC

CONSTANTS ship, shipD

MCSkillOf  == shipD :> ship
MCDeclares == shipD :> {"shipped", "returned"}
MCStatuses == {"shipped", "returned"}
MCSucceeds == (shipD :> {"shipped"}) @@ (NoDigest :> {})

Final(d, s) == [paused |-> FALSE, ident |-> d, status |-> s]
MCReports == {Final(shipD, "shipped"), Final(shipD, "returned")}

Symmetry == Permutations(Jobs) \cup Permutations(Profiles)
=============================================================================
