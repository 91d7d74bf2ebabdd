----------------------------- MODULE SkillStatus -----------------------------
(***************************************************************************)
(* The job record of src/src/jobs.rs and what one client report does to it *)
(* (src/src/skill_status.rs).  No state: the master's modules apply these  *)
(* operators in their steps.                                               *)
(*                                                                         *)
(* A digest stands for the identity triple (skill_id, version, digest): a  *)
(* report that names a part of another triple counts as naming another     *)
(* digest, one that leaves a part of it out as naming none.  Error texts   *)
(* are reduced to whether protocol_error is set, labels and timestamps are *)
(* left out.                                                               *)
(*                                                                         *)
(* A definition whose name starts with Mutant is no part of the model: it  *)
(* is a bug that the definition after it could have had.                   *)
(***************************************************************************)
CONSTANTS Jobs, Clients, Profiles, Skills, Digests, Statuses,
          SkillOf,          \* the skill a package digest belongs to
          Omits,            \* digests whose manifest omits "statuses"
          Declares,         \* digest |-> the status ids it declares
          LegacyStatuses,   \* the built-in ids: ok, failed, cancelled
          Succeeds,         \* digest |-> the ids declared success:true
          NoClient, NoProfile, NoSkill, NoDigest, NoStatus,  \* absent fields
          NoResult, NoData, NullData

ASSUME DeclarationAssumption ==
  /\ SkillOf \in [Digests -> Skills]
  /\ Omits \subseteq Digests
  /\ Declares \in [Digests -> SUBSET Statuses]
  /\ LegacyStatuses \subseteq Statuses
  /\ Succeeds \in [Digests \cup {NoDigest} -> SUBSET Statuses]

ASSUME AbsentAssumption ==
  /\ NoClient \notin Clients /\ NoProfile \notin Profiles /\ NoSkill \notin Skills
  /\ NoDigest \notin Digests /\ NoStatus \notin Statuses

JobStates == {"queued", "running", "cancelling", "paused", "cancelled", "failed", "succeeded"}
Terminal  == {"succeeded", "failed", "cancelled", "paused"}

\* A final report: the identity it names, the status it ends in, and whether
\* that status is paused/ask_human.
Report == [paused : BOOLEAN, ident : Digests \cup {NoDigest}, status : Statuses \cup {NoStatus}]
Data   == Report \cup {NoData, NullData}

BusinessResult == [skill : Skills, digest : Digests \cup {NoDigest},
                   status : Statuses, success : BOOLEAN]

JobRecord ==
  [client : Clients \cup {NoClient}, skill : Skills \cup {NoSkill},
   profile : Profiles \cup {NoProfile}, digest : Digests \cup {NoDigest},
   state : JobStates, data : Data, result : BusinessResult \cup {NoResult},
   protocol_error : BOOLEAN, success_counted : BOOLEAN]

Update == [job : Jobs, client : Clients, state : JobStates,
           protocol_error : BOOLEAN, data : Data]

ASSUME NoRecordAssumption ==
  /\ NoResult \notin BusinessResult
  /\ NoData \notin Report /\ NullData \notin Report /\ NoData # NullData

\* The record that a report or an upsert creates when there is none.
NewRecord(c, s, p) ==
  [client |-> c, skill |-> s, profile |-> p, digest |-> NoDigest, state |-> "queued",
   data |-> NoData, result |-> NoResult, protocol_error |-> FALSE, success_counted |-> FALSE]

-----------------------------------------------------------------------------
Outcome(r, o) == [rec |-> r, outcome |-> o]

\* the diagnosis replaces the verdict; and a skill "failed" is forged from it
MutantFailAnyway(r) ==
  Outcome([r EXCEPT !.state = "failed", !.protocol_error = TRUE], "Protocol")
MutantForgeFailed(r) ==
  IF r.result # NoResult
    THEN Outcome(r, "Conflict")
    ELSE Outcome([r EXCEPT !.state = "failed",
                           !.result = [skill |-> r.skill, digest |-> r.digest,
                                       status |-> "failed", success |-> FALSE]], "Applied")

FailProtocol(r) ==
  IF r.result # NoResult
    THEN Outcome(r, "Conflict")
    ELSE Outcome([r EXCEPT !.state = "failed", !.protocol_error = TRUE], "Protocol")

\* a late cancel wipes the verdict
MutantCancelWipes(r) ==
  Outcome([r EXCEPT !.state = "cancelled", !.protocol_error = FALSE,
                    !.result = NoResult, !.success_counted = FALSE], "SchedulerOnly")

FinalizeCancel(r) ==
  IF r.result # NoResult
    THEN Outcome(r, "Duplicate")
    ELSE Outcome([r EXCEPT !.state = "cancelled", !.protocol_error = FALSE], "SchedulerOnly")

\* the last report wins
MutantLastReportWins(r, new) ==
  Outcome([r EXCEPT !.result = new, !.protocol_error = FALSE,
                    !.state = IF new.success THEN "succeeded" ELSE "failed",
                    !.success_counted = new.success],
          "Applied")

FinalizeResult(r, new) ==
  IF r.result # NoResult
    THEN Outcome(r, IF r.result = new THEN "Duplicate" ELSE "Conflict")
    ELSE Outcome([r EXCEPT !.result = new, !.protocol_error = FALSE,
                           !.state = IF new.success THEN "succeeded" ELSE "failed",
                           !.success_counted = @ \/ new.success],
                 "Applied")

\* "running" reopens an attempt that ended without a verdict
MutantProgressAfterEnd(r, state) ==
  Outcome(IF r.result # NoResult THEN r ELSE [r EXCEPT !.state = state], "SchedulerOnly")

\* A scheduler state that does not end anything; it comes too late for a record
\* that is decided or terminal.
Progress(r, state) ==
  Outcome(IF r.result # NoResult \/ r.state \in Terminal THEN r ELSE [r EXCEPT !.state = state],
          "SchedulerOnly")

\* A scheduler state that ends the attempt without a business result
\* (paused also clears nothing but the error; only a "paused" state message
\* clears protocol_error).
EndWithout(r, state, perr) ==
  IF r.result # NoResult
    THEN Outcome(r, "Duplicate")
    ELSE Outcome([r EXCEPT !.state = state, !.protocol_error = perr], "SchedulerOnly")

\* The ids a report of digest d may end in: its own declaration, or the
\* built-in ones for a package without a declaration and a job without digest.
Vocabulary(d) == IF d \in Omits \cup {NoDigest} THEN LegacyStatuses ELSE Declares[d]

\* bind_identity_and_decls: the digest must still have a release record of the
\* job's skill; a job without a digest needs at least a skill.
Bound(r, known) ==
  /\ r.skill # NoSkill
  /\ r.digest # NoDigest => r.digest \in known /\ SkillOf[r.digest] = r.skill

\* adapt_report: the identity is compulsory when the digest declares statuses,
\* and must agree with the job's binding wherever it is given.
IdentityOK(r, report, required) ==
  IF report.ident = NoDigest THEN ~required ELSE report.ident = r.digest

Required(d) == d \in Digests \ Omits

Adapts(r, report, known) ==
  /\ Bound(r, known)
  /\ IdentityOK(r, report, Required(r.digest))
  /\ report.status \in Vocabulary(r.digest)

\* skill and digest in each other's place
MutantSwapIdentity(r, report) ==
  [skill |-> r.digest, digest |-> r.skill, status |-> report.status,
   success |-> report.status \in Succeeds[r.digest]]

ResultOf(r, report) ==
  [skill |-> r.skill, digest |-> r.digest, status |-> report.status,
   success |-> report.status \in Succeeds[r.digest]]

\* A final state with a report body.
ApplyReport(r, report, known) ==
  IF report = NullData THEN FailProtocol(r)
  ELSE IF report.paused THEN EndWithout(r, "paused", r.protocol_error)
  ELSE IF Adapts(r, report, known) THEN FinalizeResult(r, ResultOf(r, report))
  ELSE FailProtocol(r)

Misdispatched(r, u) == r.client \notin {NoClient, u.client}

ApplyFinal(r, u, known) ==
  IF Misdispatched(r, u) THEN FailProtocol(r)
  ELSE IF u.data # NoData THEN ApplyReport(r, u.data, known)
  ELSE IF ~u.protocol_error /\ u.state = "failed" THEN EndWithout(r, "failed", r.protocol_error)
  ELSE FailProtocol(r)

\* apply_update: the client is filled in when unknown, and the raw data is
\* overwritten before anything is decided.
Stamp(r, u) == [r EXCEPT !.client = IF @ = NoClient THEN u.client ELSE @,
                         !.data = IF u.data = NoData THEN @ ELSE u.data]

ApplyUpdate(r0, u, known) ==
  LET r == Stamp(r0, u)
  IN  IF u.state \in {"running", "queued", "cancelling"} THEN Progress(r, u.state)
      ELSE IF u.state = "paused"    THEN EndWithout(r, "paused", FALSE)
      ELSE IF u.state = "cancelled" THEN FinalizeCancel(r)
      ELSE ApplyFinal(r, u, known)
=============================================================================
