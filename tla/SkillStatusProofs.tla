-------------------------- MODULE SkillStatusProofs --------------------------
(***************************************************************************)
(* What one client report can do to one job record, whatever it says and   *)
(* whenever it comes (skill_status.rs:286-455): lemmas on ApplyUpdate that *)
(* the proofs of the store and of the fleet rest on.                       *)
(***************************************************************************)
EXTENDS SkillStatus, TLAPS

\* q follows on r: the types, the profile, that an end is an end, and that a new
\* result has a status out of S.
Follows(r, q, S) ==
  /\ q \in JobRecord
  /\ q.profile = r.profile
  /\ r.state \in Terminal => q.state \in Terminal
  /\ q.result = r.result \/ (q.result \in BusinessResult /\ q.result.status \in S)

\* The statuses a message can decide a job with.
Delivers(data) == IF data \in Report /\ ~data.paused THEN {data.status} ELSE {}

\* A scheduler state that ends nothing (skill_status.rs:303-317).
LEMMA ProgressFollows ==
  ASSUME NEW r \in JobRecord, NEW state \in JobStates
  PROVE  Follows(r, Progress(r, state).rec, {})
BY DEF Follows, Progress, Outcome, JobRecord

\* A protocol failure (skill_status.rs:419-428).
LEMMA FailProtocolFollows ==
  ASSUME NEW r \in JobRecord
  PROVE  Follows(r, FailProtocol(r).rec, {})
BY DEF Follows, FailProtocol, Outcome, JobRecord, JobStates, Terminal

\* A cancel (skill_status.rs:407-417).
LEMMA FinalizeCancelFollows ==
  ASSUME NEW r \in JobRecord
  PROVE  Follows(r, FinalizeCancel(r).rec, {})
BY DEF Follows, FinalizeCancel, Outcome, JobRecord, JobStates, Terminal

\* An end without a business result (skill_status.rs:318-369).
LEMMA EndWithoutFollows ==
  ASSUME NEW r \in JobRecord, NEW state \in {"paused", "failed"}, NEW perr \in BOOLEAN
  PROVE  Follows(r, EndWithout(r, state, perr).rec, {})
BY DEF Follows, EndWithout, Outcome, JobRecord, JobStates, Terminal

\* A business result (skill_status.rs:430-455).
LEMMA FinalizeResultFollows ==
  ASSUME NEW r \in JobRecord, NEW new \in BusinessResult
  PROVE  Follows(r, FinalizeResult(r, new).rec, {new.status})
<1>1. CASE r.result # NoResult
  BY <1>1 DEF Follows, FinalizeResult, Outcome
<1>2. CASE r.result = NoResult
  <2> DEFINE q == FinalizeResult(r, new).rec
  <2>1. q = [r EXCEPT !.result = new, !.protocol_error = FALSE,
                      !.state = IF new.success THEN "succeeded" ELSE "failed",
                      !.success_counted = @ \/ new.success]
    BY <1>2 DEF FinalizeResult, Outcome
  <2>2. new.success \in BOOLEAN
    BY DEF BusinessResult
  <2>3. q \in JobRecord /\ q.profile = r.profile /\ q.state \in {"succeeded", "failed"} /\ q.result = new
    BY <2>1, <2>2 DEF JobRecord, JobStates
  <2> QED
    BY <2>3 DEF Follows, Terminal
<1> QED
  BY <1>1, <1>2

\* The result that is made of an adapted report is a business result.
LEMMA AdaptedResult ==
  ASSUME NEW r \in JobRecord, NEW report \in Report, NEW known, Adapts(r, report, known)
  PROVE  ResultOf(r, report) \in BusinessResult /\ ResultOf(r, report).status = report.status
<1>1. r.skill \in Skills /\ r.digest \in Digests \cup {NoDigest}
  BY DEF JobRecord, Adapts, Bound
<1>2. Vocabulary(r.digest) \subseteq Statuses
  BY <1>1, DeclarationAssumption DEF Vocabulary
<1>3. report.status \in Statuses
  BY <1>2 DEF Adapts
<1> QED
  BY <1>1, <1>3 DEF ResultOf, BusinessResult

\* The body of a final state (skill_status.rs:330-360).
LEMMA ApplyReportFollows ==
  ASSUME NEW r \in JobRecord, NEW data \in Data, data # NoData, NEW known
  PROVE  Follows(r, ApplyReport(r, data, known).rec, Delivers(data))
<1>1. r.protocol_error \in BOOLEAN
  BY DEF JobRecord
<1>2. CASE data = NullData
  BY <1>2, FailProtocolFollows DEF ApplyReport, Follows
<1>3. CASE data \in Report
  <2>1. data # NullData
    BY <1>3, NoRecordAssumption
  <2>2. CASE data.paused
    BY <2>1, <2>2, <1>1, EndWithoutFollows DEF ApplyReport, Follows
  <2>3. CASE ~data.paused /\ Adapts(r, data, known)
    <3>1. Follows(r, FinalizeResult(r, ResultOf(r, data)).rec, {data.status})
      BY <1>3, <2>3, AdaptedResult, FinalizeResultFollows
    <3> QED
      BY <3>1, <2>1, <2>3, <1>3 DEF ApplyReport, Delivers
  <2>4. CASE ~data.paused /\ ~Adapts(r, data, known)
    BY <2>1, <2>4, FailProtocolFollows DEF ApplyReport, Follows
  <2> QED
    BY <2>2, <2>3, <2>4
<1> QED
  BY <1>2, <1>3 DEF Data

\* apply_update as a whole (skill_status.rs:286-405).
LEMMA ApplyUpdateFollows ==
  ASSUME NEW r0 \in JobRecord, NEW u \in Update, NEW known
  PROVE  Follows(r0, ApplyUpdate(r0, u, known).rec, Delivers(u.data))
<1> DEFINE r == Stamp(r0, u)
<1>1. r \in JobRecord /\ r.profile = r0.profile /\ r.state = r0.state /\ r.result = r0.result
  BY DEF Stamp, JobRecord, Update
<1>2. u.state \in JobStates /\ u.data \in Data /\ u.protocol_error \in BOOLEAN
  BY DEF Update
<1>3. r.protocol_error \in BOOLEAN
  BY <1>1 DEF JobRecord
<1>4. ApplyUpdate(r0, u, known) =
        IF u.state \in {"running", "queued", "cancelling"} THEN Progress(r, u.state)
        ELSE IF u.state = "paused"    THEN EndWithout(r, "paused", FALSE)
        ELSE IF u.state = "cancelled" THEN FinalizeCancel(r)
        ELSE ApplyFinal(r, u, known)
  BY DEF ApplyUpdate
<1> HIDE DEF r
<1>5. Follows(r, ApplyFinal(r, u, known).rec, Delivers(u.data))
  <2>1. CASE Misdispatched(r, u)
    BY <2>1, <1>1, FailProtocolFollows DEF ApplyFinal, Follows
  <2>2. CASE ~Misdispatched(r, u) /\ u.data # NoData
    BY <2>2, <1>1, <1>2, ApplyReportFollows DEF ApplyFinal
  <2>3. CASE ~Misdispatched(r, u) /\ u.data = NoData
    BY <2>3, <1>1, <1>3, FailProtocolFollows, EndWithoutFollows DEF ApplyFinal, Follows
  <2> QED
    BY <2>1, <2>2, <2>3
<1>6. Follows(r, ApplyUpdate(r0, u, known).rec, Delivers(u.data))
  <2>1. CASE u.state \in {"running", "queued", "cancelling"}
    BY <2>1, <1>1, <1>2, <1>4, ProgressFollows DEF Follows
  <2>2. CASE u.state = "paused"
    BY <2>2, <1>1, <1>4, EndWithoutFollows DEF Follows
  <2>3. CASE u.state = "cancelled"
    BY <2>3, <1>1, <1>4, FinalizeCancelFollows DEF Follows
  <2>4. CASE u.state \in {"failed", "succeeded"}
    BY <2>4, <1>4, <1>5
  <2> QED
    BY <2>1, <2>2, <2>3, <2>4, <1>2 DEF JobStates
<1> QED
  BY <1>1, <1>6 DEF Follows

-----------------------------------------------------------------------------
\* A record whose state, digest and result go together: it is "succeeded" exactly
\* when it has a result that its digest declares a success.
Judged(r) ==
  /\ r.result # NoResult =>
       /\ r.result.digest = r.digest
       /\ r.result.success = (r.result.status \in Succeeds[r.digest])
       /\ r.state = IF r.result.success THEN "succeeded" ELSE "failed"
  /\ r.state = "succeeded" => r.result # NoResult

\* q goes on from r: the job's binding stays, the verdict fits, and a success
\* stays one.
GoesOn(r, q) ==
  /\ q.skill = r.skill /\ q.digest = r.digest
  /\ r.client # NoClient => q.client = r.client
  /\ Judged(r) => Judged(q)
  /\ Judged(r) /\ r.state = "succeeded" => q.state = "succeeded"

\* A result is only ever written over none (skill_status.rs:430-455).
LEMMA ResultGoesOn ==
  ASSUME NEW r \in JobRecord, NEW report \in Report, NEW known, Adapts(r, report, known)
  PROVE  GoesOn(r, FinalizeResult(r, ResultOf(r, report)).rec)
<1> DEFINE new == ResultOf(r, report)
           q == FinalizeResult(r, new).rec
<1> SUFFICES GoesOn(r, q)
  OBVIOUS
<1>1. /\ new.digest = r.digest
      /\ new.status = report.status
      /\ new.success = (report.status \in Succeeds[r.digest])
  BY DEF ResultOf
<1>2. CASE r.result # NoResult
  <2>1. q = r
    BY <1>2 DEF FinalizeResult, Outcome
  <2> HIDE DEF q, new
  <2> QED
    BY <2>1 DEF GoesOn
<1>3. CASE r.result = NoResult
  <2>1. q = [r EXCEPT !.result = new, !.protocol_error = FALSE,
                      !.state = IF new.success THEN "succeeded" ELSE "failed",
                      !.success_counted = @ \/ new.success]
    BY <1>3 DEF FinalizeResult, Outcome
  <2>2. /\ q.skill = r.skill /\ q.digest = r.digest /\ q.client = r.client
        /\ q.result = new /\ q.state = (IF new.success THEN "succeeded" ELSE "failed")
    BY <2>1 DEF JobRecord
  <2>3. r.state = "succeeded" => ~Judged(r)
    BY <1>3 DEF Judged
  <2>4. new # NoResult
    BY AdaptedResult, NoRecordAssumption
  <2> HIDE DEF q, new
  <2> QED
    BY <1>1, <2>2, <2>3, <2>4 DEF GoesOn, Judged
<1> QED
  BY <1>2, <1>3

\* What ends nothing, or ends without a result, is too late for a record that
\* has one (skill_status.rs:303-328, 362-428).
LEMMA UndecidedGoesOn ==
  ASSUME NEW r \in JobRecord, NEW state \in JobStates \ {"succeeded"}, NEW perr \in BOOLEAN
  PROVE  /\ GoesOn(r, Progress(r, state).rec)
         /\ GoesOn(r, EndWithout(r, state, perr).rec)
         /\ GoesOn(r, FailProtocol(r).rec)
         /\ GoesOn(r, FinalizeCancel(r).rec)
<1> DEFINE Kept(q) == \/ q = r
                      \/ /\ r.result = NoResult /\ q.result = NoResult /\ q.state # "succeeded"
                         /\ q.skill = r.skill /\ q.digest = r.digest /\ q.client = r.client
<1>1. ASSUME NEW q, Kept(q) PROVE GoesOn(r, q)
  BY <1>1 DEF GoesOn, Judged
<1>2. Kept(Progress(r, state).rec)
  BY DEF Progress, Outcome, JobRecord
<1>3. Kept(EndWithout(r, state, perr).rec)
  BY DEF EndWithout, Outcome, JobRecord
<1>4. Kept(FailProtocol(r).rec)
  BY DEF FailProtocol, Outcome, JobRecord
<1>5. Kept(FinalizeCancel(r).rec)
  BY DEF FinalizeCancel, Outcome, JobRecord
<1> QED
  BY <1>1, <1>2, <1>3, <1>4, <1>5

\* apply_update as a whole.
LEMMA ApplyUpdateGoesOn ==
  ASSUME NEW r0 \in JobRecord, NEW u \in Update, NEW known
  PROVE  GoesOn(r0, ApplyUpdate(r0, u, known).rec)
<1> DEFINE r == Stamp(r0, u)
           q == ApplyUpdate(r0, u, known).rec
<1> SUFFICES GoesOn(r0, q)
  OBVIOUS
<1>1. /\ r \in JobRecord /\ r.skill = r0.skill /\ r.digest = r0.digest /\ r.state = r0.state
      /\ r.result = r0.result /\ (r0.client # NoClient => r.client = r0.client)
  BY DEF Stamp, JobRecord, Update
<1>2. u.state \in JobStates /\ u.data \in Data /\ r.protocol_error \in BOOLEAN
  BY <1>1 DEF Update, JobRecord
<1>3. q = (IF u.state \in {"running", "queued", "cancelling"} THEN Progress(r, u.state)
           ELSE IF u.state = "paused"    THEN EndWithout(r, "paused", FALSE)
           ELSE IF u.state = "cancelled" THEN FinalizeCancel(r)
           ELSE ApplyFinal(r, u, known)).rec
  BY DEF ApplyUpdate
<1> HIDE DEF r, q
<1>4. GoesOn(r, ApplyFinal(r, u, known).rec)
  <2> USE <1>1, <1>2, UndecidedGoesOn DEF JobStates
  <2>1. CASE Misdispatched(r, u) \/ u.data = NoData
    BY <2>1 DEF ApplyFinal
  <2>2. CASE ~Misdispatched(r, u) /\ u.data # NoData
    <3>1. ApplyFinal(r, u, known) = ApplyReport(r, u.data, known)
      BY <2>2 DEF ApplyFinal
    <3>2. CASE u.data = NullData \/ u.data.paused \/ ~Adapts(r, u.data, known)
      BY <3>1, <3>2 DEF ApplyReport
    <3>3. CASE ~(u.data = NullData \/ u.data.paused \/ ~Adapts(r, u.data, known))
      <4>1. u.data \in Report
        BY <2>2, <3>3 DEF Data
      <4>2. ApplyFinal(r, u, known) = FinalizeResult(r, ResultOf(r, u.data))
        BY <3>1, <3>3 DEF ApplyReport
      <4> QED
        BY <3>3, <4>1, <4>2, ResultGoesOn
    <3> QED
      BY <3>2, <3>3
  <2> QED
    BY <2>1, <2>2
<1>5. GoesOn(r, q)
  <2> USE <1>1, <1>2, <1>3, UndecidedGoesOn DEF JobStates
  <2>1. CASE u.state \in {"running", "queued", "cancelling"}
    BY <2>1
  <2>2. CASE u.state = "paused"
    BY <2>2
  <2>3. CASE u.state = "cancelled"
    BY <2>3
  <2>4. CASE u.state \in {"failed", "succeeded"}
    BY <2>4, <1>4
  <2> QED
    BY <2>1, <2>2, <2>3, <2>4
<1> QED
  BY <1>1, <1>5 DEF GoesOn, Judged

\* A report that fits the job's binding and ends in a declared success makes an
\* undecided job "succeeded" (skill_status.rs:330-360, 430-455).
LEMMA SuccessIsTaken ==
  ASSUME NEW r0 \in JobRecord, NEW u \in Update, NEW known,
         u.state = "succeeded", u.data \in Report, ~u.data.paused,
         r0.client = u.client, r0.client # NoClient, Adapts(r0, u.data, known),
         u.data.status \in Succeeds[r0.digest], r0.result = NoResult
  PROVE  ApplyUpdate(r0, u, known).rec.state = "succeeded"
<1> DEFINE r == Stamp(r0, u)
<1>1. /\ r \in JobRecord /\ r.skill = r0.skill /\ r.digest = r0.digest
      /\ r.result = NoResult /\ r.client = u.client
  BY DEF Stamp, JobRecord, Update
<1>2. u.data # NoData /\ u.data # NullData
  BY NoRecordAssumption
<1>3. ApplyUpdate(r0, u, known) = ApplyFinal(r, u, known)
  BY DEF ApplyUpdate
<1> HIDE DEF r
<1>4. Adapts(r, u.data, known)
  BY <1>1 DEF Adapts, Bound, IdentityOK
<1>5. ApplyFinal(r, u, known) = FinalizeResult(r, ResultOf(r, u.data))
  BY <1>1, <1>2, <1>4 DEF ApplyFinal, Misdispatched, ApplyReport
<1>6. ResultOf(r, u.data).success
  BY <1>1 DEF ResultOf
<1> DEFINE new == ResultOf(r, u.data)
<1>7. ApplyUpdate(r0, u, known).rec =
        [r EXCEPT !.result = new, !.protocol_error = FALSE,
                  !.state = IF new.success THEN "succeeded" ELSE "failed",
                  !.success_counted = @ \/ new.success]
  BY <1>1, <1>3, <1>5 DEF FinalizeResult, Outcome
<1> HIDE DEF new
<1> QED
  BY <1>1, <1>6, <1>7 DEF JobRecord, new
=============================================================================
