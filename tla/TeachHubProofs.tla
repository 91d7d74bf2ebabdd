--------------------------- MODULE TeachHubProofs ---------------------------
(***************************************************************************)
(* What a teach session keeps, for every number of requests, takeovers,    *)
(* connections and moves.                                                  *)
(*                                                                         *)
(*   types      TypeInv: what is sent to the worker are whole batches, and *)
(*              the reply the chat holds fits what it awaits.              *)
(*   takeover   CancelHeld: executor_paused is read once, before the first *)
(*              action; what stops a batch is the cancel flag.             *)
(*   answers    AnswerInv: every "ok" on its way to the hub is earned.     *)
(*   commands   CommandInv: the last command on its way to the worker says *)
(*              what the flags of the hub are.                             *)
(*   takeovers  NormInv: a takeover that was stopped is announced in one   *)
(*              message and has its waiter.                                *)
(*   the human  HumanInv: a step of the human is in one place: with the    *)
(*              extension, the buffer, a message, pending, or exported.    *)
(***************************************************************************)
EXTENDS TeachHub, FiniteSetTheorems, WellFoundedInduction, TLAPS

(* ----------------------------- the takeover ------------------------------ *)

CancelHeld == wactive => wcancel

\* Neither the chat nor the hub nor a connection touches the worker's threads.
LEMMA OnlyTheWorkerActs ==
  Next => \/ UNCHANGED <<wactive, wcancel, run>>
          \/ Receive /\ UNCHANGED run
          \/ Work /\ UNCHANGED <<wactive, wcancel>>
<1> SUFFICES ASSUME Next
             PROVE  \/ UNCHANGED <<wactive, wcancel, run>>
                    \/ Receive /\ UNCHANGED run
                    \/ Work /\ UNCHANGED <<wactive, wcancel>>
  OBVIOUS
<1>1. CASE Chat
  <2>1. CASE Send \/ Answered \/ Timeout \/ Cancelled
    BY <2>1 DEF Send, Answered, Timeout, Cancelled, workerVars
  <2>2. CASE StartTakeover \/ StopTakeover \/ NormalizeShown \/ NormalizeTimeout
    BY <2>2 DEF StartTakeover, StopTakeover, NormalizeShown, NormalizeTimeout, workerVars
  <2>3. CASE ResumeAgent \/ CancelKey \/ \E accept \in BOOLEAN : Confirm(accept)
    BY <2>3 DEF ResumeAgent, CancelKey, Confirm, workerVars
  <2> QED BY <1>1, <2>1, <2>2, <2>3 DEF Chat
<1>2. CASE Human
  BY <1>2 DEF Human, HubEvent, HumanActs, workerVars
<1>3. CASE Link
  BY <1>3 DEF Link, Drop, Pair, Dial, Accept, RegisterOutbound, Replay, HubEof, HubReset,
              NotLink, workerVars
<1>4. CASE Receive
  BY <1>4 DEF Receive, ReceiveRequest, ReceiveCancel, ReceiveStart, ReceiveStop, ReceiveResume,
              Receives
<1>5. CASE Work
  BY <1>5 DEF Work, Begin, Check, Act, ActFails, Normalize, NotWork
<1>6. ASSUME NEW c \in Conns, Handle(c) PROVE UNCHANGED <<wactive, wcancel, run>>
  BY <1>6 DEF Handle, HubResult, HubNormalized, workerVars
<1> QED BY <1>1, <1>2, <1>3, <1>4, <1>5, <1>6 DEF Next

\* The receive thread clears the cancel flag for a request only outside of a
\* takeover, and for a resume together with the takeover.
LEMMA ReceiveKeepsCancelHeld == CancelHeld /\ Receive => CancelHeld'
<1> SUFFICES ASSUME CancelHeld, Receive PROVE CancelHeld'
  OBVIOUS
<1>1. CASE ReceiveRequest
  BY <1>1 DEF ReceiveRequest, CancelHeld
<1>2. CASE ReceiveCancel \/ ReceiveStart \/ ReceiveStop
  BY <1>2 DEF ReceiveCancel, ReceiveStart, ReceiveStop, CancelHeld
<1>3. CASE ReceiveResume
  BY <1>3 DEF ReceiveResume, CancelHeld
<1> QED BY <1>1, <1>2, <1>3 DEF Receive

\* While the worker knows of a takeover its cancel flag is set.
THEOREM TakeoverHoldsCancel == Spec => []CancelHeld
<1>1. Init => CancelHeld
  BY DEF Init, CancelHeld
<1>2. CancelHeld /\ [Next]_vars => CancelHeld'
  <2> SUFFICES ASSUME CancelHeld, [Next]_vars PROVE CancelHeld'
    OBVIOUS
  <2>1. CASE Next
    BY <2>1, OnlyTheWorkerActs, ReceiveKeepsCancelHeld DEF CancelHeld
  <2>2. CASE UNCHANGED vars
    BY <2>2 DEF vars, workerVars, CancelHeld
  <2> QED BY <2>1, <2>2
<1> QED BY <1>1, <1>2, PTL DEF Spec

Begins == run # NoRun /\ run' # NoRun /\ ~run.go /\ run'.go

\* An action begins only in Check, with the cancel flag clear.
LEMMA WorkBeginsUncancelled == Work /\ Begins => ~wcancel
<1> SUFFICES ASSUME Work, Begins PROVE ~wcancel
  OBVIOUS
<1>1. ~Begin /\ ~Act /\ ~ActFails
  BY DEF Begins, Begin, Act, ActFails
<1>2. CASE Check
  BY <1>2 DEF Check, Finish, Begins
<1>3. CASE Normalize
  BY <1>3 DEF Normalize, Begins
<1> QED BY <1>1, <1>2, <1>3 DEF Work

\* The worker begins no action while it knows of a takeover (teach_hub.rs:698):
\* not in the batch it was executing, not in one that is queued or replayed.
THEOREM TakeoverKeepsAgentOff == Spec => NoActionStartsInTakeover
<1>1. CancelHeld /\ [Next]_vars => [Begins => ~wactive]_vars
  <2> SUFFICES ASSUME CancelHeld, Next, Begins PROVE ~wactive
    BY DEF vars
  <2>1. ~UNCHANGED run
    BY DEF Begins
  <2>2. Work
    BY <2>1, OnlyTheWorkerActs
  <2> QED BY <2>2, WorkBeginsUncancelled DEF CancelHeld
<1>2. [][Begins => ~wactive]_vars <=> NoActionStartsInTakeover
  BY PTL DEF NoActionStartsInTakeover, Begins
<1> QED BY <1>1, <1>2, TakeoverHoldsCancel, PTL DEF Spec

(* -------------------------- sequences by places -------------------------- *)

\* A set of numbers has a least element.
LEMMA Least ==
  ASSUME NEW T \in SUBSET Nat, T # {}
  PROVE  \E n \in T : \A m \in T : ~(m < n)
<1>1. \A n, m \in Nat : n < m => <<n, m>> \in OpToRel(<, Nat)
  BY Zenon DEF OpToRel
<1>2. PICK n \in T : \A m \in T : ~ (<<m, n>> \in OpToRel(<, Nat))
  BY WFMin, NatLessThanWellFounded, Zenon
<1> QED
  BY <1>1, <1>2, Zenon

\* Induction over the numbers, said of a set.
LEMMA SetInduction ==
  ASSUME NEW G, 0 \in G, \A n \in Nat : n \in G => n + 1 \in G
  PROVE  Nat \subseteq G
<1> SUFFICES ASSUME Nat \ G # {} PROVE FALSE
  OBVIOUS
<1>1. PICK n \in Nat \ G : \A m \in Nat \ G : ~(m < n)
  BY Least
<1> QED
  BY <1>1, n = 0 \/ (n - 1 \in Nat /\ n - 1 < n /\ (n - 1) + 1 = n)

KeptStep(f, q, I, n) ==
  IF n = 0 THEN <<>> ELSE IF n \in I THEN Append(f[n - 1], q[n]) ELSE f[n - 1]

\* What Kept computes, place by place.
LEMMA KeptUnfolds ==
  ASSUME NEW S, NEW q \in Seq(S), NEW I
  PROVE  \E f : /\ f = [n \in 0..Len(q) |-> KeptStep(f, q, I, n)]
                /\ Kept(q, I) = f[Len(q)]
<1> DEFINE Good == {m \in Nat : \E f : f = [n \in 0..m |-> KeptStep(f, q, I, n)]}
<1>1. 0 \in Good
  <2> DEFINE f == [n \in 0..0 |-> <<>>]
  <2>1. f = [n \in 0..0 |-> KeptStep(f, q, I, n)]
    BY DEF KeptStep
  <2> QED BY <2>1
<1>2. ASSUME NEW m \in Nat, m \in Good PROVE m + 1 \in Good
  <2>1. PICK f : f = [n \in 0..m |-> KeptStep(f, q, I, n)]
    BY <1>2
  <2> DEFINE g == [n \in 0..(m + 1) |-> IF n = m + 1 THEN KeptStep(f, q, I, n) ELSE f[n]]
  <2>2. \A n \in 0..(m + 1) : g[n] = KeptStep(g, q, I, n)
    <3> SUFFICES ASSUME NEW n \in 0..(m + 1) PROVE g[n] = KeptStep(g, q, I, n)
      OBVIOUS
    <3>1. CASE n = 0
      BY <3>1, <2>1 DEF KeptStep
    <3>2. CASE n # 0
      <4>1. n - 1 \in 0..m /\ g[n - 1] = f[n - 1]
        BY <3>2
      <4>2. CASE n = m + 1
        BY <4>1, <4>2, <3>2 DEF KeptStep
      <4>3. CASE n # m + 1
        <5>1. n \in 0..m /\ g[n] = f[n]
          BY <4>3
        <5>2. f[n] = KeptStep(f, q, I, n)
          BY <2>1, <5>1
        <5> QED BY <5>1, <5>2, <4>1, <3>2 DEF KeptStep
      <4> QED BY <4>2, <4>3
    <3> QED BY <3>1, <3>2
  <2>3. g = [n \in 0..(m + 1) |-> KeptStep(g, q, I, n)]
    <3> HIDE DEF KeptStep
    <3> QED BY <2>2
  <2>4. \E h : h = [n \in 0..(m + 1) |-> KeptStep(h, q, I, n)]
    <3> HIDE DEF g
    <3> QED BY <2>3
  <2> QED BY <2>4
<1>3. Nat \subseteq Good
  <2> HIDE DEF Good
  <2> QED BY <1>1, <1>2, SetInduction
<1>4. Len(q) \in Good
  BY <1>3
<1>5. \E f : f = [n \in 0..Len(q) |-> KeptStep(f, q, I, n)]
  BY <1>4
<1> DEFINE h == CHOOSE f : f = [n \in 0..Len(q) |-> KeptStep(f, q, I, n)]
<1>6. h = [n \in 0..Len(q) |-> KeptStep(h, q, I, n)]
  BY <1>5, Zenon
<1>7. Kept(q, I) = h[Len(q)]
  BY Zenon DEF Kept, KeptStep
<1> QED BY <1>6, <1>7

\* The elements of Kept are elements of q at places of I, in their order.
LEMMA KeptPlaces ==
  ASSUME NEW S, NEW q \in Seq(S), NEW I
  PROVE  /\ Kept(q, I) \in Seq(S)
         /\ \E g \in [1..Len(Kept(q, I)) -> I \cap DOMAIN q] :
              /\ \A a, b \in 1..Len(Kept(q, I)) : a < b => g[a] < g[b]
              /\ \A a \in 1..Len(Kept(q, I)) : Kept(q, I)[a] = q[g[a]]
<1>1. PICK f : /\ f = [n \in 0..Len(q) |-> KeptStep(f, q, I, n)]
               /\ Kept(q, I) = f[Len(q)]
  BY KeptUnfolds
<1> DEFINE Fine(s, n) ==
      /\ s \in Seq(S)
      /\ \E g \in [1..Len(s) -> I \cap (1..n)] :
           /\ \A a, b \in 1..Len(s) : a < b => g[a] < g[b]
           /\ \A a \in 1..Len(s) : s[a] = q[g[a]]
<1> DEFINE Good == {n \in Nat : n <= Len(q) => Fine(f[n], n)}
<1>2. 0 \in Good
  <2>1. f[0] = <<>>
    BY <1>1 DEF KeptStep
  <2>2. Fine(<<>>, 0)
    <3> DEFINE g == [a \in 1..0 |-> 0]
    <3>1. g \in [1..Len(<<>>) -> I \cap (1..0)]
      OBVIOUS
    <3>2. /\ \A a, b \in 1..Len(<<>>) : a < b => g[a] < g[b]
          /\ \A a \in 1..Len(<<>>) : <<>>[a] = q[g[a]]
      OBVIOUS
    <3>3. <<>> \in Seq(S)
      OBVIOUS
    <3> HIDE DEF g
    <3> QED BY <3>1, <3>2, <3>3
  <2> HIDE DEF Fine
  <2> QED BY <2>1, <2>2
<1>3. ASSUME NEW n \in Nat, n \in Good PROVE n + 1 \in Good
  <2> SUFFICES ASSUME n + 1 <= Len(q) PROVE Fine(f[n + 1], n + 1)
    OBVIOUS
  <2>1. Fine(f[n], n)
    BY <1>3
  <2>2. f[n + 1] = IF n + 1 \in I THEN Append(f[n], q[n + 1]) ELSE f[n]
    <3>1. n + 1 \in 0..Len(q) /\ n + 1 # 0 /\ (n + 1) - 1 = n
      OBVIOUS
    <3> QED BY <1>1, <3>1 DEF KeptStep
  <2>3. PICK g \in [1..Len(f[n]) -> I \cap (1..n)] :
           /\ \A a, b \in 1..Len(f[n]) : a < b => g[a] < g[b]
           /\ \A a \in 1..Len(f[n]) : f[n][a] = q[g[a]]
    BY <2>1
  <2>4. CASE n + 1 \notin I
    <3>1. g \in [1..Len(f[n]) -> I \cap (1..(n + 1))]
      OBVIOUS
    <3>2. Fine(f[n], n + 1)
      BY <2>1, <2>3, <3>1
    <3> HIDE DEF Fine
    <3> QED BY <2>2, <2>4, <3>2
  <2>5. CASE n + 1 \in I
    <3> DEFINE s == f[n]
               k == Len(s) + 1
               h == [a \in 1..k |-> IF a = k THEN n + 1 ELSE g[a]]
               t == Append(s, q[n + 1])
    <3>1. s \in Seq(S) /\ q[n + 1] \in S /\ Len(s) \in Nat
      BY <2>1
    <3>2. t \in Seq(S) /\ Len(t) = k /\ t[k] = q[n + 1] /\ \A a \in 1..Len(s) : t[a] = s[a]
      BY <3>1
    <3>3. \A a \in 1..k : a = k \/ a \in 1..Len(s)
      BY <3>1
    <3>4. h \in [1..Len(t) -> I \cap (1..(n + 1))]
      BY <3>1, <3>2, <3>3, <2>5
    <3>5. ASSUME NEW a \in 1..Len(t), NEW b \in 1..Len(t), a < b PROVE h[a] < h[b]
      <4>1. a \in 1..Len(s) /\ h[a] = g[a] /\ g[a] \in 1..n
        <5>1. a \in 1..k /\ b \in 1..k /\ a # k
          BY <3>1, <3>2, <3>5
        <5>2. a \in 1..Len(s)
          BY <3>1, <5>1
        <5>3. h[a] = g[a]
          BY <5>1
        <5>4. g[a] \in I \cap (1..n)
          BY <5>2, <2>3
        <5> QED BY <5>2, <5>3, <5>4
      <4>2. CASE b = k
        <5>1. h[b] = n + 1
          BY <4>2
        <5> QED BY <4>1, <5>1
      <4>3. CASE b # k
        <5>1. b \in 1..Len(s) /\ h[b] = g[b]
          BY <4>3, <3>2, <3>3
        <5> QED BY <4>1, <5>1, <3>5, <2>3
      <4> QED BY <4>2, <4>3
    <3>6. ASSUME NEW a \in 1..Len(t) PROVE t[a] = q[h[a]]
      <4>1. CASE a = k
        BY <4>1, <3>2
      <4>2. CASE a # k
        <5>1. a \in 1..Len(s) /\ h[a] = g[a] /\ t[a] = s[a]
          BY <4>2, <3>2, <3>3
        <5>2. s[a] = q[g[a]]
          BY <2>3, <5>1
        <5> QED BY <5>1, <5>2
      <4> QED BY <4>1, <4>2
    <3>7. Fine(t, n + 1)
      <4> HIDE DEF h, t
      <4> QED BY <3>2, <3>4, <3>5, <3>6
    <3> HIDE DEF Fine
    <3> QED BY <3>7, <2>2, <2>5
  <2> QED BY <2>4, <2>5
<1>4. Nat \subseteq Good
  <2> HIDE DEF Good
  <2> QED BY <1>2, <1>3, SetInduction
<1>5. Fine(f[Len(q)], Len(q))
  BY <1>4
<1>6. Fine(Kept(q, I), Len(q))
  <2> HIDE DEF Fine
  <2> QED BY <1>1, <1>5
<1>7. DOMAIN q = 1..Len(q)
  OBVIOUS
<1> QED BY <1>6, <1>7

(* --------------------------------- types --------------------------------- *)

(* envelopes *)
\* A batch on its way has a step at least, and an agent's batch is its own.
IsWhole(id, steps) == steps # <<>> /\ (id \in Requests => steps = Batch(id))

Sent     == {e \in ToWorker : IsRequest(e) => IsWhole(e.id, e.steps)}
Running  == {r \in [id : Ids, steps : Events, i : Nat, skip : BOOLEAN, go : BOOLEAN] :
               IsWhole(r.id, r.steps) /\ r.i \in 1..Len(r.steps)}
ActionReplies == [id : Ids, ok : BOOLEAN]
NormalReplies == [id : Takeovers, needs : BOOLEAN]
Results  == [id : Takeovers, steps : Events, needs : Events]

HubTypes ==
  /\ paused \in BOOLEAN /\ takeover \in BOOLEAN /\ tid \in Takeovers \cup {0}
  /\ buffer \in Events
  /\ pending \in Results \cup {NoPending}
  /\ waiters \in SUBSET Requests /\ normWaiters \in SUBSET Takeovers
  /\ exported \in [Steps -> Nat]
LogTypes  == timeline \in Seq(Sent)
SnapTypes == snap \in [Conns -> 0..Len(timeline)]
LinkTypes ==
  /\ outbound \in Conns \cup {0} /\ cur \in Conns \cup {0} /\ paired \in BOOLEAN
  /\ conn \in [Conns -> {"none", "dialled", "accepted", "registered", "open", "ended"}]
DownTypes == down \in Seq(Sent)
UpTypes   == up \in [Conns -> Seq(ToHub)]
WorkerTypes ==
  /\ wpaused \in BOOLEAN /\ wactive \in BOOLEAN /\ wcancel \in BOOLEAN
  /\ queue \in Seq(Sent)
RunTypes == run \in Running \cup {NoRun}
ReplyTypes ==
  CASE at = "action"    -> reply \in ActionReplies \cup {NoReply}
    [] at = "normalize" -> reply \in NormalReplies \cup {NoReply}
    [] OTHER            -> reply = NoReply
ChatTypes ==
  /\ at \in {"idle", "action", "normalize"} /\ nreq \in Requests \cup {0}
  /\ recording \in BOOLEAN /\ held \in BOOLEAN /\ confirm \in BOOLEAN
  /\ told \in [Requests -> {"none", "ok", "done", "failed", "cancelled"}]
  /\ ReplyTypes
RecordTypes == recording \/ takeover => tid \in Takeovers
SeenTypes ==
  /\ flight \in Events /\ acted \subseteq Steps /\ performed \subseteq Steps
  /\ moves \in 0..MaxMoves

TypeInv ==
  /\ HubTypes /\ LogTypes /\ SnapTypes /\ LinkTypes /\ DownTypes /\ UpTypes
  /\ WorkerTypes /\ RunTypes /\ ChatTypes /\ RecordTypes /\ SeenTypes

\* What the bounds are, and that requests and takeovers have different ids.
LEMMA Bounds == /\ MaxRequests \in Nat /\ MaxTakeovers \in Nat /\ MaxConns \in Nat
                /\ MaxMoves \in Nat /\ 1 \in Conns
                /\ Requests \subseteq Nat \ {0} /\ Takeovers \subseteq Nat \ {0}
                /\ Conns \subseteq Nat \ {0}
                /\ Requests \cap Takeovers = {} /\ Ids = Requests \cup Takeovers
<1>1. /\ MaxRequests \in Nat /\ MaxTakeovers \in Nat /\ MaxConns \in Nat
      /\ MaxMoves \in Nat /\ MaxConns >= 1
  BY TeachAssumption
<1> QED BY <1>1 DEF Requests, Takeovers, Conns, Ids

\* Sequences over a set.
LEMMA SeqOps ==
  ASSUME NEW S, NEW q \in Seq(S)
  PROVE  /\ DOMAIN q = 1..Len(q) /\ Len(q) \in Nat
         /\ \A i \in DOMAIN q : q[i] \in S
         /\ q # <<>> => Head(q) \in S /\ Tail(q) \in Seq(S)
         /\ \A e \in S : Append(q, e) \in Seq(S)
         /\ \A r \in Seq(S) : q \o r \in Seq(S)
  OBVIOUS

\* A part of a sequence.
LEMMA SubSeqIn ==
  ASSUME NEW S, NEW q \in Seq(S), NEW m \in Nat \ {0}, NEW n \in 0..Len(q)
  PROVE  /\ SubSeq(q, m, n) \in Seq(S)
         /\ Len(SubSeq(q, m, n)) = IF m <= n THEN n - m + 1 ELSE 0
         /\ \A i \in 1..(n - m + 1) : SubSeq(q, m, n)[i] = q[m + i - 1]
  OBVIOUS

\* The batch of a request is one of two steps.
LEMMA Batches == \A r \in Requests : Batch(r) \in Events /\ IsWhole(r, Batch(r)) /\ Len(Batch(r)) = 2
<1> SUFFICES ASSUME NEW r \in Requests
             PROVE  Batch(r) \in Events /\ IsWhole(r, Batch(r)) /\ Len(Batch(r)) = 2
  OBVIOUS
<1>1. <<r, 1>> \in Steps /\ <<r, 2>> \in Steps
  BY Bounds DEF Steps
<1> QED BY <1>1 DEF Batch, Events, IsWhole

\* The envelopes that are sent to the worker are fit to be sent.
LEMMA Makes ==
  /\ Resume \in Sent /\ Cancel \in Sent /\ PairingResult \in Sent
  /\ \A t \in Takeovers : Start(t) \in Sent
  /\ \A t \in Takeovers : \A s \in Events : Stop(t, s) \in Sent
  /\ \A id \in Ids : \A s \in Events : IsWhole(id, s) => Request(id, s) \in Sent
  /\ \A id \in Ids : \A ok \in BOOLEAN : Result(id, ok) \in ToHub
  /\ \A t \in Takeovers : \A s, n \in Events : Normalized(t, s, n) \in ToHub
<1>1. Resume \in Sent /\ Cancel \in Sent /\ PairingResult \in Sent
  BY DEF Resume, Cancel, PairingResult, Sent, ToWorker, IsRequest
<1>2. \A t \in Takeovers : Start(t) \in Sent
  BY DEF Start, Sent, ToWorker, IsRequest
<1>3. \A t \in Takeovers : \A s \in Events : Stop(t, s) \in Sent
  BY DEF Stop, Sent, ToWorker, IsRequest
<1>4. ASSUME NEW id \in Ids, NEW s \in Events, IsWhole(id, s) PROVE Request(id, s) \in Sent
  BY <1>4 DEF Request, Sent, ToWorker, IsRequest
<1>5. \A id \in Ids : \A ok \in BOOLEAN : Result(id, ok) \in ToHub
  BY DEF Result, ToHub
<1>6. \A t \in Takeovers : \A s, n \in Events : Normalized(t, s, n) \in ToHub
  BY DEF Normalized, ToHub
<1> QED BY <1>1, <1>2, <1>3, <1>4, <1>5, <1>6

\* What is known of a message by its type.
LEMMA Reads ==
  /\ \A e \in Sent : e.type = "action_request" => e.id \in Ids /\ e.steps \in Events /\ IsWhole(e.id, e.steps)
  /\ \A e \in Sent : e.type = "takeover_stop" => e.id \in Takeovers /\ e.steps \in Events
  /\ \A e \in Sent : e.type = "takeover_start" => e.id \in Takeovers
  /\ \A m \in ToHub : m.type = "action_result" => m.id \in Ids /\ m.ok \in BOOLEAN
  /\ \A m \in ToHub : m.type = "normalize_result" =>
       m.id \in Takeovers /\ m.steps \in Events /\ m.needs \in Events
<1>1. \A e \in Sent : e.type = "action_request" => e.id \in Ids /\ e.steps \in Events /\ IsWhole(e.id, e.steps)
  BY DEF Sent, ToWorker, IsRequest, Resume, Cancel, PairingResult
<1>2. \A e \in Sent : e.type = "takeover_stop" => e.id \in Takeovers /\ e.steps \in Events
  BY DEF Sent, ToWorker, IsRequest, Resume, Cancel, PairingResult
<1>3. \A e \in Sent : e.type = "takeover_start" => e.id \in Takeovers
  BY DEF Sent, ToWorker, IsRequest, Resume, Cancel, PairingResult
<1>4. \A m \in ToHub : m.type = "action_result" => m.id \in Ids /\ m.ok \in BOOLEAN
  BY DEF ToHub
<1>5. \A m \in ToHub : m.type = "normalize_result" =>
       m.id \in Takeovers /\ m.steps \in Events /\ m.needs \in Events
  BY DEF ToHub
<1> QED BY <1>1, <1>2, <1>3, <1>4, <1>5

\* Counting what is exported yields numbers.
LEMMA CountedTypes ==
  ASSUME exported \in [Steps -> Nat], NEW s \in Events
  PROVE  Counted(s) \in [Steps -> Nat]
<1> SUFFICES ASSUME NEW e \in Steps
             PROVE  exported[e] + Cardinality({i \in DOMAIN s : s[i] = e}) \in Nat
  BY DEF Counted
<1>1. IsFiniteSet(1..Len(s)) /\ DOMAIN s = 1..Len(s)
  BY FS_Interval DEF Events
<1>2. IsFiniteSet({i \in DOMAIN s : s[i] = e})
  BY <1>1, FS_Subset
<1> QED BY <1>2, FS_CardinalityType

\* A session starts well typed.
LEMMA InitTypes == Init => TypeInv
<1> SUFFICES ASSUME Init PROVE TypeInv
  OBVIOUS
<1> USE Bounds
<1>1. HubTypes
  <2>1. pending \in Results \cup {NoPending} /\ buffer \in Events /\ exported \in [Steps -> Nat]
    BY DEF Init, Events
  <2>2. /\ paused \in BOOLEAN /\ takeover \in BOOLEAN /\ tid \in Takeovers \cup {0}
        /\ waiters \in SUBSET Requests /\ normWaiters \in SUBSET Takeovers
    BY DEF Init
  <2> QED BY <2>1, <2>2 DEF HubTypes
<1>2. LogTypes /\ SnapTypes
  BY DEF Init, LogTypes, SnapTypes
<1>3. LinkTypes
  BY DEF Init, LinkTypes
<1>4. DownTypes /\ UpTypes
  BY DEF Init, DownTypes, UpTypes
<1>5. WorkerTypes /\ RunTypes
  <2>1. queue = <<>> /\ wpaused \in BOOLEAN /\ wactive \in BOOLEAN /\ wcancel \in BOOLEAN
    BY DEF Init
  <2>2. run \in Running \cup {NoRun}
    BY DEF Init
  <2>3. queue \in Seq(Sent)
    BY <2>1
  <2> QED BY <2>1, <2>2, <2>3 DEF WorkerTypes, RunTypes
<1>6. ChatTypes /\ RecordTypes
  BY DEF Init, ChatTypes, RecordTypes, ReplyTypes
<1>7. SeenTypes
  BY DEF Init, SeenTypes, Events
<1> QED BY <1>1, <1>2, <1>3, <1>4, <1>5, <1>6, <1>7 DEF TypeInv

\* Envelopes that are posted.
LEMMA PostTypes ==
  ASSUME DownTypes, NEW envs \in Seq(Sent), Post(envs) PROVE DownTypes'
  BY SeqOps DEF DownTypes, Post, Posted

\* Logging fit messages keeps the timeline fit, and the places in it.
LEMMA LogGrows ==
  ASSUME LogTypes, SnapTypes, NEW envs \in Seq(Sent), Log(envs), UNCHANGED snap
  PROVE  LogTypes' /\ SnapTypes'
<1>1. LogTypes'
  BY SeqOps DEF LogTypes, Log
<1>2. Len(timeline') >= Len(timeline) /\ Len(timeline) \in Nat /\ Len(timeline') \in Nat
  BY DEF LogTypes, Log
<1> QED BY <1>1, <1>2 DEF SnapTypes

\* A worker that responds with messages to the hub sends nothing else.
LEMMA RespondTypes ==
  ASSUME UpTypes, LinkTypes, NEW msgs \in Seq(ToHub), Respond(msgs) PROVE UpTypes'
<1>1. CASE cur = 0
  BY <1>1 DEF Respond, UpTypes
<1>2. CASE cur # 0
  <2>1. cur \in Conns /\ up[cur] \in Seq(ToHub) /\ up[cur] \o msgs \in Seq(ToHub)
    BY <1>2, SeqOps DEF LinkTypes, UpTypes
  <2> QED BY <1>2, <2>1 DEF Respond, UpTypes
<1> QED BY <1>1, <1>2

\* A function on the first numbers is a sequence.
LEMMA FunSeq ==
  ASSUME NEW S, NEW n \in Nat, NEW f \in [1..n -> S]
  PROVE  f \in Seq(S) /\ Len(f) = n
  OBVIOUS

Rejections ==
  LET requests == Kept(queue, {i \in DOMAIN queue : IsRequest(queue[i])}) IN
  [i \in DOMAIN requests |-> Result(requests[i].id, FALSE)]

\* _reject_queued_actions answers every queued request with a failure.
LEMMA RejectedRequests ==
  ASSUME WorkerTypes
  PROVE  \E n \in Nat : \E id \in [1..n -> Ids] : Rejections = [i \in 1..n |-> Result(id[i], FALSE)]
<1> DEFINE I == {i \in DOMAIN queue : IsRequest(queue[i])}
           requests == Kept(queue, I)
<1>1. queue \in Seq(Sent)
  BY DEF WorkerTypes
<1>2. PICK g \in [1..Len(requests) -> I \cap DOMAIN queue] :
         \A a \in 1..Len(requests) : requests[a] = queue[g[a]]
  <2> HIDE DEF I
  <2> QED BY <1>1, KeptPlaces
<1>3. requests \in Seq(Sent)
  BY <1>1, KeptPlaces
<1>4. ASSUME NEW a \in 1..Len(requests) PROVE requests[a].id \in Ids
  <2>1. g[a] \in I /\ requests[a] = queue[g[a]]
    BY <1>2
  <2>2. requests[a].type = "action_request" /\ requests[a] \in Sent
    BY <2>1, <1>3 DEF IsRequest
  <2> QED BY <2>2, Reads
<1>5. DOMAIN requests = 1..Len(requests) /\ Len(requests) \in Nat
  BY <1>3
<1> DEFINE id == [i \in 1..Len(requests) |-> requests[i].id]
<1>6. id \in [1..Len(requests) -> Ids]
  BY <1>4
<1>7. Rejections = [i \in 1..Len(requests) |-> Result(id[i], FALSE)]
  BY <1>5 DEF Rejections
<1> HIDE DEF id, requests
<1> QED BY <1>5, <1>6, <1>7

\* Rejecting what is queued sends only results.
LEMMA RejectTypes ==
  ASSUME UpTypes, LinkTypes, WorkerTypes, RejectQueued PROVE UpTypes'
<1>0. PICK n \in Nat : \E id \in [1..n -> Ids] : Rejections = [i \in 1..n |-> Result(id[i], FALSE)]
  BY RejectedRequests
<1>1. PICK id \in [1..n -> Ids] : Rejections = [i \in 1..n |-> Result(id[i], FALSE)]
  BY <1>0
<1>2. \A i \in 1..n : Result(id[i], FALSE) \in ToHub
  <2>1. FALSE \in BOOLEAN
    OBVIOUS
  <2> QED BY <2>1, Makes, Zenon
<1>3. Rejections \in [1..n -> ToHub]
  BY <1>1, <1>2
<1>4. Rejections \in Seq(ToHub)
  BY <1>3, FunSeq
<1>5. Respond(Rejections)
  BY DEF RejectQueued, Rejections
<1> QED BY <1>4, <1>5, RespondTypes

\* What stays queued is fit to be queued.
LEMMA StopsTypes == ASSUME WorkerTypes PROVE StopsQueued \in Seq(Sent)
  BY KeptPlaces DEF WorkerTypes, StopsQueued

\* A step that touches neither side of a group keeps it.
LEMMA SameTypes ==
  ASSUME TypeInv
  PROVE  /\ UNCHANGED <<paused, takeover, tid, buffer, pending, waiters, normWaiters, exported>>
              => HubTypes'
         /\ UNCHANGED <<timeline, snap>> => LogTypes' /\ SnapTypes'
         /\ UNCHANGED <<outbound, cur, paired, conn>> => LinkTypes'
         /\ UNCHANGED down => DownTypes'
         /\ UNCHANGED up => UpTypes'
         /\ UNCHANGED <<wpaused, wactive, wcancel, queue>> => WorkerTypes'
         /\ UNCHANGED run => RunTypes'
         /\ UNCHANGED <<at, nreq, recording, held, confirm, told, reply>> => ChatTypes'
         /\ UNCHANGED <<recording, takeover, tid>> => RecordTypes'
         /\ UNCHANGED <<flight, acted, performed, moves>> => SeenTypes'
  BY DEF TypeInv, HubTypes, LogTypes, SnapTypes, LinkTypes, DownTypes, UpTypes, WorkerTypes,
         RunTypes, ChatTypes, ReplyTypes, RecordTypes, SeenTypes

\* A move uses one up.
LEMMA MoveTypes == SeenTypes /\ Move => moves' \in 0..MaxMoves
  BY Bounds DEF SeenTypes, Move

\* Appending is concatenation.
LEMMA AppendIs ==
  ASSUME NEW S, NEW q \in Seq(S), NEW e \in S
  PROVE  Append(q, e) = q \o <<e>> /\ <<e>> \in Seq(S)
<1>1. <<e>> \in Seq(S) /\ Len(<<e>>) = 1 /\ <<e>>[1] = e
  OBVIOUS
<1>2. Len(Append(q, e)) = Len(q) + 1 /\ Len(q \o <<e>>) = Len(q) + 1
  OBVIOUS
<1>3. ASSUME NEW i \in 1..(Len(q) + 1) PROVE Append(q, e)[i] = (q \o <<e>>)[i]
  BY <1>1
<1>4. Append(q, e) \in Seq(S) /\ q \o <<e>> \in Seq(S)
  BY <1>1
<1> QED BY <1>1, <1>2, <1>3, <1>4

\* One lemma for each thing the chat does.
LEMMA SendTypes == TypeInv /\ Send => TypeInv'
<1> SUFFICES ASSUME TypeInv, Send PROVE TypeInv'
  OBVIOUS
<1> DEFINE r == nreq + 1
           envs == <<Request(r, Batch(r))>>
<1>0. /\ HubTypes /\ LogTypes /\ SnapTypes /\ LinkTypes /\ DownTypes /\ ChatTypes /\ SeenTypes
      /\ r \in Requests
  BY Bounds DEF TypeInv, Send, ChatTypes, Requests
<1>1. envs \in Seq(Sent) /\ Batch(r) \in Events
  <2>1. Request(r, Batch(r)) \in Sent /\ Batch(r) \in Events
    BY <1>0, Bounds, Batches, Makes
  <2> QED BY <2>1
<1>2. LinkTypes' /\ UpTypes' /\ WorkerTypes' /\ RunTypes' /\ RecordTypes'
  BY SameTypes DEF Send, linkVars, workerVars
<1>3. SeenTypes'
  BY <1>0, MoveTypes DEF Send, SeenTypes
<1>4. ChatTypes'
  <2>1. reply = NoReply
    BY <1>0 DEF ChatTypes, ReplyTypes, Send
  <2>2. reply' = NoReply /\ at' \in {"idle", "action"}
    BY <2>1 DEF Send, Refused
  <2>3. ReplyTypes'
    BY <2>2 DEF ReplyTypes
  <2>4. told' \in [Requests -> {"none", "ok", "done", "failed", "cancelled"}]
    BY <1>0 DEF Send, Refused, ChatTypes
  <2>5. nreq' = r /\ recording' = recording /\ held' = held /\ confirm' = confirm
    BY DEF Send
  <2> QED BY <1>0, <2>2, <2>3, <2>4, <2>5 DEF ChatTypes
<1>5. CASE paused
  <2>1. UNCHANGED <<waiters, timeline, exported, down, snap>>
        /\ UNCHANGED <<paused, takeover, tid, buffer, pending, normWaiters>>
    BY <1>5 DEF Send, linkVars
  <2>2. HubTypes' /\ LogTypes' /\ SnapTypes' /\ DownTypes'
    BY <2>1, SameTypes
  <2> QED BY <2>2, <1>2, <1>3, <1>4 DEF TypeInv
<1>6. CASE ~paused
  <2>1. Log(envs) /\ exported' = Counted(Batch(r)) /\ (UNCHANGED down \/ Post(envs))
        /\ (waiters' = waiters \/ waiters' = waiters \cup {r}) /\ snap' = snap
        /\ UNCHANGED <<paused, takeover, tid, buffer, pending, normWaiters>>
    BY <1>6 DEF Send, linkVars
  <2>2. exported' \in [Steps -> Nat]
    BY <2>1, <1>0, <1>1, CountedTypes DEF HubTypes
  <2>3. HubTypes'
    BY <2>1, <2>2, <1>0 DEF HubTypes
  <2>4. LogTypes' /\ SnapTypes'
    BY <2>1, <1>0, <1>1, LogGrows
  <2>5. DownTypes'
    BY <2>1, <1>0, <1>1, PostTypes, SameTypes
  <2> QED BY <2>3, <2>4, <2>5, <1>2, <1>3, <1>4 DEF TypeInv
<1> QED BY <1>5, <1>6

\* Reading an answer or giving up on it.
LEMMA AwaitTypes == TypeInv /\ (Answered \/ Timeout \/ NormalizeShown \/ NormalizeTimeout) => TypeInv'
<1> SUFFICES ASSUME TypeInv, Answered \/ Timeout \/ NormalizeShown \/ NormalizeTimeout PROVE TypeInv'
  OBVIOUS
<1>1. HubTypes' /\ LogTypes' /\ SnapTypes' /\ LinkTypes' /\ DownTypes' /\ UpTypes' /\ WorkerTypes'
      /\ RunTypes' /\ SeenTypes'
  BY SameTypes DEF Answered, Timeout, NormalizeShown, NormalizeTimeout, hubVars, linkVars, workerVars
<1>2. ChatTypes /\ RecordTypes
  BY DEF TypeInv
<1>3. RecordTypes'
  BY <1>2 DEF RecordTypes, Answered, Timeout, NormalizeShown, NormalizeTimeout, hubVars
<1>4. ChatTypes'
  <2>1. CASE Answered \/ Timeout
    <3>1. at' = "idle" /\ reply' = NoReply /\ UNCHANGED <<nreq, recording, held, confirm>>
          /\ \E how \in {"ok", "done", "failed"} : told' = [told EXCEPT ![nreq] = how]
      BY <2>1 DEF Answered, Timeout, Shown
    <3> QED BY <3>1, <1>2 DEF ChatTypes, ReplyTypes
  <2>2. CASE NormalizeShown
    <3>1. reply \in NormalReplies
      BY <2>2, <1>2 DEF NormalizeShown, ChatTypes, ReplyTypes
    <3>2. reply.needs \in BOOLEAN
      BY <3>1 DEF NormalReplies
    <3>3. at' = "idle" /\ reply' = NoReply /\ UNCHANGED <<nreq, recording, told>>
          /\ confirm' = reply.needs /\ held' = reply.needs
      BY <2>2 DEF NormalizeShown
    <3> QED BY <3>2, <3>3, <1>2 DEF ChatTypes, ReplyTypes
  <2>3. CASE NormalizeTimeout
    <3>1. at' = "idle" /\ reply' = NoReply /\ UNCHANGED <<nreq, recording, told, confirm>> /\ held' = FALSE
      BY <2>3 DEF NormalizeTimeout
    <3> QED BY <3>1, <1>2 DEF ChatTypes, ReplyTypes
  <2> QED BY <2>1, <2>2, <2>3
<1> QED BY <1>1, <1>3, <1>4 DEF TypeInv

\* Cancelling an awaited batch.
LEMMA CancelledTypes == TypeInv /\ Cancelled => TypeInv'
<1> SUFFICES ASSUME TypeInv, Cancelled PROVE TypeInv'
  OBVIOUS
<1>1. LinkTypes' /\ UpTypes' /\ WorkerTypes' /\ RunTypes' /\ RecordTypes' /\ SeenTypes'
  BY SameTypes DEF Cancelled, linkVars, workerVars
<1>2. HubTypes /\ LogTypes /\ SnapTypes /\ DownTypes /\ ChatTypes
  BY DEF TypeInv
<1>3. <<Cancel>> \in Seq(Sent)
  BY Makes
<1>4. LogTypes' /\ SnapTypes' /\ DownTypes'
  BY <1>2, <1>3, LogGrows, PostTypes DEF Cancelled, linkVars
<1>5. HubTypes'
  BY <1>2 DEF HubTypes, Cancelled
<1>6. ChatTypes'
  BY <1>2 DEF ChatTypes, ReplyTypes, Cancelled, Shown
<1> QED BY <1>1, <1>4, <1>5, <1>6 DEF TypeInv

\* Starting a takeover: the id it takes exists.
LEMMA StartTypes == TypeInv /\ StartTakeover => TypeInv'
<1> SUFFICES ASSUME TypeInv, StartTakeover PROVE TypeInv'
  OBVIOUS
<1> DEFINE t == NextTakeover
<1>1. LinkTypes' /\ UpTypes' /\ WorkerTypes' /\ RunTypes'
  BY SameTypes DEF StartTakeover, linkVars, workerVars
<1>2. HubTypes /\ LogTypes /\ SnapTypes /\ DownTypes /\ ChatTypes /\ SeenTypes /\ t \in Takeovers
  BY DEF TypeInv, StartTakeover
<1>3. <<Start(t)>> \in Seq(Sent)
  BY <1>2, Makes
<1>4. LogTypes' /\ SnapTypes' /\ DownTypes'
  BY <1>2, <1>3, LogGrows, PostTypes DEF StartTakeover, linkVars
<1>5. HubTypes'
  <2>1. buffer' \in Events
    BY DEF StartTakeover, Events
  <2> HIDE DEF t
  <2> QED BY <1>2, <2>1 DEF HubTypes, StartTakeover
<1>6. ChatTypes'
  BY <1>2 DEF ChatTypes, ReplyTypes, StartTakeover
<1>7. SeenTypes'
  BY <1>2, MoveTypes DEF StartTakeover, SeenTypes
<1>8. RecordTypes'
  BY <1>2 DEF RecordTypes, StartTakeover
<1> QED BY <1>1, <1>4, <1>5, <1>6, <1>7, <1>8 DEF TypeInv

\* Stopping a takeover: the one that is stopped exists.
LEMMA StopTypes == TypeInv /\ StopTakeover => TypeInv'
<1> SUFFICES ASSUME TypeInv, StopTakeover PROVE TypeInv'
  OBVIOUS
<1>1. LinkTypes' /\ UpTypes' /\ WorkerTypes' /\ RunTypes' /\ SeenTypes'
  BY SameTypes DEF StopTakeover, linkVars, workerVars
<1>2. HubTypes /\ LogTypes /\ SnapTypes /\ DownTypes /\ ChatTypes /\ RecordTypes /\ tid \in Takeovers
  BY DEF TypeInv, StopTakeover, RecordTypes
<1>3. <<Stop(tid, <<>>)>> \in Seq(Sent) /\ <<Stop(tid, buffer)>> \in Seq(Sent)
  <2>1. <<>> \in Events /\ buffer \in Events
    BY <1>2 DEF HubTypes, Events
  <2> QED BY <2>1, <1>2, Makes
<1>4. LogTypes' /\ SnapTypes' /\ DownTypes'
  <2>1. UNCHANGED down \/ Post(<<Stop(tid, buffer)>>)
    BY DEF StopTakeover
  <2>2. DownTypes'
    BY <2>1, <1>2, <1>3, PostTypes, SameTypes
  <2> QED BY <2>2, <1>2, <1>3, LogGrows DEF StopTakeover, linkVars
<1>5. HubTypes'
  <2>1. buffer' \in Events
    BY DEF StopTakeover, Events
  <2>2. normWaiters' \in SUBSET Takeovers
    BY <1>2 DEF StopTakeover, HubTypes
  <2>3. paused' = TRUE /\ takeover' = FALSE /\ UNCHANGED <<tid, pending, waiters, exported>>
    BY DEF StopTakeover
  <2> QED BY <1>2, <2>1, <2>2, <2>3 DEF HubTypes
<1>6. ChatTypes'
  BY <1>2 DEF ChatTypes, ReplyTypes, StopTakeover
<1>7. RecordTypes'
  BY <1>2 DEF RecordTypes, StopTakeover
<1> QED BY <1>1, <1>4, <1>5, <1>6, <1>7 DEF TypeInv

\* Resuming the agent.
LEMMA ResumeTypes == TypeInv /\ ResumeAgent => TypeInv'
<1> SUFFICES ASSUME TypeInv, ResumeAgent PROVE TypeInv'
  OBVIOUS
<1>1. LinkTypes' /\ UpTypes' /\ WorkerTypes' /\ RunTypes'
  BY SameTypes DEF ResumeAgent, linkVars, workerVars
<1>2. HubTypes /\ LogTypes /\ SnapTypes /\ DownTypes /\ ChatTypes /\ SeenTypes
  BY DEF TypeInv
<1>3. <<Resume>> \in Seq(Sent)
  BY Makes
<1>4. LogTypes' /\ SnapTypes' /\ DownTypes'
  BY <1>2, <1>3, LogGrows, PostTypes DEF ResumeAgent, linkVars
<1>5. HubTypes'
  BY <1>2 DEF HubTypes, ResumeAgent, Unpause
<1>6. ChatTypes'
  BY <1>2 DEF ChatTypes, ReplyTypes, ResumeAgent
<1>7. SeenTypes'
  BY <1>2, MoveTypes DEF ResumeAgent, SeenTypes
<1>8. RecordTypes'
  BY DEF RecordTypes, ResumeAgent, Unpause
<1> QED BY <1>1, <1>4, <1>5, <1>6, <1>7, <1>8 DEF TypeInv

\* Answering the question: the merged steps are a batch.
LEMMA ConfirmTypes == ASSUME TypeInv, NEW accept \in BOOLEAN, Confirm(accept) PROVE TypeInv'
<1> DEFINE merged == IF accept THEN pending.steps \o pending.needs ELSE pending.steps
<1>1. LinkTypes' /\ DownTypes' /\ UpTypes' /\ WorkerTypes' /\ RunTypes' /\ SeenTypes' /\ RecordTypes'
  BY SameTypes DEF Confirm, linkVars, workerVars
<1>2. HubTypes /\ LogTypes /\ SnapTypes /\ ChatTypes /\ pending \in Results
  BY DEF TypeInv, HubTypes, Confirm
<1>3. merged \in Events /\ pending.id \in Takeovers
  BY <1>2, SeqOps DEF Results, Events
<1>4. LogTypes' /\ SnapTypes'
  <2>1. CASE merged = <<>>
    BY <2>1, SameTypes DEF Confirm, linkVars
  <2>2. CASE merged # <<>>
    <3>1. Request(pending.id, merged) \in Sent
      BY <2>2, <1>3, Makes, Bounds DEF IsWhole
    <3>2. timeline' = Append(timeline, Request(pending.id, merged)) /\ snap' = snap
      BY <2>2 DEF Confirm, linkVars
    <3>3. timeline \in Seq(Sent)
      BY <1>2 DEF LogTypes
    <3>4. /\ timeline' = timeline \o <<Request(pending.id, merged)>>
          /\ <<Request(pending.id, merged)>> \in Seq(Sent)
      BY <3>1, <3>2, <3>3, AppendIs
    <3> QED BY <3>4, <3>2, <1>2, LogGrows DEF Log
  <2> QED BY <2>1, <2>2
<1>5. HubTypes'
  <2>1. exported' \in [Steps -> Nat]
    BY <1>2, <1>3, CountedTypes DEF Confirm, HubTypes
  <2>2. pending' = NoPending /\ UNCHANGED <<paused, takeover, tid, buffer, waiters, normWaiters>>
    BY DEF Confirm
  <2> QED BY <2>1, <2>2, <1>2 DEF HubTypes
<1>6. ChatTypes'
  BY <1>2 DEF ChatTypes, ReplyTypes, Confirm
<1> QED BY <1>1, <1>4, <1>5, <1>6 DEF TypeInv

\* Ctrl-C while nothing is awaited.
LEMMA CancelKeyTypes == TypeInv /\ CancelKey => TypeInv'
<1> SUFFICES ASSUME TypeInv, CancelKey PROVE TypeInv'
  OBVIOUS
<1> DEFINE cancels == IF nreq = 0 THEN <<>> ELSE <<Cancel>>
           resumes == IF takeover THEN <<Resume>> ELSE <<>>
<1>1. LinkTypes' /\ UpTypes' /\ WorkerTypes' /\ RunTypes'
  BY SameTypes DEF CancelKey, linkVars, workerVars
<1>2. HubTypes /\ LogTypes /\ SnapTypes /\ DownTypes /\ ChatTypes /\ SeenTypes /\ RecordTypes
  BY DEF TypeInv
<1>3. cancels \o resumes \in Seq(Sent)
  <2>1. cancels \in Seq(Sent) /\ resumes \in Seq(Sent)
    BY Makes
  <2> QED BY <2>1
<1>4. LogTypes' /\ SnapTypes' /\ DownTypes'
  <2>1. Log(cancels \o resumes) /\ Post(cancels \o resumes) /\ snap' = snap
    BY DEF CancelKey, linkVars
  <2> QED BY <2>1, <1>2, <1>3, LogGrows, PostTypes
<1>5. HubTypes'
  BY <1>2 DEF HubTypes, CancelKey, Unpause
<1>6. ChatTypes'
  BY <1>2 DEF ChatTypes, ReplyTypes, CancelKey
<1>7. SeenTypes'
  BY <1>2, MoveTypes DEF CancelKey, SeenTypes
<1>8. RecordTypes'
  BY <1>2 DEF RecordTypes, CancelKey, Unpause
<1> QED BY <1>1, <1>4, <1>5, <1>6, <1>7, <1>8 DEF TypeInv

\* The human acts, and the hub is told.
LEMMA HumanTypes == TypeInv /\ Human => TypeInv'
<1> SUFFICES ASSUME TypeInv, Human PROVE TypeInv'
  OBVIOUS
<1>1. LinkTypes' /\ DownTypes' /\ UpTypes' /\ WorkerTypes' /\ RunTypes' /\ ChatTypes' /\ RecordTypes'
      /\ LogTypes' /\ SnapTypes'
  BY SameTypes DEF Human, HubEvent, HumanActs, linkVars, workerVars, hubVars, chatVars
<1>2. HubTypes /\ RecordTypes /\ SeenTypes
  BY DEF TypeInv
<1>3. CASE HubEvent
  <2>1. Head(flight) \in Steps /\ flight' \in Events /\ buffer \in Events
    BY <1>3, <1>2 DEF HubEvent, SeenTypes, HubTypes, Events
  <2>2. buffer' \in Events
    BY <1>3, <2>1, SeqOps DEF HubEvent, Events
  <2>3. HubTypes' /\ SeenTypes'
    BY <1>2, <1>3, <2>1, <2>2 DEF HubEvent, HubTypes, SeenTypes
  <2> QED BY <1>1, <2>3 DEF TypeInv
<1>4. ASSUME NEW kinds \in {<< 1 >>, << 2 >>, <<1, 2>>}, HumanActs(kinds) PROVE TypeInv'
  <2> DEFINE events == [i \in DOMAIN kinds |-> <<tid, kinds[i]>>]
  <2>1. tid \in Takeovers
    BY <1>2, <1>4 DEF HumanActs, RecordTypes
  <2>2. kinds \in Seq({1, 2})
    <3>1. <<1>> \in Seq({1, 2}) /\ <<2>> \in Seq({1, 2}) /\ <<1, 2>> \in Seq({1, 2})
      OBVIOUS
    <3> QED BY <3>1
  <2>3. \A i \in DOMAIN kinds : <<tid, kinds[i]>> \in Steps
    BY <2>1, <2>2, Bounds DEF Steps
  <2>4. Len(kinds) \in Nat /\ events \in [1..Len(kinds) -> Steps]
    BY <2>2, <2>3
  <2>5. events \in Seq(Steps) /\ DOMAIN events = DOMAIN kinds
    BY <2>4, FunSeq
  <2>6. flight' \in Events
    <3>1. flight' = flight \o events
      BY <1>4 DEF HumanActs
    <3> HIDE DEF events
    <3> QED BY <1>2, <2>5, <3>1, SeqOps DEF SeenTypes, Events
  <2>7. acted' \subseteq Steps
    <3>1. acted' = acted \cup {events[i] : i \in DOMAIN events}
      BY <1>4 DEF HumanActs
    <3> QED BY <3>1, <1>2, <2>5, <2>3 DEF SeenTypes
  <2>8. SeenTypes' /\ HubTypes'
    <3>1. UNCHANGED <<performed, moves>> /\ UNCHANGED <<paused, takeover, tid, buffer, pending, waiters, normWaiters, exported>>
      BY <1>4 DEF HumanActs, hubVars
    <3>2. HubTypes'
      BY <3>1, SameTypes
    <3> QED BY <3>1, <3>2, <1>2, <2>6, <2>7 DEF SeenTypes
  <2> QED BY <1>1, <2>8 DEF TypeInv
<1> QED BY <1>3, <1>4 DEF Human

\* What the hub reads is a message to it.
LEMMA HearsTypes ==
  ASSUME TypeInv, NEW c \in Conns, NEW type, Hears(c, type)
  PROVE  Head(up[c]) \in ToHub /\ Head(up[c]).type = type /\ UpTypes'
<1>1. up[c] \in Seq(ToHub) /\ up[c] # <<>> /\ UpTypes
  BY DEF TypeInv, UpTypes, Hears
<1>2. Head(up[c]) \in ToHub /\ Tail(up[c]) \in Seq(ToHub)
  BY <1>1
<1> QED BY <1>1, <1>2 DEF Hears, UpTypes

\* The hub takes a result or a normalized takeover.
LEMMA HandleTypes == ASSUME TypeInv, NEW c \in Conns, Handle(c) PROVE TypeInv'
<1> DEFINE m == Head(up[c])
<1>1. LinkTypes' /\ DownTypes' /\ WorkerTypes' /\ RunTypes' /\ SeenTypes' /\ RecordTypes'
  BY SameTypes DEF Handle, HubResult, HubNormalized, linkVars, workerVars
<1>2. HubTypes /\ LogTypes /\ SnapTypes /\ ChatTypes
  BY DEF TypeInv
<1>3. CASE HubResult(c)
  <2>1. UpTypes' /\ m.id \in Ids /\ m.ok \in BOOLEAN
    BY <1>3, HearsTypes, Reads DEF HubResult
  <2>2. LogTypes' /\ SnapTypes'
    BY <1>3, SameTypes DEF HubResult, linkVars
  <2>3. HubTypes'
    BY <1>2, <1>3 DEF HubResult, HubTypes
  <2>4. ReplyTypes'
    <3>1. [id |-> m.id, ok |-> m.ok] \in ActionReplies
      BY <2>1 DEF ActionReplies
    <3>2. at' = at /\ (reply' = reply \/ (at = "action" /\ reply' = [id |-> m.id, ok |-> m.ok]))
      BY <1>3 DEF HubResult, Answers
    <3> QED BY <3>1, <3>2, <1>2 DEF ChatTypes, ReplyTypes
  <2>5. ChatTypes'
    BY <1>2, <1>3, <2>4 DEF HubResult, ChatTypes
  <2> QED BY <1>1, <2>1, <2>2, <2>3, <2>5 DEF TypeInv
<1>4. CASE HubNormalized(c)
  <2>1. UpTypes' /\ m.id \in Takeovers /\ m.steps \in Events /\ m.needs \in Events
    BY <1>4, HearsTypes, Reads DEF HubNormalized
  <2>2. LogTypes' /\ SnapTypes'
    <3>1. CASE m.steps = <<>>
      BY <3>1, <1>4, SameTypes DEF HubNormalized, linkVars
    <3>2. CASE m.steps # <<>>
      <4>1. Request(m.id, m.steps) \in Sent
        BY <3>2, <2>1, Makes, Bounds DEF IsWhole
      <4>2. timeline' = Append(timeline, Request(m.id, m.steps)) /\ snap' = snap
        BY <3>2, <1>4 DEF HubNormalized, linkVars
      <4>3. timeline \in Seq(Sent)
        BY <1>2 DEF LogTypes
      <4>4. /\ timeline' = timeline \o <<Request(m.id, m.steps)>>
            /\ <<Request(m.id, m.steps)>> \in Seq(Sent)
        BY <4>1, <4>2, <4>3, AppendIs
      <4> QED BY <4>4, <4>2, <1>2, LogGrows DEF Log
    <3> QED BY <3>1, <3>2
  <2>3. HubTypes'
    <3>1. ExportNow(m.steps, m.needs) \in Events
      BY <2>1 DEF ExportNow, Events
    <3>2. exported' \in [Steps -> Nat]
      BY <3>1, <1>2, <1>4, CountedTypes DEF HubNormalized, HubTypes
    <3>3. pending' \in Results \cup {NoPending}
      BY <1>4, <2>1 DEF HubNormalized, Results
    <3>4. normWaiters' \in SUBSET Takeovers
      BY <1>2, <1>4 DEF HubNormalized, HubTypes
    <3>5. UNCHANGED <<paused, takeover, tid, buffer, waiters>>
      BY <1>4 DEF HubNormalized
    <3> QED BY <3>2, <3>3, <3>4, <3>5, <1>2 DEF HubTypes
  <2>4. ReplyTypes'
    <3>1. [id |-> m.id, needs |-> m.needs # <<>>] \in NormalReplies
      BY <2>1 DEF NormalReplies
    <3>2. at' = at /\ (reply' = reply \/ (at = "normalize" /\ reply' = [id |-> m.id, needs |-> m.needs # <<>>]))
      BY <1>4 DEF HubNormalized
    <3> QED BY <3>1, <3>2, <1>2 DEF ChatTypes, ReplyTypes
  <2>5. ChatTypes'
    BY <1>2, <1>4, <2>4 DEF HubNormalized, ChatTypes
  <2> QED BY <1>1, <2>1, <2>2, <2>3, <2>5 DEF TypeInv
<1> QED BY <1>3, <1>4 DEF Handle

\* Connections break, are dialled and replayed.
LEMMA LinkSteps == TypeInv /\ Link => TypeInv'
<1> SUFFICES ASSUME TypeInv, Link PROVE TypeInv'
  OBVIOUS
<1>1. HubTypes' /\ WorkerTypes' /\ RunTypes' /\ ChatTypes' /\ RecordTypes' /\ LogTypes'
  BY SameTypes DEF Link, Drop, Pair, Dial, Accept, RegisterOutbound, Replay, HubEof, HubReset,
                   NotLink, hubVars, workerVars, chatVars, TypeInv, LogTypes
<1>2. LogTypes /\ SnapTypes /\ LinkTypes /\ DownTypes /\ UpTypes /\ SeenTypes
  BY DEF TypeInv
<1>3. CASE Drop
  <2>1. DownTypes'
    BY <1>3 DEF Drop, DownTypes
  <2>2. UpTypes' /\ SnapTypes'
    BY <1>3, SameTypes DEF Drop, hubVars
  <2>3. LinkTypes' /\ SeenTypes'
    BY <1>2, <1>3, MoveTypes DEF Drop, LinkTypes, SeenTypes
  <2> QED BY <1>1, <2>1, <2>2, <2>3 DEF TypeInv
<1>4. CASE Pair
  <2>1. down \in Seq(Sent) /\ down # <<>>
    BY <1>2, <1>4 DEF DownTypes, Pair
  <2>2. DownTypes'
    <3>1. CASE down' = Tail(down)
      BY <3>1, <2>1 DEF DownTypes
    <3>2. ASSUME NEW k \in 1..Len(down), down' = SubSeq(down, k + 1, Len(down)) PROVE DownTypes'
      BY <3>2, <2>1, SubSeqIn DEF DownTypes
    <3> QED BY <1>4, <3>1, <3>2 DEF Pair
  <2>3. UpTypes' /\ SnapTypes' /\ SeenTypes'
    BY <1>4, SameTypes DEF Pair, NotLink, hubVars
  <2>4. LinkTypes'
    BY <1>2, <1>4 DEF Pair, LinkTypes
  <2> QED BY <1>1, <2>2, <2>3, <2>4 DEF TypeInv
<1>5. ASSUME NEW c \in Conns, Dial(c) \/ Accept(c) \/ RegisterOutbound(c) PROVE TypeInv'
  <2>1. DownTypes' /\ UpTypes' /\ SeenTypes'
    BY <1>5, SameTypes DEF Dial, Accept, RegisterOutbound, NotLink
  <2>2. LinkTypes'
    BY <1>2, <1>5 DEF Dial, Accept, RegisterOutbound, LinkTypes
  <2>3. SnapTypes'
    <3>1. timeline' = timeline /\ Len(timeline) \in 0..Len(timeline)
      BY <1>2, <1>5 DEF Dial, Accept, RegisterOutbound, NotLink, hubVars, LogTypes
    <3> QED BY <3>1, <1>2, <1>5 DEF Dial, Accept, RegisterOutbound, SnapTypes
  <2> QED BY <1>1, <2>1, <2>2, <2>3 DEF TypeInv
<1>6. ASSUME NEW c \in Conns, Replay(c) PROVE TypeInv'
  <2>1. UpTypes' /\ SeenTypes'
    BY <1>6, SameTypes DEF Replay, NotLink
  <2>2. LinkTypes'
    BY <1>2, <1>6 DEF Replay, LinkTypes
  <2>3. SnapTypes'
    <3>1. timeline' = timeline /\ 0 \in 0..Len(timeline)
      BY <1>2, <1>6 DEF Replay, NotLink, hubVars, LogTypes
    <3> QED BY <3>1, <1>2, <1>6 DEF Replay, SnapTypes
  <2>4. DownTypes'
    <3>1. down \in Seq(Sent) /\ timeline \in Seq(Sent) /\ snap[c] \in 0..Len(timeline)
      BY <1>2 DEF DownTypes, LogTypes, SnapTypes
    <3>2. <<PairingResult>> \in Seq(Sent) /\ SubSeq(timeline, 1, snap[c]) \in Seq(Sent)
      BY <3>1, Makes, SubSeqIn
    <3>3. down \o <<PairingResult>> \o SubSeq(timeline, 1, snap[c]) \in Seq(Sent)
      BY <3>1, <3>2, SeqOps
    <3> QED BY <1>6, <3>1, <3>3 DEF Replay, DownTypes
  <2> QED BY <1>1, <2>1, <2>2, <2>3, <2>4 DEF TypeInv
<1>7. ASSUME NEW c \in Conns, HubEof(c) \/ HubReset(c) PROVE TypeInv'
  <2>1. DownTypes' /\ SeenTypes' /\ SnapTypes'
    BY <1>7, SameTypes DEF HubEof, HubReset, NotLink, hubVars
  <2>2. LinkTypes'
    BY <1>2, <1>7 DEF HubEof, HubReset, LinkTypes
  <2>3. UpTypes'
    <3>1. up' = up \/ up' = [up EXCEPT ![c] = <<>>]
      BY <1>7 DEF HubEof, HubReset, NotLink
    <3>2. <<>> \in Seq(ToHub)
      OBVIOUS
    <3> QED BY <3>1, <3>2, <1>2 DEF UpTypes
  <2> QED BY <1>1, <2>1, <2>2, <2>3 DEF TypeInv
<1> QED BY <1>3, <1>4, <1>5, <1>6, <1>7 DEF Link

\* One message is a sequence of messages.
LEMMA SingleIn == \A S : \A e \in S : <<e>> \in Seq(S)
  OBVIOUS

\* The receive thread of the worker.
LEMMA ReceiveTypes == TypeInv /\ Receive => TypeInv'
<1> SUFFICES ASSUME TypeInv, Receive PROVE TypeInv'
  OBVIOUS
<1>1. HubTypes' /\ RunTypes' /\ ChatTypes' /\ RecordTypes' /\ LogTypes' /\ SnapTypes' /\ LinkTypes'
      /\ SeenTypes'
  BY SameTypes DEF Receive, ReceiveRequest, ReceiveCancel, ReceiveStart, ReceiveStop, ReceiveResume,
                   Receives, hubVars, linkVars, chatVars
<1>2. DownTypes /\ UpTypes /\ LinkTypes /\ WorkerTypes
  BY DEF TypeInv
<1>3. down \in Seq(Sent) /\ down # <<>> /\ down' = Tail(down)
  BY <1>2 DEF Receive, ReceiveRequest, ReceiveCancel, ReceiveStart, ReceiveStop, ReceiveResume,
                   Receives, DownTypes
<1>4. DownTypes' /\ Head(down) \in Sent
  BY <1>3, SeqOps DEF DownTypes
<1>5. queue \in Seq(Sent)
  BY <1>2 DEF WorkerTypes
<1>6. CASE ReceiveRequest
  <2>1. UpTypes' /\ queue' \in Seq(Sent) /\ wcancel' \in BOOLEAN
    <3>1. CASE wpaused \/ wactive
      <4>1. Head(down).id \in Ids
        BY <1>4, <1>6, Reads DEF ReceiveRequest, Receives
      <4>2. <<Result(Head(down).id, FALSE)>> \in Seq(ToHub)
        <5>1. FALSE \in BOOLEAN
          OBVIOUS
        <5>2. Result(Head(down).id, FALSE) \in ToHub
          BY <4>1, <5>1, Makes, Zenon
        <5> QED BY <5>2, SingleIn, Zenon
      <4>3. Respond(<<Result(Head(down).id, FALSE)>>) /\ UNCHANGED <<wcancel, queue>>
        BY <1>6, <3>1 DEF ReceiveRequest
      <4> QED BY <1>2, <1>5, <4>2, <4>3, RespondTypes DEF WorkerTypes
    <3>2. CASE ~(wpaused \/ wactive)
      <4>1. wcancel' = FALSE /\ queue' = Append(queue, Head(down)) /\ up' = up
        BY <1>6, <3>2 DEF ReceiveRequest
      <4> QED BY <4>1, <1>2, <1>4, <1>5, SeqOps DEF UpTypes
    <3> QED BY <3>1, <3>2
  <2>2. WorkerTypes'
    BY <1>2, <1>6, <2>1 DEF WorkerTypes, ReceiveRequest
  <2> QED BY <1>1, <1>4, <2>1, <2>2 DEF TypeInv
<1>7. CASE ReceiveCancel \/ ReceiveResume
  <2>1. UpTypes' /\ WorkerTypes'
    BY <1>2, <1>7 DEF ReceiveCancel, ReceiveResume, UpTypes, WorkerTypes
  <2> QED BY <1>1, <1>4, <2>1 DEF TypeInv
<1>8. CASE ReceiveStart \/ ReceiveStop
  <2>1. UpTypes'
    BY <1>2, <1>8, RejectTypes DEF ReceiveStart, ReceiveStop
  <2>2. StopsQueued \in Seq(Sent)
    BY <1>2, StopsTypes
  <2>3. queue' \in Seq(Sent)
    BY <1>4, <1>8, <2>2, SeqOps DEF ReceiveStart, ReceiveStop
  <2>4. WorkerTypes'
    BY <1>2, <1>8, <2>3 DEF WorkerTypes, ReceiveStart, ReceiveStop
  <2> QED BY <1>1, <1>4, <2>1, <2>4 DEF TypeInv
<1> QED BY <1>6, <1>7, <1>8 DEF Receive

\* A batch that ends is answered by its own id.
LEMMA FinishTypes ==
  ASSUME TypeInv, run # NoRun, NEW ok \in BOOLEAN, Finish(ok) PROVE UpTypes' /\ RunTypes'
<1>1. run.id \in Ids
  BY DEF TypeInv, RunTypes, Running
<1>2. <<Result(run.id, ok)>> \in Seq(ToHub)
  BY <1>1, Makes
<1> QED BY <1>2, RespondTypes DEF Finish, TypeInv, RunTypes

\* The thread that owns the page.
LEMMA WorkTypes == TypeInv /\ Work => TypeInv'
<1> SUFFICES ASSUME TypeInv, Work PROVE TypeInv'
  OBVIOUS
<1>1. HubTypes' /\ ChatTypes' /\ RecordTypes' /\ LogTypes' /\ SnapTypes' /\ LinkTypes' /\ DownTypes'
  BY SameTypes DEF Work, Begin, Check, Act, ActFails, Normalize, NotWork, hubVars, linkVars, chatVars
<1>2. UpTypes /\ LinkTypes /\ WorkerTypes /\ RunTypes /\ SeenTypes
  BY DEF TypeInv
<1>3. queue \in Seq(Sent)
  BY <1>2 DEF WorkerTypes
<1>4. UNCHANGED <<wpaused, wactive, wcancel, flight, acted, moves>>
  BY DEF Work, Begin, Check, Act, ActFails, Normalize, NotWork
<1>5. CASE Begin
  <2>1. queue # <<>> /\ Head(queue) \in Sent /\ IsRequest(Head(queue)) /\ queue' = Tail(queue)
        /\ UNCHANGED <<up, performed>>
    BY <1>3, <1>5, SeqOps DEF Begin
  <2>2. Head(queue).id \in Ids /\ Head(queue).steps \in Events
        /\ IsWhole(Head(queue).id, Head(queue).steps)
    BY <2>1, Reads DEF IsRequest
  <2>3. WorkerTypes' /\ UpTypes' /\ SeenTypes'
    BY <1>2, <1>3, <1>4, <2>1, SeqOps DEF WorkerTypes, UpTypes, SeenTypes
  <2>4. 1 \in 1..Len(Head(queue).steps)
    BY <2>2 DEF Events, IsWhole
  <2>5. RunTypes'
    <3>1. run' = [id |-> Head(queue).id, steps |-> Head(queue).steps, i |-> 1,
                  skip |-> wpaused, go |-> FALSE]
      BY <1>5 DEF Begin
    <3>2. run' \in Running
      BY <3>1, <2>2, <2>4, <1>2 DEF Running, WorkerTypes
    <3> QED BY <3>2 DEF RunTypes
  <2> QED BY <1>1, <2>3, <2>5 DEF TypeInv
<1>6. CASE Check
  <2>1. UpTypes' /\ RunTypes'
    <3>1. CASE Finish(FALSE)
      BY <3>1, <1>6, FinishTypes DEF Check
    <3>2. CASE run' = [run EXCEPT !.go = TRUE] /\ up' = up
      <4>1. run \in Running
        BY <1>2, <1>6 DEF Check, RunTypes
      <4>2. run' \in Running
        BY <4>1, <3>2 DEF Running
      <4> QED BY <4>2, <3>2, <1>2 DEF RunTypes, UpTypes
    <3> QED BY <1>6, <3>1, <3>2 DEF Check
  <2>2. WorkerTypes' /\ SeenTypes'
    BY <1>2, <1>4, <1>6 DEF WorkerTypes, SeenTypes, Check
  <2> QED BY <1>1, <2>1, <2>2 DEF TypeInv
<1>7. CASE Act
  <2>0. run \in Running /\ run # NoRun
    BY <1>2, <1>7 DEF Act, RunTypes
  <2>1. UpTypes' /\ RunTypes'
    <3>1. CASE Finish(TRUE)
      BY <3>1, <2>0, FinishTypes
    <3>2. CASE run.i < Len(run.steps) /\ run' = [run EXCEPT !.i = @ + 1, !.go = FALSE] /\ up' = up
      <4>1. run.i + 1 \in 1..Len(run.steps)
        BY <2>0, <3>2 DEF Running, Events
      <4>2. run' = [id |-> run.id, steps |-> run.steps, i |-> run.i + 1, skip |-> run.skip, go |-> FALSE]
        BY <2>0, <3>2 DEF Running
      <4>3. run' \in Running
        BY <4>1, <4>2, <2>0 DEF Running
      <4> QED BY <4>3, <3>2, <1>2 DEF RunTypes, UpTypes
    <3> QED BY <1>7, <3>1, <3>2 DEF Act
  <2>2. run.steps[run.i] \in Steps
    BY <2>0 DEF Running, Events
  <2>3. WorkerTypes' /\ SeenTypes'
    BY <1>2, <1>4, <1>7, <2>2 DEF WorkerTypes, SeenTypes, Act
  <2> QED BY <1>1, <2>1, <2>3 DEF TypeInv
<1>8. CASE ActFails
  <2>1. UpTypes' /\ RunTypes'
    BY <1>8, FinishTypes DEF ActFails
  <2>2. WorkerTypes' /\ SeenTypes'
    BY <1>2, <1>4, <1>8 DEF WorkerTypes, SeenTypes, ActFails
  <2> QED BY <1>1, <2>1, <2>2 DEF TypeInv
<1>9. CASE Normalize
  <2> DEFINE e == Head(queue)
             kept == Kept(e.steps, {i \in DOMAIN e.steps : Stable(e.steps[i])})
             needs == Kept(e.steps, {i \in DOMAIN e.steps : Unstable(e.steps[i])})
  <2>1. e \in Sent /\ e.type = "takeover_stop" /\ queue' = Tail(queue) /\ queue # <<>>
    BY <1>3, <1>9, SeqOps DEF Normalize, IsStop
  <2>2. e.id \in Takeovers /\ e.steps \in Seq(Steps)
    BY <2>1, Reads DEF Events
  <2>3. kept \in Events /\ needs \in Events /\ <<>> \in Events
    BY <2>2, KeptPlaces DEF Events
  <2>4. <<Normalized(e.id, kept, needs)>> \in Seq(ToHub) /\ <<Normalized(e.id, <<>>, <<>>)>> \in Seq(ToHub)
    BY <2>2, <2>3, Makes
  <2>5. UpTypes'
    BY <1>2, <1>9, <2>4, RespondTypes DEF Normalize
  <2>6. RunTypes' /\ WorkerTypes' /\ SeenTypes'
    BY <1>2, <1>3, <1>4, <1>9, <2>1, SeqOps DEF WorkerTypes, SeenTypes, RunTypes, Normalize
  <2> QED BY <1>1, <2>5, <2>6 DEF TypeInv
<1> QED BY <1>5, <1>6, <1>7, <1>8, <1>9 DEF Work

\* Every step keeps the types.
LEMMA StepTypes == TypeInv /\ [Next]_vars => TypeInv'
<1> SUFFICES ASSUME TypeInv, [Next]_vars PROVE TypeInv'
  OBVIOUS
<1>1. CASE Chat
  BY <1>1, SendTypes, AwaitTypes, CancelledTypes, StartTypes, StopTypes, ResumeTypes, ConfirmTypes,
     CancelKeyTypes DEF Chat
<1>2. CASE Human \/ Link \/ Receive \/ Work \/ \E c \in Conns : Handle(c)
  BY <1>2, HumanTypes, LinkSteps, ReceiveTypes, WorkTypes, HandleTypes
<1>3. CASE UNCHANGED vars
  <2>1. UNCHANGED hubVars /\ UNCHANGED linkVars /\ UNCHANGED workerVars /\ UNCHANGED chatVars
        /\ UNCHANGED <<down, up, flight, acted, performed, moves>>
    BY <1>3 DEF vars
  <2> QED BY <2>1, SameTypes DEF hubVars, linkVars, workerVars, chatVars, TypeInv
<1> QED BY <1>1, <1>2, <1>3 DEF Next

\* What is sent is what may be sent to a worker.
LEMMA SentIsToWorker == Seq(Sent) \subseteq Seq(ToWorker)
<1>1. Sent \subseteq ToWorker
  BY DEF Sent
<1> QED BY <1>1

\* The invariant is stronger than the typing the runs check.
LEMMA TypesAreOK == TypeInv => TypeOK
<1> SUFFICES ASSUME TypeInv PROVE TypeOK
  OBVIOUS
<1>1. timeline \in Seq(ToWorker) /\ down \in Seq(ToWorker) /\ queue \in Seq(ToWorker)
  BY SentIsToWorker DEF TypeInv, LogTypes, DownTypes, WorkerTypes
<1>2. run \in [id : Ids, steps : Events, i : Nat, skip : BOOLEAN, go : BOOLEAN] \cup {NoRun}
  BY DEF TypeInv, RunTypes, Running
<1>3. reply \in [id : Ids, ok : BOOLEAN] \cup [id : Takeovers, needs : BOOLEAN] \cup {NoReply}
  BY DEF TypeInv, ChatTypes, ReplyTypes, ActionReplies, NormalReplies
<1>4. pending \in [id : Takeovers, steps : Events, needs : Events] \cup {NoPending}
  BY DEF TypeInv, HubTypes, Results
<1> QED BY <1>1, <1>2, <1>3, <1>4
        DEF TypeOK, TypeInv, HubTypes, SnapTypes, LinkTypes, UpTypes, WorkerTypes, ChatTypes, SeenTypes

\* The typing the runs check, for every number of requests, takeovers,
\* connections and moves.
THEOREM TypeCorrect == Spec => []TypeOK
<1>1. Init => TypeInv
  BY InitTypes
<1>2. TypeInv /\ [Next]_vars => TypeInv'
  BY StepTypes
<1>3. TypeInv => TypeOK
  BY TypesAreOK
<1> QED BY <1>1, <1>2, <1>3, PTL DEF Spec

(* -------------------------------- answers -------------------------------- *)

Done(r) == {<<r, 1>>, <<r, 2>>} \subseteq performed
\* Results of which the success is earned.
Truthful ==
  {m \in ToHub : (m.type = "action_result" /\ m.ok /\ m.id \in Requests) => Done(m.id)}
UpTruth    == up \in [Conns -> Seq(Truthful)]
RunTruth   == (run # NoRun /\ run.id \in Requests /\ run.i = 2) => <<run.id, 1>> \in performed
ReplyTruth == (at = "action" /\ reply # NoReply) => (reply.id = nreq /\ (reply.ok => Done(nreq)))
AnswerInv == UpTruth /\ RunTruth /\ ReplyTruth /\ AnswerIsOwn

\* What was performed stays performed.
LEMMA TruthStays ==
  ASSUME performed \subseteq performed'
  PROVE  Truthful \subseteq Truthful' /\ Seq(Truthful) \subseteq Seq(Truthful')
         /\ \A r : Done(r) => Done(r)'
<1>1. \A r : Done(r) => Done(r)'
  BY DEF Done
<1>2. Truthful \subseteq Truthful'
  BY <1>1 DEF Truthful
<1> QED BY <1>1, <1>2

\* What is performed stays performed, so what was true of it stays true.
LEMMA SameAnswers ==
  ASSUME AnswerInv, performed \subseteq performed'
  PROVE  /\ UNCHANGED up => UpTruth'
         /\ UNCHANGED run => RunTruth'
         /\ UNCHANGED <<at, reply, nreq>> => ReplyTruth'
         /\ UNCHANGED told => AnswerIsOwn'
         /\ (\E c \in Conns : up' = [up EXCEPT ![c] = Tail(@)] /\ up[c] # <<>>) => UpTruth'
         /\ (\E c \in Conns : up' = [up EXCEPT ![c] = <<>>]) => UpTruth'
<1>1. Seq(Truthful) \subseteq Seq(Truthful') /\ \A r : Done(r) => Done(r)'
  BY TruthStays
<1>2. up \in [Conns -> Seq(Truthful')]
  BY <1>1 DEF AnswerInv, UpTruth
<1>3. UNCHANGED up => UpTruth'
  BY <1>2 DEF UpTruth
<1>4. UNCHANGED run => RunTruth'
  BY DEF AnswerInv, RunTruth
<1>5. UNCHANGED <<at, reply, nreq>> => ReplyTruth'
  BY <1>1 DEF AnswerInv, ReplyTruth
<1>6. UNCHANGED told => AnswerIsOwn'
  BY DEF AnswerInv, AnswerIsOwn
<1>7. ASSUME NEW c \in Conns, up' = [up EXCEPT ![c] = Tail(@)], up[c] # <<>> PROVE UpTruth'
  <2>1. Tail(up[c]) \in Seq(Truthful')
    BY <1>2, <1>7
  <2> QED BY <1>2, <1>7, <2>1 DEF UpTruth
<1>8. ASSUME NEW c \in Conns, up' = [up EXCEPT ![c] = <<>>] PROVE UpTruth'
  <2>1. <<>> \in Seq(Truthful')
    OBVIOUS
  <2> QED BY <1>2, <1>8, <2>1 DEF UpTruth
<1> QED BY <1>3, <1>4, <1>5, <1>6, <1>7, <1>8

\* A worker that responds truthfully keeps what is on its way truthful.
LEMMA RespondTruth ==
  ASSUME AnswerInv, LinkTypes, performed \subseteq performed', NEW msgs \in Seq(Truthful'),
         Respond(msgs)
  PROVE  UpTruth'
<1>1. up \in [Conns -> Seq(Truthful')]
  BY TruthStays DEF AnswerInv, UpTruth
<1>2. CASE cur = 0
  BY <1>1, <1>2 DEF Respond, UpTruth
<1>3. CASE cur # 0
  <2>1. cur \in Conns /\ up[cur] \o msgs \in Seq(Truthful')
    BY <1>1, <1>3, SeqOps DEF LinkTypes
  <2> QED BY <1>1, <1>3, <2>1 DEF Respond, UpTruth
<1> QED BY <1>2, <1>3

\* A result that says no, and what a takeover was normalized to, claim nothing.
LEMMA ClaimNothing ==
  /\ \A id \in Ids : Result(id, FALSE) \in Truthful
  /\ \A t \in Takeovers : \A s, n \in Events : Normalized(t, s, n) \in Truthful
<1>1. FALSE \in BOOLEAN
  OBVIOUS
<1>2. \A id \in Ids : Result(id, FALSE) \in ToHub
  BY <1>1, Makes, Zenon
<1>3. \A id \in Ids : Result(id, FALSE).ok = FALSE
  BY DEF Result
<1>4. \A id \in Ids : Result(id, FALSE) \in Truthful
  BY <1>2, <1>3 DEF Truthful
<1>5. ASSUME NEW t \in Takeovers, NEW s \in Events, NEW n \in Events
      PROVE  Normalized(t, s, n) \in Truthful
  <2>1. Normalized(t, s, n) \in ToHub
    BY Makes
  <2>2. Normalized(t, s, n).type = "normalize_result"
    BY DEF Normalized
  <2> QED BY <2>1, <2>2 DEF Truthful
<1> QED BY <1>4, <1>5

\* Rejecting what is queued claims no success.
LEMMA RejectTruth ==
  ASSUME AnswerInv, TypeInv, UNCHANGED performed, RejectQueued PROVE UpTruth'
<1>0. PICK n \in Nat : \E id \in [1..n -> Ids] : Rejections = [i \in 1..n |-> Result(id[i], FALSE)]
  BY RejectedRequests DEF TypeInv
<1>1. PICK id \in [1..n -> Ids] : Rejections = [i \in 1..n |-> Result(id[i], FALSE)]
  BY <1>0
<1>2. Rejections \in [1..n -> Truthful']
  BY <1>1, ClaimNothing, TruthStays
<1>3. Rejections \in Seq(Truthful')
  BY <1>2, FunSeq
<1>4. Respond(Rejections)
  BY DEF RejectQueued, Rejections
<1> QED BY <1>3, <1>4, RespondTruth DEF TypeInv

\* A session starts without an answer.
LEMMA InitAnswers == Init => AnswerInv
<1> SUFFICES ASSUME Init PROVE AnswerInv
  OBVIOUS
<1>1. up = [c \in Conns |-> <<>>] /\ told = [r \in Requests |-> "none"] /\ run = NoRun /\ at = "idle"
  BY DEF Init
<1>2. <<>> \in Seq(Truthful)
  OBVIOUS
<1> QED BY <1>1, <1>2 DEF AnswerInv, UpTruth, RunTruth, ReplyTruth, AnswerIsOwn

\* The chat shows "ok" only for the request it awaits, on a reply to that one.
LEMMA ChatAnswers == TypeInv /\ AnswerInv /\ Chat => AnswerInv'
<1> SUFFICES ASSUME TypeInv, AnswerInv, Chat PROVE AnswerInv'
  OBVIOUS
<1>1. UNCHANGED <<up, run, performed>>
  BY DEF Chat, Send, Answered, Timeout, Cancelled, StartTakeover, StopTakeover, NormalizeShown,
         NormalizeTimeout, ResumeAgent, CancelKey, Confirm, workerVars
<1>2. UpTruth' /\ RunTruth'
  BY <1>1, SameAnswers
<1>3. CASE Send
  <2>1. reply' = NoReply
    BY <1>3 DEF TypeInv, ChatTypes, ReplyTypes, Send
  <2>2. told' = told \/ told' = [told EXCEPT ![nreq + 1] = "failed"]
    BY <1>3 DEF Send, Refused
  <2>3. told \in [Requests -> {"none", "ok", "done", "failed", "cancelled"}]
    BY DEF TypeInv, ChatTypes
  <2>4. AnswerIsOwn'
    BY <1>1, <2>2, <2>3 DEF AnswerInv, AnswerIsOwn
  <2> QED BY <1>2, <2>1, <2>4 DEF AnswerInv, ReplyTruth
<1>4. CASE Answered
  <2>1. /\ told' = [told EXCEPT ![nreq] = IF reply.ok THEN "ok" ELSE "done"]
        /\ at' = "idle" /\ (reply.ok => Done(nreq))
    BY <1>4 DEF Answered, Shown, AnswerInv, ReplyTruth
  <2>2. told \in [Requests -> {"none", "ok", "done", "failed", "cancelled"}]
    BY DEF TypeInv, ChatTypes
  <2>3. AnswerIsOwn'
    BY <1>1, <2>1, <2>2 DEF AnswerInv, AnswerIsOwn, Done
  <2> QED BY <1>2, <2>1, <2>3 DEF AnswerInv, ReplyTruth
<1>5. CASE Timeout \/ Cancelled
  <2>1. at' = "idle" /\ \E how \in {"failed", "cancelled"} : told' = [told EXCEPT ![nreq] = how]
    BY <1>5 DEF Timeout, Cancelled, Shown
  <2>2. told \in [Requests -> {"none", "ok", "done", "failed", "cancelled"}]
    BY DEF TypeInv, ChatTypes
  <2>3. AnswerIsOwn'
    BY <1>1, <2>1, <2>2 DEF AnswerInv, AnswerIsOwn
  <2> QED BY <1>2, <2>1, <2>3 DEF AnswerInv, ReplyTruth
<1>6. CASE StartTakeover \/ StopTakeover \/ NormalizeShown \/ NormalizeTimeout
           \/ ResumeAgent \/ CancelKey \/ \E accept \in BOOLEAN : Confirm(accept)
  <2>1. at' # "action" /\ told' = told
    BY <1>6 DEF StartTakeover, StopTakeover, NormalizeShown, NormalizeTimeout, ResumeAgent,
                CancelKey, Confirm
  <2> QED BY <1>1, <1>2, <2>1, SameAnswers DEF AnswerInv, ReplyTruth
<1> QED BY <1>3, <1>4, <1>5, <1>6 DEF Chat

\* A result reaches the chat only when its id is the one it awaits.
LEMMA HandleAnswers ==
  ASSUME TypeInv, AnswerInv, NEW c \in Conns, Handle(c) PROVE AnswerInv'
<1> DEFINE m == Head(up[c])
<1>1. UNCHANGED <<run, performed, told, at, nreq>> /\ up' = [up EXCEPT ![c] = Tail(@)] /\ up[c] # <<>>
  BY DEF Handle, HubResult, HubNormalized, Hears, workerVars
<1>2. UpTruth' /\ RunTruth' /\ AnswerIsOwn'
  BY <1>1, SameAnswers
<1>3. m \in Truthful
  BY <1>1 DEF AnswerInv, UpTruth
<1>4. ReplyTruth'
  <2>1. CASE HubResult(c)
    <3>1. m.type = "action_result"
      BY <2>1 DEF HubResult, Hears
    <3>2. reply' = reply \/ (m.id \in waiters /\ m.id = nreq /\ reply' = [id |-> m.id, ok |-> m.ok])
      BY <2>1 DEF HubResult, Answers
    <3>3. m.id \in waiters => m.id \in Requests
      BY DEF TypeInv, HubTypes
    <3>4. (m.ok /\ m.id \in Requests) => Done(m.id)
      BY <1>3, <3>1 DEF Truthful
    <3>5. \A r : Done(r)' <=> Done(r)
      BY <1>1 DEF Done
    <3> QED BY <1>1, <3>2, <3>3, <3>4, <3>5 DEF AnswerInv, ReplyTruth
  <2>2. CASE HubNormalized(c)
    <3>1. at = "action" => reply' = reply
      BY <2>2 DEF HubNormalized
    <3> QED BY <1>1, <3>1 DEF AnswerInv, ReplyTruth, Done
  <2> QED BY <2>1, <2>2 DEF Handle
<1> QED BY <1>2, <1>4 DEF AnswerInv

\* The receive thread sends failures only.
LEMMA ReceiveAnswers == TypeInv /\ AnswerInv /\ Receive => AnswerInv'
<1> SUFFICES ASSUME TypeInv, AnswerInv, Receive PROVE AnswerInv'
  OBVIOUS
<1>1. UNCHANGED <<run, performed, told, at, reply, nreq>>
  BY DEF Receive, ReceiveRequest, ReceiveCancel, ReceiveStart, ReceiveStop, ReceiveResume, Receives,
         chatVars
<1>2. RunTruth' /\ ReplyTruth' /\ AnswerIsOwn'
  BY <1>1, SameAnswers
<1>3. UpTruth'
  <2>1. CASE up' = up
    BY <1>1, <2>1, SameAnswers
  <2>2. CASE RejectQueued
    BY <1>1, <2>2, RejectTruth
  <2>3. CASE ReceiveRequest /\ Respond(<<Result(Head(down).id, FALSE)>>)
    <3>1. Head(down) \in Sent /\ Head(down).type = "action_request"
      BY <2>3, SeqOps DEF ReceiveRequest, Receives, TypeInv, DownTypes
    <3>2. Head(down).id \in Ids
      BY <3>1, Reads
    <3>3. Result(Head(down).id, FALSE) \in Truthful'
      BY <3>2, <1>1, ClaimNothing, TruthStays
    <3>4. <<Result(Head(down).id, FALSE)>> \in Seq(Truthful')
      BY <3>3, SingleIn, Zenon
    <3> QED BY <1>1, <2>3, <3>4, RespondTruth DEF TypeInv
  <2> QED BY <2>1, <2>2, <2>3 DEF Receive, ReceiveRequest, ReceiveCancel, ReceiveStart, ReceiveStop,
                                  ReceiveResume
<1> QED BY <1>2, <1>3 DEF AnswerInv

\* A batch that ends early claims no success.
LEMMA FailedTruth ==
  ASSUME TypeInv, AnswerInv, run # NoRun, Finish(FALSE), UNCHANGED performed
  PROVE  UpTruth' /\ RunTruth'
<1>1. run.id \in Ids
  BY DEF TypeInv, RunTypes, Running
<1>2. Result(run.id, FALSE) \in Truthful'
  BY <1>1, ClaimNothing, TruthStays
<1>3. <<Result(run.id, FALSE)>> \in Seq(Truthful')
  BY <1>2, SingleIn, Zenon
<1> QED BY <1>3, RespondTruth DEF Finish, RunTruth, TypeInv

\* The worker says "ok" of a batch after its last step only.
LEMMA WorkAnswers == TypeInv /\ AnswerInv /\ Work => AnswerInv'
<1> SUFFICES ASSUME TypeInv, AnswerInv, Work PROVE AnswerInv'
  OBVIOUS
<1>1. UNCHANGED <<told, at, reply, nreq>> /\ performed \subseteq performed'
  BY DEF Work, Begin, Check, Act, ActFails, Normalize, NotWork, chatVars
<1>2. ReplyTruth' /\ AnswerIsOwn'
  BY <1>1, SameAnswers
<1>3. CASE Begin
  <2>1. up' = up /\ run'.i = 1
    BY <1>3 DEF Begin
  <2> QED BY <1>1, <1>2, <2>1, SameAnswers DEF AnswerInv, RunTruth
<1>4. CASE Check
  <2>1. CASE Finish(FALSE)
    BY <1>2, <1>4, <2>1, FailedTruth DEF Check, AnswerInv
  <2>2. CASE run' = [run EXCEPT !.go = TRUE] /\ up' = up
    <3>1. run \in Running /\ performed' = performed
      BY <1>4 DEF Check, TypeInv, RunTypes
    <3>2. run'.id = run.id /\ run'.i = run.i
      BY <3>1, <2>2 DEF Running
    <3>3. RunTruth'
      BY <1>4, <3>1, <3>2 DEF AnswerInv, RunTruth, Check
    <3> QED BY <1>1, <1>2, <2>2, <3>3, SameAnswers DEF AnswerInv
  <2> QED BY <1>4, <2>1, <2>2 DEF Check
<1>5. CASE Act
  <2>1. run \in Running /\ run # NoRun /\ performed' = performed \cup {run.steps[run.i]}
    BY <1>5 DEF Act, TypeInv, RunTypes
  <2>2. run.id \in Requests => run.steps = Batch(run.id) /\ Len(run.steps) = 2
    BY <2>1, Batches DEF Running, IsWhole
  <2>3. run.id \in Requests => run.steps[1] = <<run.id, 1>> /\ run.steps[2] = <<run.id, 2>>
    BY <2>2 DEF Batch
  <2>4. run.i \in 1..Len(run.steps)
    BY <2>1 DEF Running
  <2>5. CASE run.i < Len(run.steps)
    <3>1. run' = [run EXCEPT !.i = @ + 1, !.go = FALSE] /\ up' = up
      BY <1>5, <2>5 DEF Act
    <3>2. run'.id = run.id /\ run'.i = run.i + 1
      BY <2>1, <3>1 DEF Running
    <3>3. RunTruth'
      BY <2>1, <2>2, <2>3, <2>4, <3>2 DEF RunTruth
    <3> QED BY <1>1, <1>2, <3>1, <3>3, SameAnswers DEF AnswerInv
  <2>6. CASE ~(run.i < Len(run.steps))
    <3>1. Finish(TRUE)
      BY <1>5, <2>6 DEF Act
    <3>2. ASSUME NEW r \in Requests, r = run.id PROVE Done(r)'
      <4>1. run.i = 2
        <5>1. Len(run.steps) = 2
          BY <2>2, <3>2
        <5>2. run.i \in 1..2 /\ ~(run.i < 2)
          BY <2>4, <2>6, <5>1
        <5> QED BY <5>2
      <4>2. <<r, 1>> \in performed
        BY <2>1, <3>2, <4>1 DEF AnswerInv, RunTruth
      <4> QED BY <2>1, <2>3, <3>2, <4>1, <4>2 DEF Done
    <3>3. Result(run.id, TRUE) \in Truthful'
      <4>1. run.id \in Ids /\ TRUE \in BOOLEAN
        BY <2>1 DEF Running
      <4>2. Result(run.id, TRUE) \in ToHub
        BY <4>1, Makes, Zenon
      <4>3. Result(run.id, TRUE).id = run.id
        BY DEF Result
      <4> QED BY <3>2, <4>2, <4>3 DEF Truthful
    <3>4. <<Result(run.id, TRUE)>> \in Seq(Truthful')
      BY <3>3, SingleIn, Zenon
    <3>5. UpTruth' /\ RunTruth'
      BY <1>1, <3>1, <3>4, RespondTruth DEF Finish, RunTruth, TypeInv
    <3> QED BY <1>2, <3>5 DEF AnswerInv
  <2> QED BY <2>5, <2>6
<1>6. CASE ActFails
  BY <1>2, <1>6, FailedTruth DEF ActFails, AnswerInv
<1>7. CASE Normalize
  <2> DEFINE e == Head(queue)
             kept == Kept(e.steps, {i \in DOMAIN e.steps : Stable(e.steps[i])})
             needs == Kept(e.steps, {i \in DOMAIN e.steps : Unstable(e.steps[i])})
  <2>1. e \in Sent /\ e.type = "takeover_stop"
    BY <1>7, SeqOps DEF Normalize, IsStop, TypeInv, WorkerTypes
  <2>2. e.id \in Takeovers /\ e.steps \in Seq(Steps)
    BY <2>1, Reads DEF Events
  <2>3. kept \in Events /\ needs \in Events /\ <<>> \in Events
    BY <2>2, KeptPlaces DEF Events
  <2>4. Normalized(e.id, kept, needs) \in Truthful' /\ Normalized(e.id, <<>>, <<>>) \in Truthful'
    BY <1>1, <2>2, <2>3, ClaimNothing, TruthStays
  <2>5. <<Normalized(e.id, kept, needs)>> \in Seq(Truthful') /\ <<Normalized(e.id, <<>>, <<>>)>> \in Seq(Truthful')
    BY <2>4, SingleIn, Zenon
  <2>6. UpTruth'
    BY <1>1, <1>7, <2>5, RespondTruth DEF Normalize, TypeInv
  <2>7. RunTruth'
    BY <1>1, <1>7, SameAnswers DEF Normalize
  <2> QED BY <1>2, <2>6, <2>7 DEF AnswerInv
<1> QED BY <1>3, <1>4, <1>5, <1>6, <1>7 DEF Work

\* Every step keeps the answers true.
LEMMA StepAnswers == TypeInv /\ AnswerInv /\ [Next]_vars => AnswerInv'
<1> SUFFICES ASSUME TypeInv, AnswerInv, [Next]_vars PROVE AnswerInv'
  OBVIOUS
<1>1. CASE Human \/ Link \/ UNCHANGED vars
  <2>1. UNCHANGED <<run, performed, told, at, reply, nreq>>
    BY <1>1 DEF Human, HubEvent, HumanActs, Link, Drop, Pair, Dial, Accept, RegisterOutbound, Replay,
               HubEof, HubReset, NotLink, workerVars, chatVars, vars
  <2>2. up' = up \/ \E c \in Conns : up' = [up EXCEPT ![c] = <<>>]
    BY <1>1 DEF Human, HubEvent, HumanActs, Link, Drop, Pair, Dial, Accept, RegisterOutbound, Replay,
               HubEof, HubReset, NotLink, vars
  <2> QED BY <2>1, <2>2, SameAnswers DEF AnswerInv
<1> QED BY <1>1, ChatAnswers, HandleAnswers, ReceiveAnswers, WorkAnswers DEF Next

\* A batch whose steps are all shown ok was performed to its last step, however
\* late the results of other batches come (teach_hub.rs, the waiters by request
\* id).
THEOREM AnswersAreOwn == Spec => []AnswerIsOwn
<1>1. Init => TypeInv /\ AnswerInv
  BY InitTypes, InitAnswers
<1>2. TypeInv /\ AnswerInv /\ [Next]_vars => (TypeInv /\ AnswerInv)'
  BY StepTypes, StepAnswers
<1>3. AnswerInv => AnswerIsOwn
  BY DEF AnswerInv
<1> QED BY <1>1, <1>2, <1>3, PTL DEF Spec

(* ------------------------------- commands -------------------------------- *)

\* The first connection is never dialled again, and as long as the worker uses
\* it there is no other.
FirstLink ==
  /\ conn[1] # "none"
  /\ Undisturbed => /\ outbound = 1 /\ paired /\ conn[1] = "open"
                    /\ \A c \in Conns : c # 1 => conn[c] = "none" /\ up[c] = <<>>

\* What a command makes of the worker's flags.
IsCommand(e) == e.type \in {"takeover_start", "takeover_stop", "resume"}
Means(e, p, t) == p = (e.type # "resume") /\ t = (e.type = "takeover_start")

\* The last command on its way sets the worker's flags to what the hub's are,
\* and without one they are that already.
Heeded(q, p, t, wp, wt) ==
  \/ \E i \in DOMAIN q : /\ IsCommand(q[i]) /\ Means(q[i], p, t)
                         /\ \A j \in DOMAIN q : j > i => ~IsCommand(q[j])
  \/ wp = p /\ wt = t /\ \A j \in DOMAIN q : ~IsCommand(q[j])

CommandInv == Undisturbed => Heeded(down, paused, takeover, wpaused, wactive)

\* As long as the first connection lasts nothing happens to the link.
LEMMA Quiet ==
  ASSUME TypeInv, FirstLink, Next, Undisturbed'
  PROVE  Undisturbed /\ UNCHANGED linkVars /\ ~Link
<1>1. 1 \in Conns /\ \A c \in Conns : conn[c] \in {"none", "dialled", "accepted", "registered", "open", "ended"}
  BY Bounds DEF TypeInv, LinkTypes
<1>2. ASSUME Link PROVE FALSE
  <2>1. Undisturbed
    BY <1>1, <1>2 DEF Link, Drop, Pair, Dial, Accept, RegisterOutbound, Replay, HubEof, HubReset,
                      Undisturbed, FirstLink
  <2>2. paired /\ conn[1] = "open" /\ \A c \in Conns : c # 1 => conn[c] = "none"
    BY <2>1 DEF FirstLink
  <2>3. ~Drop /\ ~Pair
    BY <2>2 DEF Drop, Pair, Undisturbed
  <2>4. \A c \in Conns : ~Dial(c) /\ ~Accept(c) /\ ~RegisterOutbound(c) /\ ~Replay(c)
    BY <2>1, <2>2 DEF Undisturbed, Dial, Accept, RegisterOutbound, Replay
  <2>5. \A c \in Conns : ~HubEof(c) /\ ~HubReset(c)
    BY <2>1, <2>2 DEF Undisturbed, HubEof, HubReset
  <2> QED BY <1>2, <2>3, <2>4, <2>5 DEF Link
<1>3. ASSUME Chat PROVE Undisturbed /\ UNCHANGED linkVars
  BY <1>3 DEF Chat, Send, Answered, Timeout, Cancelled, StartTakeover, StopTakeover, NormalizeShown,
         NormalizeTimeout, ResumeAgent, CancelKey, Confirm, linkVars, Undisturbed
<1>4. ASSUME Human \/ Receive \/ Work \/ \E c \in Conns : Handle(c)
      PROVE  Undisturbed /\ UNCHANGED linkVars
  BY <1>4 DEF Human, HubEvent, HumanActs, Receive, ReceiveRequest, ReceiveCancel, ReceiveStart,
         ReceiveStop, ReceiveResume, Receives, Work, Begin, Check, Act, ActFails, Normalize, NotWork,
         Handle, HubResult, HubNormalized, linkVars, Undisturbed
<1> QED BY <1>2, <1>3, <1>4 DEF Next

\* While the first connection is used the worker answers on no other.
LEMMA RespondQuiet ==
  ASSUME FirstLink, TypeInv, Undisturbed, NEW msgs, Respond(msgs), NEW c \in Conns, c # 1
  PROVE  up'[c] = <<>>
<1>1. up \in [Conns -> Seq(ToHub)] /\ up[c] = <<>> /\ cur = 1 /\ cur # 0
  BY DEF TypeInv, UpTypes, FirstLink, Undisturbed
<1>2. up' = [up EXCEPT ![1] = @ \o msgs]
  BY <1>1 DEF Respond
<1> QED BY <1>1, <1>2

\* Every step keeps what is known of the first connection.
LEMMA StepFirstLink == TypeInv /\ FirstLink /\ [Next]_vars => FirstLink'
<1> SUFFICES ASSUME TypeInv, FirstLink, [Next]_vars PROVE FirstLink'
  OBVIOUS
<1>1. CASE UNCHANGED vars
  BY <1>1 DEF vars, linkVars, FirstLink, Undisturbed
<1>2. CASE Next
  <2>1. conn'[1] # "none"
    <3>1. conn \in [Conns -> {"none", "dialled", "accepted", "registered", "open", "ended"}] /\ 1 \in Conns
      BY Bounds DEF TypeInv, LinkTypes
    <3>2. CASE UNCHANGED conn
      BY <3>2 DEF FirstLink
    <3>3. CASE Link
      BY <3>1, <3>3 DEF FirstLink, Link, Drop, Pair, Dial, Accept, RegisterOutbound, Replay, HubEof,
                        HubReset
    <3>4. UNCHANGED conn \/ Link
      BY <1>2 DEF Next, Chat, Send, Answered, Timeout, Cancelled, StartTakeover, StopTakeover,
         NormalizeShown, NormalizeTimeout, ResumeAgent, CancelKey, Confirm, linkVars, Human, HubEvent,
         HumanActs, Receive, ReceiveRequest, ReceiveCancel, ReceiveStart, ReceiveStop, ReceiveResume,
         Receives, Work, Begin, Check, Act, ActFails, Normalize, NotWork, Handle, HubResult,
         HubNormalized
    <3> QED BY <3>2, <3>3, <3>4
  <2>2. ASSUME Undisturbed'
        PROVE  /\ outbound' = 1 /\ paired' /\ conn'[1] = "open"
               /\ \A c \in Conns : c # 1 => conn'[c] = "none" /\ up'[c] = <<>>
    <3>1. Undisturbed /\ UNCHANGED linkVars /\ ~Link
      BY <1>2, <2>2, Quiet
    <3>2. /\ outbound = 1 /\ paired /\ conn[1] = "open"
          /\ \A c \in Conns : c # 1 => conn[c] = "none" /\ up[c] = <<>>
      BY <3>1 DEF FirstLink
    <3>3. ASSUME NEW c \in Conns, c # 1 PROVE up'[c] = <<>>
      <4>1. CASE Chat \/ Human
        BY <3>2, <3>3, <4>1 DEF Chat, Send, Answered, Timeout, Cancelled, StartTakeover, StopTakeover,
          NormalizeShown, NormalizeTimeout, ResumeAgent, CancelKey, Confirm, Human, HubEvent, HumanActs
      <4>2. ASSUME NEW d \in Conns, Handle(d) PROVE up'[c] = <<>>
        <5>1. up' = [up EXCEPT ![d] = Tail(@)] /\ up[d] # <<>>
          BY <4>2 DEF Handle, HubResult, HubNormalized, Hears
        <5> QED BY <3>2, <3>3, <5>1 DEF TypeInv, UpTypes
      <4>3. CASE up' = up
        BY <3>2, <3>3, <4>3
      <4>4. CASE \E msgs : Respond(msgs)
        BY <3>1, <3>3, <4>4, RespondQuiet
      <4>5. ASSUME Receive \/ Work PROVE up' = up \/ \E msgs : Respond(msgs)
        BY <4>5 DEF Receive, ReceiveRequest, ReceiveCancel, ReceiveStart, ReceiveStop, ReceiveResume,
           RejectQueued, Work, Begin, Check, Act, ActFails, Normalize, Finish
      <4> QED BY <1>2, <3>1, <4>1, <4>2, <4>3, <4>4, <4>5 DEF Next
    <3> QED BY <3>1, <3>2, <3>3 DEF linkVars
  <2> QED BY <2>1, <2>2 DEF FirstLink
<1> QED BY <1>1, <1>2

\* The places of a concatenation.
LEMMA Places ==
  ASSUME NEW S, NEW q \in Seq(S), NEW r \in Seq(S)
  PROVE  /\ Len(q \o r) = Len(q) + Len(r) /\ DOMAIN (q \o r) = 1..(Len(q) + Len(r))
         /\ \A i \in 1..Len(q) : (q \o r)[i] = q[i]
         /\ \A i \in 1..Len(r) : (q \o r)[Len(q) + i] = r[i]
         /\ \A i \in 1..(Len(q) + Len(r)) : i \in 1..Len(q) \/ i - Len(q) \in 1..Len(r)
  OBVIOUS

\* The places of a tail.
LEMMA TailPlaces ==
  ASSUME NEW S, NEW q \in Seq(S), q # <<>>
  PROVE  /\ Len(Tail(q)) = Len(q) - 1 /\ DOMAIN Tail(q) = 1..(Len(q) - 1) /\ Head(q) = q[1]
         /\ \A i \in 1..(Len(q) - 1) : Tail(q)[i] = q[i + 1]
         /\ 1 \in DOMAIN q /\ Len(q) \in Nat \ {0} /\ DOMAIN q = 1..Len(q)
  OBVIOUS

\* A command that is posted last is what will be heeded.
LEMMA HeedCommand ==
  ASSUME NEW S, NEW q \in Seq(S), NEW r \in Seq(S), NEW p, NEW t, NEW wp, NEW wt,
         r # <<>>, IsCommand(r[Len(r)]), Means(r[Len(r)], p, t)
  PROVE  Heeded(q \o r, p, t, wp, wt)
<1>1. Len(q) \in Nat /\ Len(r) \in Nat \ {0} /\ Len(r) \in 1..Len(r)
  OBVIOUS
<1> DEFINE k == Len(q) + Len(r)
<1>2. k \in DOMAIN (q \o r) /\ (q \o r)[k] = r[Len(r)] /\ \A j \in DOMAIN (q \o r) : ~(j > k)
  BY <1>1, Places
<1> HIDE DEF k
<1> QED BY <1>2 DEF Heeded

\* Other messages leave it to be heeded.
LEMMA HeedOthers ==
  ASSUME NEW S, NEW q \in Seq(S), NEW r \in Seq(S), NEW p, NEW t, NEW wp, NEW wt,
         Heeded(q, p, t, wp, wt), \A i \in 1..Len(r) : ~IsCommand(r[i])
  PROVE  Heeded(q \o r, p, t, wp, wt)
<1>1. Len(q) \in Nat /\ Len(r) \in Nat /\ DOMAIN q = 1..Len(q)
  OBVIOUS
<1>2. ASSUME NEW j \in DOMAIN (q \o r), IsCommand((q \o r)[j])
      PROVE  j \in 1..Len(q) /\ q[j] = (q \o r)[j]
  <2>1. j \in 1..(Len(q) + Len(r))
    BY Places
  <2>2. CASE j - Len(q) \in 1..Len(r)
    <3>1. j = Len(q) + (j - Len(q))
      BY <2>1, <1>1
    <3>2. (q \o r)[j] = r[j - Len(q)]
      BY <2>2, <3>1, Places
    <3> QED BY <1>2, <2>2, <3>2
  <2>3. CASE j \in 1..Len(q)
    BY <2>3, Places
  <2> QED BY <2>1, <2>2, <2>3, Places
<1>3. CASE wp = p /\ wt = t /\ \A j \in DOMAIN q : ~IsCommand(q[j])
  BY <1>1, <1>2, <1>3 DEF Heeded
<1>4. ASSUME NEW i \in DOMAIN q, IsCommand(q[i]), Means(q[i], p, t),
             \A j \in DOMAIN q : j > i => ~IsCommand(q[j])
      PROVE  Heeded(q \o r, p, t, wp, wt)
  <2>1. i \in DOMAIN (q \o r) /\ (q \o r)[i] = q[i]
    BY <1>1, Places
  <2>2. \A j \in DOMAIN (q \o r) : j > i => ~IsCommand((q \o r)[j])
    BY <1>1, <1>2, <1>4
  <2> QED BY <1>4, <2>1, <2>2 DEF Heeded
<1> QED BY <1>3, <1>4 DEF Heeded

\* What is received is heeded.
LEMMA HeedHead ==
  ASSUME NEW S, NEW q \in Seq(S), q # <<>>, NEW p, NEW t, NEW wp, NEW wt, NEW vp, NEW vt,
         Heeded(q, p, t, wp, wt),
         IF IsCommand(Head(q)) THEN Means(Head(q), vp, vt) ELSE vp = wp /\ vt = wt
  PROVE  Heeded(Tail(q), p, t, vp, vt)
<1>1. Len(q) \in Nat \ {0} /\ DOMAIN q = 1..Len(q) /\ Head(q) = q[1] /\ 1 \in DOMAIN q
  BY TailPlaces
<1>2. \A j \in DOMAIN Tail(q) : j + 1 \in DOMAIN q /\ Tail(q)[j] = q[j + 1] /\ j \in Nat /\ j > 0
  BY TailPlaces
<1>3. CASE wp = p /\ wt = t /\ \A j \in DOMAIN q : ~IsCommand(q[j])
  BY <1>1, <1>2, <1>3 DEF Heeded
<1>4. ASSUME NEW i \in DOMAIN q, IsCommand(q[i]), Means(q[i], p, t),
             \A j \in DOMAIN q : j > i => ~IsCommand(q[j])
      PROVE  Heeded(Tail(q), p, t, vp, vt)
  <2>1. CASE i = 1
    <3>1. vp = p /\ vt = t
      BY <1>1, <1>4, <2>1 DEF Means
    <3>2. \A j \in DOMAIN Tail(q) : ~IsCommand(Tail(q)[j])
      BY <1>2, <1>4, <2>1
    <3> QED BY <3>1, <3>2 DEF Heeded
  <2>2. CASE i # 1
    <3>1. i - 1 \in DOMAIN Tail(q) /\ (i - 1) + 1 = i
      BY <1>1, <2>2, TailPlaces
    <3>2. Tail(q)[i - 1] = q[i]
      BY <1>2, <3>1
    <3>3. \A j \in DOMAIN Tail(q) : j > i - 1 => ~IsCommand(Tail(q)[j])
      <4>1. SUFFICES ASSUME NEW j \in DOMAIN Tail(q), j > i - 1 PROVE ~IsCommand(Tail(q)[j])
        OBVIOUS
      <4>2. j + 1 > i
        BY <4>1, <1>1, <1>2
      <4> QED BY <1>2, <1>4, <4>1, <4>2
    <3> QED BY <1>4, <3>1, <3>2, <3>3 DEF Heeded
  <2> QED BY <2>1, <2>2
<1> QED BY <1>3, <1>4 DEF Heeded

\* Which messages command the flags of the worker, and how.
LEMMA Commands ==
  /\ IsCommand(Resume) /\ Means(Resume, FALSE, FALSE)
  /\ ~IsCommand(Cancel) /\ ~IsCommand(PairingResult)
  /\ \A id, s : ~IsCommand(Request(id, s))
  /\ \A t : IsCommand(Start(t)) /\ Means(Start(t), TRUE, TRUE)
  /\ \A t, s : IsCommand(Stop(t, s)) /\ Means(Stop(t, s), TRUE, FALSE)
  BY DEF IsCommand, Means, Resume, Cancel, PairingResult, Request, Start, Stop

\* A sequence of one message.
LEMMA OneMessage == \A e : <<e>> # <<>> /\ Len(<<e>>) = 1 /\ <<e>>[1] = e
  OBVIOUS

\* A command that is posted is what will be heeded.
LEMMA PostedCommand ==
  ASSUME TypeInv, FirstLink, Undisturbed, NEW e \in Sent, Post(<<e>>), IsCommand(e),
         NEW p, NEW t, Means(e, p, t), NEW wp, NEW wt
  PROVE  Heeded(down', p, t, wp, wt)
<1>1. down' = down \o <<e>> /\ down \in Seq(Sent) /\ <<e>> \in Seq(Sent)
  BY SingleIn DEF Post, Posted, FirstLink, Undisturbed, TypeInv, DownTypes
<1> QED BY <1>1, OneMessage, HeedCommand

\* Another message that is posted leaves what will be heeded.
LEMMA PostedOther ==
  ASSUME TypeInv, FirstLink, Undisturbed, NEW e \in Sent, Post(<<e>>), ~IsCommand(e),
         CommandInv, UNCHANGED <<paused, takeover, wpaused, wactive>>
  PROVE  Heeded(down', paused', takeover', wpaused', wactive')
<1>1. down' = down \o <<e>> /\ down \in Seq(Sent) /\ <<e>> \in Seq(Sent)
  BY SingleIn DEF Post, Posted, FirstLink, Undisturbed, TypeInv, DownTypes
<1>2. \A i \in 1..Len(<<e>>) : ~IsCommand(<<e>>[i])
  BY OneMessage
<1> QED BY <1>1, <1>2, HeedOthers DEF CommandInv

\* Every key that changes the flags of the hub posts the command that says so.
LEMMA ChatCommands ==
  ASSUME TypeInv, FirstLink, CommandInv, Chat, Undisturbed
  PROVE  Heeded(down', paused', takeover', wpaused', wactive')
<1>1. Heeded(down, paused, takeover, wpaused, wactive) /\ outbound = 1 /\ cur = 1
  BY DEF CommandInv, FirstLink, Undisturbed
<1>2. UNCHANGED <<wpaused, wactive>>
  BY DEF Chat, Send, Answered, Timeout, Cancelled, StartTakeover, StopTakeover, NormalizeShown,
         NormalizeTimeout, ResumeAgent, CancelKey, Confirm, workerVars
<1>3. CASE Send
  <2>1. UNCHANGED <<paused, takeover>>
    BY <1>3 DEF Send
  <2>2. CASE UNCHANGED down
    BY <1>1, <1>2, <2>1, <2>2
  <2>3. CASE Post(<<Request(nreq + 1, Batch(nreq + 1))>>)
    <3>1. Request(nreq + 1, Batch(nreq + 1)) \in Sent
      <4>1. nreq + 1 \in Requests
        BY <1>3, Bounds DEF Send, TypeInv, ChatTypes, Requests
      <4> QED BY <4>1, Bounds, Batches, Makes
    <3> QED BY <1>2, <2>1, <2>3, <3>1, Commands, PostedOther
  <2> QED BY <1>3, <2>2, <2>3 DEF Send
<1>4. CASE Answered \/ Timeout \/ NormalizeShown \/ NormalizeTimeout \/ \E accept \in BOOLEAN : Confirm(accept)
  <2>1. UNCHANGED <<down, paused, takeover>>
    BY <1>4 DEF Answered, Timeout, NormalizeShown, NormalizeTimeout, Confirm, hubVars
  <2> QED BY <1>1, <1>2, <2>1
<1>5. CASE Cancelled
  <2>1. Post(<<Cancel>>) /\ UNCHANGED <<paused, takeover>>
    BY <1>5 DEF Cancelled
  <2> QED BY <1>2, <2>1, Makes, Commands, PostedOther
<1>6. CASE StartTakeover
  <2>1. Post(<<Start(NextTakeover)>>) /\ paused' = TRUE /\ takeover' = TRUE /\ NextTakeover \in Takeovers
    BY <1>6 DEF StartTakeover
  <2> QED BY <2>1, Makes, Commands, PostedCommand
<1>7. CASE StopTakeover
  <2>1. Post(<<Stop(tid, buffer)>>) /\ paused' = TRUE /\ takeover' = FALSE
    BY <1>1, <1>7 DEF StopTakeover, ClosedEarly
  <2>2. tid \in Takeovers /\ buffer \in Events
    BY <1>7 DEF TypeInv, StopTakeover, RecordTypes, HubTypes
  <2> QED BY <2>1, <2>2, Makes, Commands, PostedCommand
<1>8. CASE ResumeAgent
  <2>1. Post(<<Resume>>) /\ paused' = FALSE /\ takeover' = FALSE
    BY <1>8 DEF ResumeAgent, Unpause
  <2> QED BY <2>1, Makes, Commands, PostedCommand
<1>9. CASE CancelKey
  <2> DEFINE cancels == IF nreq = 0 THEN <<>> ELSE <<Cancel>>
             resumes == IF takeover THEN <<Resume>> ELSE <<>>
  <2>1. down' = down \o (cancels \o resumes) /\ down \in Seq(Sent)
    BY <1>1, <1>9 DEF CancelKey, Post, Posted, TypeInv, DownTypes
  <2>2. cancels \in Seq(Sent) /\ cancels \o resumes \in Seq(Sent)
    <3>1. cancels \in Seq(Sent) /\ resumes \in Seq(Sent)
      BY Makes
    <3> QED BY <3>1
  <2>3. CASE takeover
    <3>1. paused' = FALSE /\ takeover' = FALSE
      BY <1>9, <2>3 DEF CancelKey, Unpause
    <3>2. cancels \o resumes # <<>> /\ (cancels \o resumes)[Len(cancels \o resumes)] = Resume
      <4>1. cancels = <<>> \/ cancels = <<Cancel>>
        OBVIOUS
      <4>2. resumes = <<Resume>>
        BY <2>3
      <4> HIDE DEF cancels, resumes
      <4> QED BY <4>1, <4>2
    <3> HIDE DEF cancels, resumes
    <3> QED BY <2>1, <2>2, <3>1, <3>2, Commands, HeedCommand
  <2>4. CASE ~takeover
    <3>1. UNCHANGED <<paused, takeover>>
      BY <1>9, <2>4 DEF CancelKey
    <3>2. \A i \in 1..Len(cancels \o resumes) : ~IsCommand((cancels \o resumes)[i])
      <4>1. cancels \o resumes = <<>> \/ cancels \o resumes = <<Cancel>>
        BY <2>4
      <4> HIDE DEF cancels, resumes
      <4>2. CASE cancels \o resumes = <<>>
        BY <4>2
      <4>3. CASE cancels \o resumes = <<Cancel>>
        <5>1. Len(<<Cancel>>) = 1 /\ <<Cancel>>[1] = Cancel
          BY OneMessage
        <5> QED BY <4>3, <5>1, Commands
      <4> QED BY <4>1, <4>2, <4>3
    <3> HIDE DEF cancels, resumes
    <3> QED BY <1>1, <1>2, <2>1, <2>2, <3>1, <3>2, HeedOthers
  <2> QED BY <2>3, <2>4
<1> QED BY <1>3, <1>4, <1>5, <1>6, <1>7, <1>8, <1>9 DEF Chat

\* The worker makes of its flags what the command it receives says.
LEMMA ReceiveCommands ==
  ASSUME TypeInv, CommandInv, Receive, Undisturbed
  PROVE  Heeded(down', paused', takeover', wpaused', wactive')
<1>1. UNCHANGED <<paused, takeover>> /\ down # <<>> /\ down' = Tail(down)
  BY DEF Receive, ReceiveRequest, ReceiveCancel, ReceiveStart, ReceiveStop, ReceiveResume, Receives,
         hubVars
<1>2. down \in Seq(Sent) /\ Heeded(down, paused, takeover, wpaused, wactive)
  BY DEF TypeInv, DownTypes, CommandInv
<1>3. IF IsCommand(Head(down)) THEN Means(Head(down), wpaused', wactive')
      ELSE wpaused' = wpaused /\ wactive' = wactive
  BY DEF Receive, ReceiveRequest, ReceiveCancel, ReceiveStart, ReceiveStop, ReceiveResume, Receives,
         IsCommand, Means
<1> QED BY <1>1, <1>2, <1>3, HeedHead

\* Every step keeps the last command in force.
LEMMA StepCommands == TypeInv /\ FirstLink /\ CommandInv /\ [Next]_vars => CommandInv'
<1> SUFFICES ASSUME TypeInv, FirstLink, CommandInv, [Next]_vars, Undisturbed'
             PROVE  Heeded(down', paused', takeover', wpaused', wactive')
  BY DEF CommandInv
<1>1. CASE UNCHANGED vars
  BY <1>1 DEF vars, hubVars, linkVars, workerVars, CommandInv, Undisturbed
<1>2. CASE Next
  <2>1. Undisturbed /\ ~Link
    BY <1>2, Quiet
  <2>2. CASE Human \/ Work \/ \E c \in Conns : Handle(c)
    <3>1. UNCHANGED <<down, paused, takeover, wpaused, wactive>>
      BY <2>2 DEF Human, HubEvent, HumanActs, Work, Begin, Check, Act, ActFails, Normalize, NotWork,
             Handle, HubResult, HubNormalized, hubVars, workerVars
    <3> QED BY <2>1, <3>1 DEF CommandInv
  <2> QED BY <1>2, <2>1, <2>2, ChatCommands, ReceiveCommands DEF Next
<1> QED BY <1>1, <1>2

\* Hub and worker start agreed.
LEMMA InitCommands == Init => FirstLink /\ CommandInv
<1> SUFFICES ASSUME Init PROVE FirstLink /\ CommandInv
  OBVIOUS
<1>1. FirstLink
  BY Bounds DEF Init, FirstLink
<1>2. CommandInv
  <2>1. down = <<>> /\ wpaused = paused /\ wactive = takeover
    BY DEF Init
  <2>2. \A j \in DOMAIN down : FALSE
    BY <2>1
  <2> QED BY <2>1, <2>2 DEF CommandInv, Heeded
<1> QED BY <1>1, <1>2

\* Hub and worker agree on whether the agent is paused and the human records,
\* when nothing is on its way on the first connection.
THEOREM PausedAgrees == Spec => []PausedAgree
<1>1. Init => TypeInv /\ FirstLink /\ CommandInv
  BY InitTypes, InitCommands
<1>2. TypeInv /\ FirstLink /\ CommandInv /\ [Next]_vars => (TypeInv /\ FirstLink /\ CommandInv)'
  BY StepTypes, StepFirstLink, StepCommands
<1>3. CommandInv => PausedAgree
  BY DEF CommandInv, PausedAgree, Heeded
<1> QED BY <1>1, <1>2, <1>3, PTL DEF Spec

(* -------------------- what messages hold of takeovers -------------------- *)

Elems(q) == {q[i] : i \in DOMAIN q}

\* What a message says of takeovers: that of which takeover it is, as step 0 of
\* it, and the steps of the human that it carries.
Held(m) ==
  IF m.type = "takeover_stop" THEN {<<m.id, 0>>} \cup Elems(m.steps)
  ELSE IF m.type = "normalize_result" THEN {<<m.id, 0>>} \cup Elems(m.steps \o m.needs)
  ELSE {}

Has(q, x)  == \E i \in DOMAIN q : x \in Held(q[i])
Lone(q, x) == \A i, j \in DOMAIN q : (x \in Held(q[i]) /\ x \in Held(q[j])) => i = j

HumanSteps == Takeovers \X {1, 2}
Distinct(q) == \A i, j \in DOMAIN q : q[i] = q[j] => i = j
Proper(m) ==
  /\ m.type = "takeover_stop" => Distinct(m.steps)
  /\ m.type = "normalize_result" => Distinct(m.steps \o m.needs)
AllProper(q) == \A i \in DOMAIN q : Proper(q[i])

(* Places of a token in a sequence. *)
\* What a concatenation holds.
LEMMA HasConcat ==
  ASSUME NEW S, NEW q \in Seq(S), NEW r \in Seq(S), NEW x
  PROVE  Has(q \o r, x) <=> Has(q, x) \/ Has(r, x)
<1>1. Len(q) \in Nat /\ Len(r) \in Nat /\ DOMAIN q = 1..Len(q) /\ DOMAIN r = 1..Len(r)
      /\ DOMAIN (q \o r) = 1..(Len(q) + Len(r))
  OBVIOUS
<1>2. ASSUME Has(q \o r, x) PROVE Has(q, x) \/ Has(r, x)
  <2>1. PICK i \in 1..(Len(q) + Len(r)) : x \in Held((q \o r)[i])
    BY <1>1, <1>2 DEF Has
  <2>2. CASE i \in 1..Len(q)
    BY <1>1, <2>1, <2>2, Places DEF Has
  <2>3. CASE i - Len(q) \in 1..Len(r)
    <3>1. i = Len(q) + (i - Len(q))
      BY <1>1
    <3>2. (q \o r)[i] = r[i - Len(q)]
      BY <2>3, <3>1, Places
    <3> QED BY <1>1, <2>1, <2>3, <3>2 DEF Has
  <2> QED BY <2>2, <2>3, Places
<1>3. ASSUME Has(q, x) PROVE Has(q \o r, x)
  <2>1. PICK i \in 1..Len(q) : x \in Held(q[i])
    BY <1>1, <1>3 DEF Has
  <2>2. i \in 1..(Len(q) + Len(r)) /\ (q \o r)[i] = q[i]
    BY <1>1, Places
  <2> QED BY <1>1, <2>1, <2>2 DEF Has
<1>4. ASSUME Has(r, x) PROVE Has(q \o r, x)
  <2>1. PICK i \in 1..Len(r) : x \in Held(r[i])
    BY <1>1, <1>4 DEF Has
  <2>2. Len(q) + i \in 1..(Len(q) + Len(r)) /\ (q \o r)[Len(q) + i] = r[i]
    BY <1>1, Places
  <2> QED BY <1>1, <2>1, <2>2 DEF Has
<1> QED BY <1>2, <1>3, <1>4

\* What two sequences hold once between them, their concatenation holds once.
LEMMA LoneConcat ==
  ASSUME NEW S, NEW q \in Seq(S), NEW r \in Seq(S), NEW x, Lone(q, x), Lone(r, x),
         ~(Has(q, x) /\ Has(r, x))
  PROVE  Lone(q \o r, x)
<1>1. Len(q) \in Nat /\ Len(r) \in Nat /\ DOMAIN q = 1..Len(q) /\ DOMAIN r = 1..Len(r)
      /\ DOMAIN (q \o r) = 1..(Len(q) + Len(r))
  OBVIOUS
<1> SUFFICES ASSUME NEW i \in 1..(Len(q) + Len(r)), NEW j \in 1..(Len(q) + Len(r)),
                    x \in Held((q \o r)[i]), x \in Held((q \o r)[j])
             PROVE  i = j
  BY <1>1 DEF Lone
<1> DEFINE Left(k)  == k \in 1..Len(q) /\ x \in Held(q[k])
           Right(k) == k - Len(q) \in 1..Len(r) /\ x \in Held(r[k - Len(q)])
<1>2. ASSUME NEW k \in 1..(Len(q) + Len(r)), x \in Held((q \o r)[k]) PROVE Left(k) \/ Right(k)
  <2>1. CASE k \in 1..Len(q)
    BY <1>2, <2>1, Places
  <2>2. CASE k - Len(q) \in 1..Len(r)
    <3>1. k = Len(q) + (k - Len(q))
      BY <1>1
    <3>2. (q \o r)[k] = r[k - Len(q)]
      BY <2>2, <3>1, Places
    <3> QED BY <1>2, <2>2, <3>2
  <2> QED BY <2>1, <2>2, Places
<1>3. \A k : Left(k) => Has(q, x)
  BY <1>1 DEF Has
<1>4. \A k : Right(k) => Has(r, x)
  BY <1>1 DEF Has
<1>5. CASE Left(i) /\ Left(j)
  BY <1>1, <1>5 DEF Lone
<1>6. CASE Right(i) /\ Right(j)
  <2>1. i - Len(q) = j - Len(q)
    BY <1>1, <1>6 DEF Lone
  <2> QED BY <1>1, <2>1
<1> HIDE DEF Left, Right
<1> QED BY <1>2, <1>3, <1>4, <1>5, <1>6

\* What one message holds.
LEMMA OneHas == \A m, x : (Has(<<m>>, x) <=> x \in Held(m)) /\ Lone(<<m>>, x)
<1> SUFFICES ASSUME NEW m, NEW x PROVE (Has(<<m>>, x) <=> x \in Held(m)) /\ Lone(<<m>>, x)
  OBVIOUS
<1>1. DOMAIN <<m>> = {1} /\ <<m>>[1] = m
  OBVIOUS
<1> QED BY <1>1 DEF Has, Lone

\* No message holds nothing.
LEMMA NoneHas == \A x : ~Has(<<>>, x) /\ Lone(<<>>, x)
<1>1. \A i \in DOMAIN <<>> : FALSE
  OBVIOUS
<1> QED BY <1>1 DEF Has, Lone

\* Taking the first message takes what it holds.
LEMMA TailHas ==
  ASSUME NEW S, NEW q \in Seq(S), q # <<>>, NEW x
  PROVE  /\ Has(Tail(q), x) => Has(q, x)
         /\ x \in Held(Head(q)) => Has(q, x)
         /\ Has(q, x) => x \in Held(Head(q)) \/ Has(Tail(q), x)
         /\ Lone(q, x) => Lone(Tail(q), x) /\ ~(x \in Held(Head(q)) /\ Has(Tail(q), x))
<1>1. Len(q) \in Nat \ {0} /\ DOMAIN q = 1..Len(q) /\ Head(q) = q[1] /\ 1 \in DOMAIN q
  BY TailPlaces
<1>2. \A j \in DOMAIN Tail(q) : /\ j + 1 \in DOMAIN q /\ Tail(q)[j] = q[j + 1] /\ j \in Nat
                                /\ j > 0 /\ j + 1 # 1
  BY TailPlaces
<1>3. \A i \in DOMAIN q : i # 1 => i - 1 \in DOMAIN Tail(q) /\ Tail(q)[i - 1] = q[i]
  BY <1>1, TailPlaces
<1>4. Has(Tail(q), x) => Has(q, x)
  BY <1>2 DEF Has
<1>5. x \in Held(Head(q)) => Has(q, x)
  BY <1>1 DEF Has
<1>6. Has(q, x) => x \in Held(Head(q)) \/ Has(Tail(q), x)
  BY <1>1, <1>3 DEF Has
<1>7. ASSUME Lone(q, x) PROVE Lone(Tail(q), x) /\ ~(x \in Held(Head(q)) /\ Has(Tail(q), x))
  <2>1. \A i, j \in DOMAIN Tail(q) : (x \in Held(Tail(q)[i]) /\ x \in Held(Tail(q)[j])) => i = j
    <3> SUFFICES ASSUME NEW i \in DOMAIN Tail(q), NEW j \in DOMAIN Tail(q),
                        x \in Held(Tail(q)[i]), x \in Held(Tail(q)[j])
                 PROVE  i = j
      OBVIOUS
    <3>1. i + 1 = j + 1
      BY <1>2, <1>7 DEF Lone
    <3> QED BY <1>2, <3>1
  <2>2. ~(x \in Held(Head(q)) /\ Has(Tail(q), x))
    BY <1>1, <1>2, <1>7 DEF Lone, Has
  <2> QED BY <2>1, <2>2 DEF Lone
<1> QED BY <1>4, <1>5, <1>6, <1>7

\* Keeping some of the messages adds none.
LEMMA KeptHas ==
  ASSUME NEW S, NEW q \in Seq(S), NEW I, NEW x
  PROVE  /\ Has(Kept(q, I), x) => Has(q, x)
         /\ Lone(q, x) => Lone(Kept(q, I), x)
<1>1. PICK g \in [1..Len(Kept(q, I)) -> I \cap DOMAIN q] :
         /\ \A a, b \in 1..Len(Kept(q, I)) : a < b => g[a] < g[b]
         /\ \A a \in 1..Len(Kept(q, I)) : Kept(q, I)[a] = q[g[a]]
  BY KeptPlaces
<1>2. Kept(q, I) \in Seq(S) /\ DOMAIN Kept(q, I) = 1..Len(Kept(q, I)) /\ Len(Kept(q, I)) \in Nat
      /\ DOMAIN q \subseteq Nat
  BY KeptPlaces, SeqOps
<1> DEFINE k == Kept(q, I)
           n == Len(k)
<1>3. \A a \in 1..n : g[a] \in DOMAIN q /\ k[a] = q[g[a]] /\ g[a] \in Nat
  BY <1>1, <1>2
<1>4. \A a, b \in 1..n : g[a] = g[b] => a = b
  <2> SUFFICES ASSUME NEW a \in 1..n, NEW b \in 1..n, g[a] = g[b], a # b PROVE FALSE
    OBVIOUS
  <2>1. a < b \/ b < a
    BY <1>2
  <2>2. g[a] < g[b] \/ g[b] < g[a]
    BY <1>1, <2>1
  <2> QED BY <1>3, <2>2
<1>5. DOMAIN k = 1..n
  BY <1>2
<1> HIDE DEF k, n
<1>6. Has(k, x) => Has(q, x)
  BY <1>3, <1>5 DEF Has
<1>7. Lone(q, x) => Lone(k, x)
  BY <1>3, <1>4, <1>5 DEF Lone
<1> QED BY <1>6, <1>7 DEF k

\* Nor does a part of the messages.
LEMMA SubSeqHas ==
  ASSUME NEW S, NEW q \in Seq(S), NEW m \in Nat \ {0}, NEW n \in 0..Len(q), NEW x
  PROVE  /\ Has(SubSeq(q, m, n), x) => Has(q, x)
         /\ Lone(q, x) => Lone(SubSeq(q, m, n), x)
<1> DEFINE s == SubSeq(q, m, n)
<1>1. Len(q) \in Nat /\ DOMAIN q = 1..Len(q)
  OBVIOUS
<1>2. \A i \in DOMAIN s : i \in Nat /\ m + i - 1 \in DOMAIN q /\ s[i] = q[m + i - 1]
  <2>1. s \in Seq(S) /\ Len(s) = (IF m <= n THEN n - m + 1 ELSE 0)
        /\ \A i \in 1..(n - m + 1) : s[i] = q[m + i - 1]
    BY SubSeqIn
  <2>2. DOMAIN s = 1..Len(s)
    BY <2>1
  <2> HIDE DEF s
  <2> QED BY <1>1, <2>1, <2>2
<1> HIDE DEF s
<1>3. Has(s, x) => Has(q, x)
  BY <1>2 DEF Has
<1>4. ASSUME Lone(q, x), NEW i \in DOMAIN s, NEW j \in DOMAIN s, x \in Held(s[i]), x \in Held(s[j])
      PROVE  i = j
  <2>1. m + i - 1 = m + j - 1
    BY <1>2, <1>4 DEF Lone
  <2> QED BY <1>2, <2>1
<1> QED BY <1>3, <1>4 DEF Lone, s

\* What each message holds.
LEMMA HeldFacts ==
  /\ Held(Resume) = {} /\ Held(Cancel) = {} /\ Held(PairingResult) = {}
  /\ \A id, s : Held(Request(id, s)) = {}
  /\ \A t : Held(Start(t)) = {}
  /\ \A id, ok : Held(Result(id, ok)) = {}
  /\ \A t, s : Held(Stop(t, s)) = {<<t, 0>>} \cup Elems(s)
  /\ \A t, s, n : Held(Normalized(t, s, n)) = {<<t, 0>>} \cup Elems(s \o n)
  /\ \A m : m.type \in {"action_request", "action_result", "cancel", "resume", "takeover_start"}
              => Held(m) = {}
  BY DEF Held, Resume, Cancel, PairingResult, Request, Start, Result, Stop, Normalized

\* A takeover and its steps are told apart.
LEMMA Tokens ==
  /\ \A s \in Events : Elems(s) \subseteq Steps
  /\ \A t : <<t, 0>> \notin Steps
  /\ \A t, u : <<t, 0>> = <<u, 0>> => t = u
  /\ HumanSteps \subseteq Steps
  /\ \A t : <<t, 0>> \notin HumanSteps
<1>1. \A s \in Events : Elems(s) \subseteq Steps
  BY DEF Elems, Events
<1>2. \A t : <<t, 0>> \notin Steps /\ <<t, 0>> \notin HumanSteps
  BY DEF Steps, HumanSteps
<1>3. HumanSteps \subseteq Steps
  BY Bounds DEF HumanSteps, Steps
<1> QED BY <1>1, <1>2, <1>3

\* The messages of a cancelled or refused batch hold nothing.
LEMMA RejectHas ==
  ASSUME TypeInv, RejectQueued
  PROVE  \E msgs \in Seq(ToHub) : Respond(msgs) /\ AllProper(msgs) /\ \A x : ~Has(msgs, x)
<1>0. PICK n \in Nat : \E id \in [1..n -> Ids] : Rejections = [i \in 1..n |-> Result(id[i], FALSE)]
  BY RejectedRequests DEF TypeInv
<1>1. PICK id \in [1..n -> Ids] : Rejections = [i \in 1..n |-> Result(id[i], FALSE)]
  BY <1>0
<1>2. \A i \in 1..n : Result(id[i], FALSE) \in ToHub
  <2>1. FALSE \in BOOLEAN
    OBVIOUS
  <2> QED BY <2>1, Makes, Zenon
<1>3. Rejections \in [1..n -> ToHub]
  BY <1>1, <1>2
<1>4. Rejections \in Seq(ToHub)
  BY <1>3, FunSeq
<1>5. \A x : ~Has(Rejections, x)
  BY <1>1, HeldFacts DEF Has
<1>6. AllProper(Rejections)
  <2>1. \A i \in DOMAIN Rejections : Rejections[i] = Result(id[i], FALSE)
    BY <1>1
  <2> QED BY <2>1 DEF AllProper, Proper, Result
<1>7. Respond(Rejections)
  BY DEF RejectQueued, Rejections
<1> QED BY <1>4, <1>5, <1>6, <1>7

(* ------------------------- normalized takeovers -------------------------- *)

StopAt(x, s) ==
  /\ Lone(down, x) /\ Lone(queue, x) /\ Lone(up[1], x)
  /\ Has(down, x) => s = "down"
  /\ Has(queue, x) => s = "queue"
  /\ Has(up[1], x) => s = "up"
Announced(t) == Has(down, <<t, 0>>) \/ Has(queue, <<t, 0>>) \/ Has(up[1], <<t, 0>>)
AnnouncedInv(t) ==
  /\ \E s \in {"none", "down", "queue", "up"} : StopAt(<<t, 0>>, s)
  /\ Announced(t) => t \in normWaiters /\ t <= tid /\ (recording => t < tid)
ReplyOwn == (at = "normalize" /\ reply # NoReply) => reply.id = tid
NormInv == Undisturbed => /\ \A t \in Takeovers : AnnouncedInv(t)
                          /\ ReplyOwn

\* A step that announces nothing new of a takeover.
LEMMA AnnouncedStays ==
  ASSUME NEW t \in Takeovers, AnnouncedInv(t),
         Has(down', <<t, 0>>) => Has(down, <<t, 0>>), Lone(down, <<t, 0>>) => Lone(down', <<t, 0>>),
         Has(queue', <<t, 0>>) => Has(queue, <<t, 0>>), Lone(queue, <<t, 0>>) => Lone(queue', <<t, 0>>),
         Has(up'[1], <<t, 0>>) => Has(up[1], <<t, 0>>), Lone(up[1], <<t, 0>>) => Lone(up'[1], <<t, 0>>),
         Announced(t) /\ t \in normWaiters => t \in normWaiters',
         tid \in Nat, tid' \in Nat, tid <= tid', recording' => (recording \/ tid < tid')
  PROVE  AnnouncedInv(t)'
<1>1. Announced(t)' => Announced(t)
  BY DEF Announced
<1>2. \A s : StopAt(<<t, 0>>, s) => StopAt(<<t, 0>>, s)'
  BY DEF StopAt
<1>3. t \in Nat
  BY Bounds
<1>4. t <= tid => t <= tid' /\ ((recording => t < tid) => (recording' => t < tid'))
  BY <1>3
<1> QED BY <1>1, <1>2, <1>4 DEF AnnouncedInv

\* Posting what holds no takeover.
LEMMA PostNothing ==
  ASSUME TypeInv, FirstLink, Undisturbed, NEW envs \in Seq(Sent), Post(envs),
         NEW x, ~Has(envs, x), Lone(envs, x)
  PROVE  (Has(down', x) => Has(down, x)) /\ (Lone(down, x) => Lone(down', x))
<1>1. down' = down \o envs /\ down \in Seq(Sent)
  BY DEF Post, Posted, FirstLink, Undisturbed, TypeInv, DownTypes
<1> QED BY <1>1, HasConcat, LoneConcat

\* The last takeover is a number.
LEMMA TidTypes == TypeInv => tid \in Nat
  BY Bounds DEF TypeInv, HubTypes

\* A takeover is announced once, by its stop, with its waiter registered.
LEMMA ChatNorm ==
  ASSUME TypeInv, FirstLink, NormInv, Chat, Undisturbed
  PROVE  (\A t \in Takeovers : AnnouncedInv(t)') /\ ReplyOwn'
<1>1. (\A t \in Takeovers : AnnouncedInv(t)) /\ ReplyOwn /\ outbound = 1 /\ cur = 1
  BY DEF NormInv, FirstLink, Undisturbed
<1>2. UNCHANGED <<queue, up>>
  BY DEF Chat, Send, Answered, Timeout, Cancelled, StartTakeover, StopTakeover, NormalizeShown,
         NormalizeTimeout, ResumeAgent, CancelKey, Confirm, workerVars
<1>3. tid \in Nat
  BY TidTypes
<1>4. CASE StopTakeover
  <2>1. /\ Post(<<Stop(tid, buffer)>>) /\ normWaiters' = normWaiters \cup {tid} /\ tid' = tid
        /\ recording /\ recording' = FALSE /\ reply' = reply /\ tid \in Takeovers /\ buffer \in Events
    BY <1>1, <1>4 DEF StopTakeover, ClosedEarly, TypeInv, RecordTypes, HubTypes
  <2>2. reply' = NoReply
    BY <1>4, <2>1 DEF StopTakeover, TypeInv, ChatTypes, ReplyTypes
  <2>3. down' = down \o <<Stop(tid, buffer)>> /\ down \in Seq(Sent) /\ <<Stop(tid, buffer)>> \in Seq(Sent)
    <3>1. Stop(tid, buffer) \in Sent
      BY <2>1, Makes
    <3> QED BY <2>1, <3>1, SingleIn DEF Post, Posted, FirstLink, Undisturbed, TypeInv, DownTypes
  <2>4. ASSUME NEW t \in Takeovers, t # tid PROVE AnnouncedInv(t)'
    <3>1. <<t, 0>> \notin Held(Stop(tid, buffer))
      BY <2>1, <2>4, HeldFacts, Tokens
    <3>2. ~Has(<<Stop(tid, buffer)>>, <<t, 0>>) /\ Lone(<<Stop(tid, buffer)>>, <<t, 0>>)
      BY <3>1, OneHas
    <3>3. (Has(down', <<t, 0>>) => Has(down, <<t, 0>>)) /\ (Lone(down, <<t, 0>>) => Lone(down', <<t, 0>>))
      BY <2>1, <2>3, <3>2, PostNothing
    <3> QED BY <1>1, <1>2, <1>3, <2>1, <3>3, AnnouncedStays
  <2>5. ASSUME NEW t \in Takeovers, t = tid PROVE AnnouncedInv(t)'
    <3>1. ~Announced(t)
      <4>1. AnnouncedInv(t)
        BY <1>1
      <4>2. Announced(t) => t < tid
        BY <4>1, <2>1 DEF AnnouncedInv
      <4> QED BY <1>3, <2>5, <4>2
    <3>2. Lone(down, <<t, 0>>) /\ Lone(queue, <<t, 0>>) /\ Lone(up[1], <<t, 0>>)
      BY <1>1 DEF AnnouncedInv, StopAt
    <3>3. Lone(down', <<t, 0>>)
      BY <2>3, <3>1, <3>2, OneHas, LoneConcat DEF Announced
    <3>4. StopAt(<<t, 0>>, "down")'
      BY <1>2, <3>1, <3>2, <3>3 DEF StopAt, Announced
    <3>5. t \in normWaiters' /\ t <= tid' /\ ~recording'
      BY <1>3, <2>1, <2>5
    <3> QED BY <3>4, <3>5 DEF AnnouncedInv
  <2> QED BY <2>2, <2>4, <2>5 DEF ReplyOwn
<1>5. CASE StartTakeover
  <2>1. /\ Post(<<Start(NextTakeover)>>) /\ normWaiters' = normWaiters /\ tid' = NextTakeover
        /\ NextTakeover \in Takeovers /\ at' = "idle"
    BY <1>5 DEF StartTakeover
  <2>2. tid' \in Nat /\ tid < tid'
    BY <1>3, <2>1, Bounds DEF NextTakeover, Takeovers
  <2>3. Start(NextTakeover) \in Sent
    BY <2>1, Makes
  <2>4. \A x : ~Has(<<Start(NextTakeover)>>, x) /\ Lone(<<Start(NextTakeover)>>, x)
    BY OneHas, HeldFacts
  <2>5. \A x : (Has(down', x) => Has(down, x)) /\ (Lone(down, x) => Lone(down', x))
    BY <2>1, <2>3, <2>4, SingleIn, PostNothing
  <2>6. tid <= tid'
    BY <1>3, <2>2
  <2>7. \A t \in Takeovers : AnnouncedInv(t)'
    BY <1>1, <1>2, <1>3, <2>1, <2>2, <2>5, <2>6, AnnouncedStays
  <2> QED BY <2>1, <2>7 DEF ReplyOwn
<1>6. ASSUME ~StartTakeover, ~StopTakeover
      PROVE  (\A t \in Takeovers : AnnouncedInv(t)') /\ ReplyOwn'
  <2>1. /\ UNCHANGED <<normWaiters, tid>> /\ (recording' => recording)
        /\ (at' # "normalize" \/ UNCHANGED <<at, reply>>)
    BY <1>6 DEF Chat, Send, Refused, Answered, Timeout, Cancelled, NormalizeShown, NormalizeTimeout,
           ResumeAgent, CancelKey, Confirm, hubVars, Shown
  <2>2. ReplyOwn'
    BY <1>1, <2>1 DEF ReplyOwn
  <2>3. tid' \in Nat /\ tid <= tid'
    BY <1>3, <2>1
  <2>4. CASE UNCHANGED down
    BY <1>1, <1>2, <1>3, <2>1, <2>4, <2>2, <2>3, AnnouncedStays
  <2>5. ASSUME NEW envs \in Seq(Sent), Post(envs), \A x : ~Has(envs, x)
        PROVE  (\A t \in Takeovers : AnnouncedInv(t)') /\ ReplyOwn'
    <3>1. \A x : Lone(envs, x)
      BY <2>5 DEF Lone, Has
    <3>2. \A x : (Has(down', x) => Has(down, x)) /\ (Lone(down, x) => Lone(down', x))
      BY <2>5, <3>1, PostNothing
    <3> QED BY <1>1, <1>2, <1>3, <2>1, <2>2, <2>3, <3>2, AnnouncedStays
  <2>6. UNCHANGED down \/ \E envs \in Seq(Sent) : Post(envs) /\ \A x : ~Has(envs, x)
    <3>1. CASE Send
      <4>1. CASE Post(<<Request(nreq + 1, Batch(nreq + 1))>>)
        <5>1. nreq + 1 \in Requests
          BY <3>1, Bounds DEF Send, TypeInv, ChatTypes, Requests
        <5>2. Request(nreq + 1, Batch(nreq + 1)) \in Sent
          BY <5>1, Bounds, Batches, Makes
        <5>3. <<Request(nreq + 1, Batch(nreq + 1))>> \in Seq(Sent)
              /\ \A x : ~Has(<<Request(nreq + 1, Batch(nreq + 1))>>, x)
          BY <5>2, SingleIn, OneHas, HeldFacts
        <5> QED BY <4>1, <5>3
      <4> QED BY <3>1, <4>1 DEF Send
    <3>2. CASE Cancelled
      BY <3>2, Makes, SingleIn, OneHas, HeldFacts DEF Cancelled
    <3>3. CASE ResumeAgent
      BY <3>3, Makes, SingleIn, OneHas, HeldFacts DEF ResumeAgent
    <3>4. CASE CancelKey
      <4> DEFINE cancels == IF nreq = 0 THEN <<>> ELSE <<Cancel>>
                 resumes == IF takeover THEN <<Resume>> ELSE <<>>
      <4>1. cancels \in Seq(Sent) /\ resumes \in Seq(Sent)
        BY Makes
      <4>2. \A x : ~Has(cancels, x) /\ ~Has(resumes, x)
        BY OneHas, NoneHas, HeldFacts
      <4>3. Post(cancels \o resumes)
        BY <3>4 DEF CancelKey
      <4> HIDE DEF cancels, resumes
      <4>4. cancels \o resumes \in Seq(Sent) /\ \A x : ~Has(cancels \o resumes, x)
        BY <4>1, <4>2, HasConcat
      <4> QED BY <4>3, <4>4
    <3>5. CASE Answered \/ Timeout \/ NormalizeShown \/ NormalizeTimeout \/ \E accept \in BOOLEAN : Confirm(accept)
      BY <3>5 DEF Answered, Timeout, NormalizeShown, NormalizeTimeout, Confirm
    <3> QED BY <1>6, <3>1, <3>2, <3>3, <3>4, <3>5 DEF Chat
  <2> QED BY <2>4, <2>5, <2>6
<1> QED BY <1>4, <1>5, <1>6

\* A normalized takeover meets its own waiter, which is there.
LEMMA HandleNorm ==
  ASSUME TypeInv, FirstLink, NormInv, NEW c \in Conns, Handle(c), Undisturbed
  PROVE  (\A t \in Takeovers : AnnouncedInv(t)') /\ ReplyOwn'
<1>1. (\A t \in Takeovers : AnnouncedInv(t)) /\ ReplyOwn /\ tid \in Nat
  BY TidTypes DEF NormInv
<1>2. up \in [Conns -> Seq(ToHub)] /\ up[c] # <<>> /\ up' = [up EXCEPT ![c] = Tail(@)]
  BY DEF Handle, HubResult, HubNormalized, Hears, TypeInv, UpTypes
<1>3. c = 1
  BY <1>2 DEF FirstLink
<1>4. up[1] \in Seq(ToHub) /\ up[1] # <<>> /\ up'[1] = Tail(up[1])
  BY <1>2, <1>3
<1>5. UNCHANGED <<down, queue, tid, recording, at>>
  BY DEF Handle, HubResult, HubNormalized, workerVars
<1>6. \A x : (Has(up'[1], x) => Has(up[1], x)) /\ (Lone(up[1], x) => Lone(up'[1], x))
  BY <1>4, TailHas
<1>7. tid' \in Nat /\ tid <= tid'
  BY <1>1, <1>5
<1>8. CASE HubResult(c)
  <2>1. normWaiters' = normWaiters /\ (reply' = reply \/ at = "action")
    BY <1>8 DEF HubResult, Answers
  <2>2. ReplyOwn'
    BY <1>1, <1>5, <2>1 DEF ReplyOwn
  <2> QED BY <1>1, <1>5, <1>6, <1>7, <2>1, <2>2, AnnouncedStays
<1>9. CASE HubNormalized(c)
  <2> DEFINE m == Head(up[1])
  <2>1. m \in ToHub /\ m.type = "normalize_result" /\ m.id \in Takeovers
    BY <1>3, <1>9, HearsTypes, Reads DEF HubNormalized
  <2>2. <<m.id, 0>> \in Held(m)
    BY <2>1 DEF Held
  <2>3. Has(up[1], <<m.id, 0>>)
    BY <1>4, <2>2, TailHas
  <2>4. m.id \in normWaiters
    BY <1>1, <2>1, <2>3 DEF AnnouncedInv, Announced
  <2>5. normWaiters' = normWaiters \ {m.id}
    BY <1>3, <1>9, <2>4 DEF HubNormalized, NormalizeWaiter
  <2>6. ReplyOwn'
    <3>1. reply' = reply \/ (tid = m.id /\ reply' = [id |-> m.id, needs |-> m.needs # <<>>])
      BY <1>3, <1>9, <2>4 DEF HubNormalized, NormalizeWaiter
    <3> QED BY <1>1, <1>5, <3>1 DEF ReplyOwn
  <2>7. ASSUME NEW t \in Takeovers, t # m.id PROVE AnnouncedInv(t)'
    BY <1>1, <1>5, <1>6, <1>7, <2>5, <2>7, AnnouncedStays
  <2>8. ASSUME NEW t \in Takeovers, t = m.id PROVE AnnouncedInv(t)'
    <3>1. PICK s : StopAt(<<t, 0>>, s)
      BY <1>1 DEF AnnouncedInv
    <3>2. s = "up" /\ ~Has(down, <<t, 0>>) /\ ~Has(queue, <<t, 0>>)
      BY <2>3, <2>8, <3>1 DEF StopAt
    <3>3. ~Has(Tail(up[1]), <<t, 0>>)
      BY <1>4, <2>2, <2>8, <3>1, TailHas DEF StopAt
    <3>4. ~Announced(t)'
      BY <1>4, <1>5, <3>2, <3>3 DEF Announced
    <3>5. StopAt(<<t, 0>>, "up")'
      BY <1>5, <1>6, <3>1, <3>4 DEF StopAt, Announced
    <3> QED BY <3>4, <3>5 DEF AnnouncedInv
  <2> QED BY <2>6, <2>7, <2>8
<1> QED BY <1>8, <1>9 DEF Handle

\* Responding with what holds no takeover.
LEMMA RespondNothing ==
  ASSUME TypeInv, Undisturbed, NEW msgs \in Seq(ToHub), Respond(msgs), NEW x, ~Has(msgs, x)
  PROVE  (Has(up'[1], x) => Has(up[1], x)) /\ (Lone(up[1], x) => Lone(up'[1], x))
<1>1. up[1] \in Seq(ToHub) /\ up'[1] = up[1] \o msgs
  BY Bounds DEF TypeInv, UpTypes, Respond, Undisturbed
<1>2. Lone(msgs, x)
  BY DEF Lone, Has
<1> QED BY <1>1, <1>2, HasConcat, LoneConcat

\* A stop moves from the connection to the queue.
LEMMA ReceiveNorm ==
  ASSUME TypeInv, FirstLink, NormInv, Receive, Undisturbed
  PROVE  (\A t \in Takeovers : AnnouncedInv(t)') /\ ReplyOwn'
<1>1. (\A t \in Takeovers : AnnouncedInv(t)) /\ ReplyOwn /\ tid \in Nat
  BY TidTypes DEF NormInv
<1>2. down \in Seq(Sent) /\ down # <<>> /\ down' = Tail(down) /\ queue \in Seq(Sent)
      /\ Head(down) \in Sent
  BY SeqOps DEF Receive, ReceiveRequest, ReceiveCancel, ReceiveStart, ReceiveStop, ReceiveResume,
                Receives, TypeInv, DownTypes, WorkerTypes
<1>3. UNCHANGED <<normWaiters, tid, recording, at, reply>>
  BY DEF Receive, ReceiveRequest, ReceiveCancel, ReceiveStart, ReceiveStop, ReceiveResume, Receives,
         hubVars, chatVars
<1>4. ReplyOwn' /\ tid' \in Nat /\ tid <= tid'
  BY <1>1, <1>3 DEF ReplyOwn
<1>5. \A x : (Has(down', x) => Has(down, x)) /\ (Lone(down, x) => Lone(down', x))
  BY <1>2, TailHas
<1>6. \A x : (Has(up'[1], x) => Has(up[1], x)) /\ (Lone(up[1], x) => Lone(up'[1], x))
  <2>1. CASE up' = up
    BY <2>1
  <2>2. CASE RejectQueued
    BY <2>2, RejectHas, RespondNothing
  <2>3. CASE ReceiveRequest /\ Respond(<<Result(Head(down).id, FALSE)>>)
    <3>1. Head(down).id \in Ids
      BY <1>2, <2>3, Reads DEF ReceiveRequest, Receives
    <3>2. Result(Head(down).id, FALSE) \in ToHub
      <4>1. FALSE \in BOOLEAN
        OBVIOUS
      <4> QED BY <3>1, <4>1, Makes, Zenon
    <3>3. <<Result(Head(down).id, FALSE)>> \in Seq(ToHub)
      BY <3>2, SingleIn, Zenon
    <3>4. \A x : ~Has(<<Result(Head(down).id, FALSE)>>, x)
      BY OneHas, HeldFacts
    <3> QED BY <2>3, <3>3, <3>4, RespondNothing
  <2> QED BY <2>1, <2>2, <2>3 DEF Receive, ReceiveRequest, ReceiveCancel, ReceiveStart, ReceiveStop,
                                  ReceiveResume
<1>7. StopsQueued \in Seq(Sent)
      /\ \A x : (Has(StopsQueued, x) => Has(queue, x)) /\ (Lone(queue, x) => Lone(StopsQueued, x))
  BY <1>2, KeptHas, StopsTypes DEF StopsQueued, TypeInv
<1>8. CASE ~ReceiveStop
  <2>1. \A x : (Has(queue', x) => Has(queue, x)) /\ (Lone(queue, x) => Lone(queue', x))
    <3>1. CASE queue' = queue
      BY <3>1
    <3>2. CASE queue' = StopsQueued
      BY <1>7, <3>2
    <3>3. CASE ReceiveRequest /\ queue' = Append(queue, Head(down))
      <4>1. Held(Head(down)) = {}
        BY <3>3, HeldFacts DEF ReceiveRequest, Receives
      <4>2. \A x : ~Has(<<Head(down)>>, x) /\ Lone(<<Head(down)>>, x)
        BY <4>1, OneHas
      <4>3. queue' = queue \o <<Head(down)>> /\ <<Head(down)>> \in Seq(Sent)
        BY <1>2, <3>3, AppendIs
      <4> QED BY <1>2, <4>2, <4>3, HasConcat, LoneConcat
    <3> QED BY <1>8, <3>1, <3>2, <3>3 DEF Receive, ReceiveRequest, ReceiveCancel, ReceiveStart,
                                          ReceiveResume
  <2>2. \A t \in Takeovers : AnnouncedInv(t)'
    BY <1>1, <1>3, <1>4, <1>5, <1>6, <2>1, AnnouncedStays
  <2> QED BY <1>4, <2>2
<1>9. CASE ReceiveStop
  <2> DEFINE e == Head(down)
  <2>1. e.type = "takeover_stop" /\ e.id \in Takeovers /\ e.steps \in Events
    BY <1>2, <1>9, Reads DEF ReceiveStop, Receives
  <2>2. queue' = StopsQueued \o <<e>> /\ <<e>> \in Seq(Sent)
    BY <1>2, <1>7, <1>9, AppendIs DEF ReceiveStop
  <2>3. Held(e) = {<<e.id, 0>>} \cup Elems(e.steps)
    BY <2>1 DEF Held
  <2>4. ASSUME NEW t \in Takeovers, t # e.id PROVE AnnouncedInv(t)'
    <3>1. ~Has(<<e>>, <<t, 0>>) /\ Lone(<<e>>, <<t, 0>>)
      BY <2>1, <2>3, <2>4, OneHas, Tokens
    <3>2. (Has(queue', <<t, 0>>) => Has(queue, <<t, 0>>)) /\ (Lone(queue, <<t, 0>>) => Lone(queue', <<t, 0>>))
      BY <1>7, <2>2, <3>1, HasConcat, LoneConcat
    <3> QED BY <1>1, <1>3, <1>4, <1>5, <1>6, <3>2, AnnouncedStays
  <2>5. ASSUME NEW t \in Takeovers, t = e.id PROVE AnnouncedInv(t)'
    <3>1. <<t, 0>> \in Held(e)
      BY <2>3, <2>5
    <3>2. PICK s : StopAt(<<t, 0>>, s)
      BY <1>1 DEF AnnouncedInv
    <3>3. Has(down, <<t, 0>>) /\ ~Has(down', <<t, 0>>)
      BY <1>2, <3>1, <3>2, TailHas DEF StopAt
    <3>4. ~Has(queue, <<t, 0>>) /\ ~Has(up[1], <<t, 0>>)
      BY <3>2, <3>3 DEF StopAt
    <3>5. Lone(queue', <<t, 0>>)
      BY <1>7, <2>2, <3>2, <3>4, OneHas, LoneConcat DEF StopAt
    <3>6. StopAt(<<t, 0>>, "queue")'
      BY <1>5, <1>6, <3>2, <3>3, <3>4, <3>5 DEF StopAt
    <3>7. Announced(t)
      BY <3>3 DEF Announced
    <3> QED BY <1>1, <1>3, <3>6, <3>7 DEF AnnouncedInv
  <2> QED BY <1>4, <2>4, <2>5
<1> QED BY <1>8, <1>9

\* A stop that is executed becomes the normalized takeover of the same id.
LEMMA WorkNorm ==
  ASSUME TypeInv, FirstLink, NormInv, Work, Undisturbed
  PROVE  (\A t \in Takeovers : AnnouncedInv(t)') /\ ReplyOwn'
<1>1. (\A t \in Takeovers : AnnouncedInv(t)) /\ ReplyOwn /\ tid \in Nat /\ queue \in Seq(Sent)
  BY TidTypes DEF NormInv, TypeInv, WorkerTypes
<1>2. UNCHANGED <<down, normWaiters, tid, recording, at, reply>>
  BY DEF Work, Begin, Check, Act, ActFails, Normalize, NotWork, hubVars, chatVars
<1>3. ReplyOwn' /\ tid' \in Nat /\ tid <= tid'
  BY <1>1, <1>2 DEF ReplyOwn
<1>4. \A x : (Has(queue', x) => Has(queue, x)) /\ (Lone(queue, x) => Lone(queue', x))
  <2>1. CASE queue' = queue
    BY <2>1
  <2>2. CASE queue # <<>> /\ queue' = Tail(queue)
    BY <1>1, <2>2, TailHas
  <2> QED BY <2>1, <2>2 DEF Work, Begin, Check, Act, ActFails, Normalize
<1>5. CASE Begin \/ Check \/ Act \/ ActFails
  <2>1. \A x : (Has(up'[1], x) => Has(up[1], x)) /\ (Lone(up[1], x) => Lone(up'[1], x))
    <3>1. CASE up' = up
      BY <3>1
    <3>2. ASSUME NEW ok \in BOOLEAN, run # NoRun, Finish(ok)
          PROVE  \A x : (Has(up'[1], x) => Has(up[1], x)) /\ (Lone(up[1], x) => Lone(up'[1], x))
      <4>1. run.id \in Ids
        BY <3>2 DEF TypeInv, RunTypes, Running
      <4>2. <<Result(run.id, ok)>> \in Seq(ToHub) /\ \A x : ~Has(<<Result(run.id, ok)>>, x)
        BY <4>1, Makes, OneHas, HeldFacts
      <4> QED BY <3>2, <4>2, RespondNothing DEF Finish
    <3> QED BY <1>5, <3>1, <3>2 DEF Begin, Check, Act, ActFails
  <2>2. \A t \in Takeovers : AnnouncedInv(t)'
    BY <1>1, <1>2, <1>3, <1>4, <2>1, AnnouncedStays
  <2> QED BY <1>3, <2>2
<1>6. CASE Normalize
  <2> DEFINE e == Head(queue)
             kept == Kept(e.steps, {i \in DOMAIN e.steps : Stable(e.steps[i])})
             needs == Kept(e.steps, {i \in DOMAIN e.steps : Unstable(e.steps[i])})
  <2>1. e \in Sent /\ e.type = "takeover_stop" /\ queue # <<>> /\ queue' = Tail(queue)
    BY <1>1, <1>6, SeqOps DEF Normalize, IsStop
  <2>2. e.id \in Takeovers /\ e.steps \in Seq(Steps)
    BY <2>1, Reads DEF Events
  <2>3. kept \in Events /\ needs \in Events /\ <<>> \in Events
    BY <2>2, KeptPlaces DEF Events
  <2>4. PICK s \in Events, n \in Events : Respond(<<Normalized(e.id, s, n)>>)
    BY <1>6, <2>3 DEF Normalize
  <2> DEFINE m == Normalized(e.id, s, n)
  <2>5. up[1] \in Seq(ToHub) /\ <<m>> \in Seq(ToHub) /\ up'[1] = up[1] \o <<m>>
    <3>1. m \in ToHub
      BY <2>2, Makes
    <3> HIDE DEF m
    <3>2. Respond(<<m>>)
      BY <2>4 DEF m
    <3> QED BY <3>1, <3>2, Bounds, SingleIn DEF TypeInv, UpTypes, Respond, Undisturbed
  <2>6. Held(m) = {<<e.id, 0>>} \cup Elems(s \o n) /\ s \o n \in Events
    BY HeldFacts, SeqOps DEF Events
  <2>7. ASSUME NEW t \in Takeovers, t # e.id PROVE AnnouncedInv(t)'
    <3>1. <<t, 0>> \notin Held(m)
      BY <2>6, <2>7, Tokens
    <3> HIDE DEF m
    <3>2. ~Has(<<m>>, <<t, 0>>) /\ Lone(<<m>>, <<t, 0>>)
      BY <3>1, OneHas
    <3>3. (Has(up'[1], <<t, 0>>) => Has(up[1], <<t, 0>>)) /\ (Lone(up[1], <<t, 0>>) => Lone(up'[1], <<t, 0>>))
      <4>1. Has(up[1] \o <<m>>, <<t, 0>>) => Has(up[1], <<t, 0>>)
        BY <2>5, <3>2, HasConcat
      <4>2. Lone(up[1], <<t, 0>>) => Lone(up[1] \o <<m>>, <<t, 0>>)
        BY <2>5, <3>2, LoneConcat
      <4> QED BY <2>5, <4>1, <4>2
    <3> QED BY <1>1, <1>2, <1>3, <1>4, <3>3, AnnouncedStays
  <2>8. ASSUME NEW t \in Takeovers, t = e.id PROVE AnnouncedInv(t)'
    <3>1. <<t, 0>> \in Held(e)
      BY <2>1, <2>8 DEF Held
    <3>2. PICK p : StopAt(<<t, 0>>, p)
      BY <1>1 DEF AnnouncedInv
    <3>3. Has(queue, <<t, 0>>) /\ ~Has(queue', <<t, 0>>)
      BY <1>1, <2>1, <3>1, <3>2, TailHas DEF StopAt
    <3>4. ~Has(down, <<t, 0>>) /\ ~Has(up[1], <<t, 0>>)
      BY <3>2, <3>3 DEF StopAt
    <3>5. Lone(up'[1], <<t, 0>>)
      <4> HIDE DEF m
      <4>1. Lone(up[1], <<t, 0>>) /\ Lone(<<m>>, <<t, 0>>)
        BY <3>2, OneHas DEF StopAt
      <4>2. Lone(up[1] \o <<m>>, <<t, 0>>)
        BY <2>5, <3>4, <4>1, LoneConcat
      <4> QED BY <2>5, <4>2
    <3>6. StopAt(<<t, 0>>, "up")'
      BY <1>2, <1>4, <3>2, <3>3, <3>4, <3>5 DEF StopAt
    <3>7. Announced(t)
      BY <3>3 DEF Announced
    <3> QED BY <1>1, <1>2, <3>6, <3>7 DEF AnnouncedInv
  <2> QED BY <1>3, <2>7, <2>8
<1> QED BY <1>5, <1>6 DEF Work

\* Every step keeps what is announced of takeovers.
LEMMA StepNorm == TypeInv /\ FirstLink /\ NormInv /\ [Next]_vars => NormInv'
<1> SUFFICES ASSUME TypeInv, FirstLink, NormInv, [Next]_vars, Undisturbed'
             PROVE  (\A t \in Takeovers : AnnouncedInv(t)') /\ ReplyOwn'
  BY DEF NormInv
<1>1. CASE UNCHANGED <<down, queue, up, normWaiters, tid, recording, at, reply>> /\ Undisturbed
  <2>1. (\A t \in Takeovers : AnnouncedInv(t)) /\ ReplyOwn
    BY <1>1 DEF NormInv
  <2>2. \A t : AnnouncedInv(t)' <=> AnnouncedInv(t)
    BY <1>1 DEF AnnouncedInv, Announced, StopAt, Has, Lone
  <2> QED BY <1>1, <2>1, <2>2 DEF ReplyOwn
<1>2. CASE UNCHANGED vars
  BY <1>1, <1>2 DEF vars, hubVars, linkVars, workerVars, chatVars, Undisturbed
<1>3. CASE Next
  <2>1. Undisturbed /\ ~Link
    BY <1>3, Quiet
  <2>2. CASE Human
    BY <1>1, <2>1, <2>2 DEF Human, HubEvent, HumanActs, hubVars, workerVars, chatVars
  <2> QED BY <1>3, <2>1, <2>2, ChatNorm, ReceiveNorm, WorkNorm, HandleNorm DEF Next
<1> QED BY <1>2, <1>3

\* Nothing is announced at first.
LEMMA InitNorm == Init => NormInv
<1> SUFFICES ASSUME Init PROVE NormInv
  OBVIOUS
<1>1. down = <<>> /\ queue = <<>> /\ up[1] = <<>> /\ reply = NoReply
  BY Bounds DEF Init
<1>2. \A x : StopAt(x, "none")
  BY <1>1, NoneHas DEF StopAt
<1>3. \A t : ~Announced(t)
  BY <1>1, NoneHas DEF Announced
<1> QED BY <1>1, <1>2, <1>3 DEF NormInv, AnnouncedInv, ReplyOwn

\* The chat that stopped a takeover is shown the steps of that takeover, though
\* the hub falls back to any waiter when the id has none.
THEOREM NormalizeIsOwn == Spec => []NormalizeAnswersItsStop
<1>1. Init => TypeInv /\ FirstLink /\ NormInv
  BY InitTypes, InitCommands, InitNorm
<1>2. TypeInv /\ FirstLink /\ NormInv /\ [Next]_vars => (TypeInv /\ FirstLink /\ NormInv)'
  BY StepTypes, StepFirstLink, StepNorm
<1>3. NormInv => NormalizeAnswersItsStop
  BY DEF NormInv, ReplyOwn, NormalizeAnswersItsStop
<1> QED BY <1>1, <1>2, <1>3, PTL DEF Spec

(* ------------------------ the steps of the human ------------------------- *)

\* The elements of sequences.
LEMMA ElemsOps ==
  ASSUME NEW S, NEW q \in Seq(S), NEW r \in Seq(S)
  PROVE  /\ Elems(q \o r) = Elems(q) \cup Elems(r)
         /\ \A x \in S : Elems(Append(q, x)) = Elems(q) \cup {x}
         /\ q # <<>> => Elems(q) = {Head(q)} \cup Elems(Tail(q))
         /\ Elems(<<>>) = {}
<1>1. Len(q) \in Nat /\ Len(r) \in Nat /\ DOMAIN q = 1..Len(q) /\ DOMAIN r = 1..Len(r)
      /\ DOMAIN (q \o r) = 1..(Len(q) + Len(r))
  OBVIOUS
<1>2. Elems(q \o r) = Elems(q) \cup Elems(r)
  <2>1. ASSUME NEW x \in Elems(q \o r) PROVE x \in Elems(q) \cup Elems(r)
    <3>1. PICK i \in 1..(Len(q) + Len(r)) : x = (q \o r)[i]
      BY <1>1 DEF Elems
    <3>2. CASE i \in 1..Len(q)
      BY <1>1, <3>1, <3>2, Places DEF Elems
    <3>3. CASE i - Len(q) \in 1..Len(r)
      <4>1. i = Len(q) + (i - Len(q))
        BY <1>1
      <4>2. (q \o r)[i] = r[i - Len(q)]
        BY <3>3, <4>1, Places
      <4> QED BY <1>1, <3>1, <3>3, <4>2 DEF Elems
    <3> QED BY <3>2, <3>3, Places
  <2>2. ASSUME NEW x \in Elems(q) PROVE x \in Elems(q \o r)
    <3>1. PICK i \in 1..Len(q) : x = q[i]
      BY <1>1 DEF Elems
    <3>2. i \in 1..(Len(q) + Len(r)) /\ (q \o r)[i] = x
      BY <1>1, <3>1, Places
    <3> QED BY <1>1, <3>2 DEF Elems
  <2>3. ASSUME NEW x \in Elems(r) PROVE x \in Elems(q \o r)
    <3>1. PICK i \in 1..Len(r) : x = r[i]
      BY <1>1 DEF Elems
    <3>2. Len(q) + i \in 1..(Len(q) + Len(r)) /\ (q \o r)[Len(q) + i] = x
      BY <1>1, <3>1, Places
    <3> QED BY <1>1, <3>2 DEF Elems
  <2> QED BY <2>1, <2>2, <2>3
<1>3. ASSUME NEW x \in S PROVE Elems(Append(q, x)) = Elems(q) \cup {x}
  <2>1. DOMAIN Append(q, x) = 1..(Len(q) + 1) /\ Append(q, x)[Len(q) + 1] = x
        /\ \A i \in 1..Len(q) : Append(q, x)[i] = q[i]
    OBVIOUS
  <2>2. \A i : i \in 1..(Len(q) + 1) <=> (i \in 1..Len(q) \/ i = Len(q) + 1)
    BY <1>1
  <2> QED BY <1>1, <2>1, <2>2 DEF Elems
<1>4. ASSUME q # <<>> PROVE Elems(q) = {Head(q)} \cup Elems(Tail(q))
  <2>1. Len(q) \in Nat \ {0} /\ Head(q) = q[1] /\ DOMAIN Tail(q) = 1..(Len(q) - 1)
        /\ \A i \in 1..(Len(q) - 1) : Tail(q)[i] = q[i + 1]
    BY <1>4, TailPlaces
  <2>2. \A i \in 1..Len(q) : i = 1 \/ (i - 1 \in 1..(Len(q) - 1) /\ (i - 1) + 1 = i)
    BY <2>1
  <2>3. \A i \in 1..(Len(q) - 1) : i + 1 \in 1..Len(q)
    BY <2>1
  <2>4. ASSUME NEW x \in Elems(q) PROVE x \in {Head(q)} \cup Elems(Tail(q))
    <3>1. PICK i \in 1..Len(q) : x = q[i]
      BY <1>1 DEF Elems
    <3>2. CASE i = 1
      BY <2>1, <3>1, <3>2
    <3>3. CASE i # 1
      <4>1. Tail(q)[i - 1] = x
        BY <2>1, <2>2, <3>1, <3>3
      <4> QED BY <2>1, <2>2, <3>3, <4>1 DEF Elems
    <3> QED BY <3>2, <3>3
  <2>5. Head(q) \in Elems(q)
    BY <1>1, <2>1 DEF Elems
  <2>6. Elems(Tail(q)) \subseteq Elems(q)
    BY <1>1, <2>1, <2>3 DEF Elems
  <2> QED BY <2>4, <2>5, <2>6
<1>5. Elems(<<>>) = {}
  <2>1. \A i \in DOMAIN <<>> : FALSE
    OBVIOUS
  <2> QED BY <2>1 DEF Elems
<1> QED BY <1>2, <1>3, <1>4, <1>5

\* Two sequences without repetition and without a common element.
LEMMA DistinctConcat ==
  ASSUME NEW S, NEW q \in Seq(S), NEW r \in Seq(S), Distinct(q), Distinct(r),
         Elems(q) \cap Elems(r) = {}
  PROVE  Distinct(q \o r)
<1>1. Len(q) \in Nat /\ Len(r) \in Nat /\ DOMAIN q = 1..Len(q) /\ DOMAIN r = 1..Len(r)
      /\ DOMAIN (q \o r) = 1..(Len(q) + Len(r))
  OBVIOUS
<1> DEFINE Left(k)  == k \in 1..Len(q) /\ (q \o r)[k] = q[k]
           Right(k) == k - Len(q) \in 1..Len(r) /\ (q \o r)[k] = r[k - Len(q)]
<1>2. ASSUME NEW k \in 1..(Len(q) + Len(r)) PROVE Left(k) \/ Right(k)
  <2>1. CASE k \in 1..Len(q)
    BY <2>1, Places
  <2>2. CASE k - Len(q) \in 1..Len(r)
    <3>1. k = Len(q) + (k - Len(q))
      BY <1>1
    <3>2. (q \o r)[k] = r[k - Len(q)]
      BY <2>2, <3>1, Places
    <3> QED BY <2>2, <3>2
  <2> QED BY <2>1, <2>2, Places
<1> SUFFICES ASSUME NEW i \in 1..(Len(q) + Len(r)), NEW j \in 1..(Len(q) + Len(r)),
                    (q \o r)[i] = (q \o r)[j]
             PROVE  i = j
  BY <1>1 DEF Distinct
<1>3. \A k : Left(k) => (q \o r)[k] \in Elems(q)
  BY <1>1 DEF Elems
<1>4. \A k : Right(k) => (q \o r)[k] \in Elems(r)
  BY <1>1 DEF Elems
<1>5. CASE Left(i) /\ Left(j)
  BY <1>1, <1>5 DEF Distinct
<1>6. CASE Right(i) /\ Right(j)
  <2>1. i - Len(q) = j - Len(q)
    BY <1>1, <1>6 DEF Distinct
  <2> QED BY <1>1, <2>1
<1> HIDE DEF Left, Right
<1> QED BY <1>2, <1>3, <1>4, <1>5, <1>6

\* Short sequences.
LEMMA DistinctOps ==
  /\ Distinct(<<>>) /\ \A x : Distinct(<<x>>) /\ Elems(<<x>>) = {x}
  /\ \A x, y : x # y => Distinct(<<x, y>>)
<1>1. \A i \in DOMAIN <<>> : FALSE
  OBVIOUS
<1>2. \A x : DOMAIN <<x>> = {1} /\ <<x>>[1] = x
  OBVIOUS
<1>3. \A x, y : DOMAIN <<x, y>> = {1, 2} /\ <<x, y>>[1] = x /\ <<x, y>>[2] = y
  OBVIOUS
<1>4. Distinct(<<>>)
  BY <1>1 DEF Distinct
<1>5. \A x : Distinct(<<x>>) /\ Elems(<<x>>) = {x}
  BY <1>2 DEF Distinct, Elems
<1>6. \A x, y : x # y => Distinct(<<x, y>>)
  BY <1>3 DEF Distinct
<1> QED BY <1>4, <1>5, <1>6

\* Appending a new element.
LEMMA DistinctAppend ==
  ASSUME NEW S, NEW q \in Seq(S), NEW x \in S, Distinct(q), x \notin Elems(q)
  PROVE  Distinct(Append(q, x))
<1>1. Append(q, x) = q \o <<x>> /\ <<x>> \in Seq(S)
  BY AppendIs
<1>2. Distinct(<<x>>) /\ Elems(q) \cap Elems(<<x>>) = {}
  BY DistinctOps
<1>3. Distinct(q \o <<x>>)
  BY <1>1, <1>2, DistinctConcat
<1> QED BY <1>1, <1>3

\* Taking the first element off.
LEMMA DistinctTail ==
  ASSUME NEW S, NEW q \in Seq(S), q # <<>>, Distinct(q)
  PROVE  Distinct(Tail(q)) /\ Head(q) \notin Elems(Tail(q))
<1>1. Len(q) \in Nat \ {0} /\ DOMAIN q = 1..Len(q) /\ Head(q) = q[1] /\ 1 \in DOMAIN q
  BY TailPlaces
<1>2. \A j \in DOMAIN Tail(q) : /\ j + 1 \in DOMAIN q /\ Tail(q)[j] = q[j + 1] /\ j \in Nat
                                /\ j > 0 /\ j + 1 # 1
  BY TailPlaces
<1>3. ASSUME NEW i \in DOMAIN Tail(q), NEW j \in DOMAIN Tail(q), Tail(q)[i] = Tail(q)[j] PROVE i = j
  <2>1. i + 1 = j + 1
    BY <1>2, <1>3 DEF Distinct
  <2> QED BY <1>2, <2>1
<1>4. \A j \in DOMAIN Tail(q) : Head(q) # Tail(q)[j]
  BY <1>1, <1>2 DEF Distinct
<1> QED BY <1>3, <1>4 DEF Distinct, Elems

\* Keeping some of the elements.
LEMMA KeptDistinct ==
  ASSUME NEW S, NEW q \in Seq(S), NEW I, Distinct(q)
  PROVE  /\ Distinct(Kept(q, I)) /\ Elems(Kept(q, I)) \subseteq Elems(q)
         /\ \A x \in Elems(Kept(q, I)) : \E i \in I \cap DOMAIN q : x = q[i]
<1>1. PICK g \in [1..Len(Kept(q, I)) -> I \cap DOMAIN q] :
         /\ \A a, b \in 1..Len(Kept(q, I)) : a < b => g[a] < g[b]
         /\ \A a \in 1..Len(Kept(q, I)) : Kept(q, I)[a] = q[g[a]]
  BY KeptPlaces
<1>2. Kept(q, I) \in Seq(S) /\ DOMAIN Kept(q, I) = 1..Len(Kept(q, I)) /\ Len(Kept(q, I)) \in Nat
      /\ DOMAIN q \subseteq Nat
  BY KeptPlaces, SeqOps
<1> DEFINE k == Kept(q, I)
           n == Len(k)
<1>3. \A a \in 1..n : g[a] \in I \cap DOMAIN q /\ k[a] = q[g[a]] /\ g[a] \in Nat
  BY <1>1, <1>2
<1>4. \A a, b \in 1..n : g[a] = g[b] => a = b
  <2> SUFFICES ASSUME NEW a \in 1..n, NEW b \in 1..n, g[a] = g[b], a # b PROVE FALSE
    OBVIOUS
  <2>1. a < b \/ b < a
    BY <1>2
  <2>2. g[a] < g[b] \/ g[b] < g[a]
    BY <1>1, <2>1
  <2> QED BY <1>3, <2>2
<1>5. DOMAIN k = 1..n
  BY <1>2
<1> HIDE DEF k, n
<1>6. Distinct(k)
  BY <1>3, <1>4, <1>5 DEF Distinct
<1>7. \A x \in Elems(k) : \E i \in I \cap DOMAIN q : x = q[i]
  BY <1>3, <1>5 DEF Elems
<1>8. Elems(k) \subseteq Elems(q)
  BY <1>7 DEF Elems
<1> QED BY <1>6, <1>7, <1>8 DEF k

\* A normalized takeover has every step of it once at most.
LEMMA SplitDistinct ==
  ASSUME NEW q \in Events, Distinct(q)
  PROVE  LET s == Kept(q, {i \in DOMAIN q : Stable(q[i])})
             n == Kept(q, {i \in DOMAIN q : Unstable(q[i])})
         IN  Distinct(s \o n) /\ Elems(s \o n) \subseteq Elems(q)
<1> DEFINE I == {i \in DOMAIN q : Stable(q[i])}
           J == {i \in DOMAIN q : Unstable(q[i])}
           s == Kept(q, I)
           n == Kept(q, J)
<1>1. q \in Seq(Steps)
  BY DEF Events
<1>2. I \cap J = {}
  BY DEF Stable, Unstable
<1> HIDE DEF I, J
<1>3. s \in Seq(Steps) /\ n \in Seq(Steps)
  BY <1>1, KeptPlaces
<1>4. Distinct(s) /\ Distinct(n) /\ Elems(s) \subseteq Elems(q) /\ Elems(n) \subseteq Elems(q)
      /\ (\A x \in Elems(s) : \E i \in I \cap DOMAIN q : x = q[i])
      /\ (\A x \in Elems(n) : \E i \in J \cap DOMAIN q : x = q[i])
  BY <1>1, KeptDistinct
<1> HIDE DEF s, n
<1>5. Elems(s) \cap Elems(n) = {}
  BY <1>2, <1>4 DEF Distinct
<1>6. Distinct(s \o n) /\ Elems(s \o n) \subseteq Elems(q)
  BY <1>3, <1>4, <1>5, DistinctConcat, ElemsOps
<1> QED BY <1>6 DEF s, n, I, J

\* Counting what is exported.
LEMMA CountedOnce ==
  ASSUME HubTypes, NEW s \in Events, Distinct(s), NEW e \in Steps
  PROVE  Counted(s)[e] = IF e \in Elems(s) THEN exported[e] + 1 ELSE exported[e]
<1> DEFINE C == {i \in DOMAIN s : s[i] = e}
<1>1. Counted(s)[e] = exported[e] + Cardinality(C) /\ exported[e] \in Nat
  BY DEF Counted, HubTypes
<1>2. CASE e \in Elems(s)
  <2>1. PICK i \in DOMAIN s : s[i] = e
    BY <1>2 DEF Elems
  <2>2. C = {i}
    BY <2>1 DEF Distinct
  <2> HIDE DEF C
  <2> QED BY <1>1, <1>2, <2>2, FS_Singleton
<1>3. CASE e \notin Elems(s)
  <2>1. C = {}
    BY <1>3 DEF Elems
  <2> HIDE DEF C
  <2> QED BY <1>1, <1>3, <2>1, FS_EmptySet
<1> QED BY <1>2, <1>3

PendingSteps == IF pending = NoPending THEN <<>> ELSE pending.steps \o pending.needs

Stages == {<<p, 0>> : p \in {"none", "flight", "buffer", "down", "queue", "pending", "exported"}}
     \cup {<<"up", c>> : c \in Conns}
StepAt(e, s) ==
  /\ e \in Elems(flight) => s = <<"flight", 0>>
  /\ e \in Elems(buffer) => s = <<"buffer", 0>>
  /\ Has(down, e) => s = <<"down", 0>>
  /\ Has(queue, e) => s = <<"queue", 0>>
  /\ \A c \in Conns : Has(up[c], e) => s = <<"up", c>>
  /\ e \in Elems(PendingSteps) => s = <<"pending", 0>>
  /\ exported[e] # 0 => s = <<"exported", 0>>
  /\ s # <<"none", 0>> => e \in acted

LoadsInv ==
  /\ Distinct(flight) /\ Distinct(buffer) /\ Distinct(PendingSteps)
  /\ AllProper(down) /\ AllProper(queue) /\ AllProper(timeline) /\ \A c \in Conns : AllProper(up[c])
  /\ Elems(flight) \subseteq HumanSteps
StepOne(e) ==
  /\ \E s \in Stages : StepAt(e, s)
  /\ exported[e] <= 1
  /\ Lone(down, e) /\ Lone(queue, e) /\ \A c \in Conns : Lone(up[c], e)
  /\ ~Has(timeline, e)
HumanInv == LoadsInv /\ \A e \in HumanSteps : StepOne(e)

\* Sequences of messages that repeat no step.
LEMMA ProperOps ==
  ASSUME NEW S, NEW q \in Seq(S), NEW r \in Seq(S), AllProper(q)
  PROVE  /\ AllProper(r) => AllProper(q \o r)
         /\ q # <<>> => Proper(Head(q)) /\ AllProper(Tail(q))
         /\ \A I : AllProper(Kept(q, I))
         /\ \A m \in Nat \ {0} : \A n \in 0..Len(q) : AllProper(SubSeq(q, m, n))
<1>0. \A T, x : x \in Seq(T) => (AllProper(x) <=> x \in Seq({m \in T : Proper(m)}))
  <2> SUFFICES ASSUME NEW T, NEW x \in Seq(T)
               PROVE  AllProper(x) <=> x \in Seq({m \in T : Proper(m)})
    OBVIOUS
  <2> QED BY DEF AllProper
<1>1. q \in Seq({m \in S : Proper(m)})
  BY <1>0
<1> DEFINE P == {m \in S : Proper(m)}
<1>2. Seq(P) \subseteq Seq(S)
  OBVIOUS
<1>3. ASSUME AllProper(r) PROVE AllProper(q \o r)
  <2>1. r \in Seq(P)
    BY <1>0, <1>3
  <2> HIDE DEF P
  <2>2. q \o r \in Seq(P)
    BY <1>1, <2>1 DEF P
  <2> QED BY <1>0, <1>2, <2>2 DEF P
<1>4. ASSUME q # <<>> PROVE Proper(Head(q)) /\ AllProper(Tail(q))
  <2>1. Head(q) = q[1] /\ 1 \in DOMAIN q /\ \A i \in DOMAIN Tail(q) : i + 1 \in DOMAIN q /\ Tail(q)[i] = q[i + 1]
    BY <1>4, TailPlaces
  <2> QED BY <2>1 DEF AllProper
<1>5. ASSUME NEW I PROVE AllProper(Kept(q, I))
  <2>1. Kept(q, I) \in Seq(P)
    <3> HIDE DEF P
    <3> QED BY <1>1, KeptPlaces DEF P
  <2>2. Kept(q, I) \in Seq(S)
    BY KeptPlaces
  <2> QED BY <1>0, <2>1, <2>2
<1>6. ASSUME NEW m \in Nat \ {0}, NEW n \in 0..Len(q) PROVE AllProper(SubSeq(q, m, n))
  <2>1. SubSeq(q, m, n) \in Seq(P) /\ SubSeq(q, m, n) \in Seq(S)
    <3> HIDE DEF P
    <3> QED BY <1>1, SubSeqIn DEF P
  <2> QED BY <1>0, <2>1
<1> QED BY <1>3, <1>4, <1>5, <1>6

\* One such message.
LEMMA OneProper == \A m : AllProper(<<m>>) <=> Proper(m)
<1>1. \A m : DOMAIN <<m>> = {1} /\ <<m>>[1] = m
  OBVIOUS
<1> QED BY <1>1 DEF AllProper

\* Which messages repeat no step.
LEMMA ProperFacts ==
  /\ AllProper(<<>>)
  /\ Proper(Resume) /\ Proper(Cancel) /\ Proper(PairingResult)
  /\ \A id, s : Proper(Request(id, s))
  /\ \A t : Proper(Start(t))
  /\ \A id, ok : Proper(Result(id, ok))
  /\ \A t, s : Proper(Stop(t, s)) <=> Distinct(s)
  /\ \A t, s, n : Proper(Normalized(t, s, n)) <=> Distinct(s \o n)
<1>1. AllProper(<<>>)
  <2>1. \A i \in DOMAIN <<>> : FALSE
    OBVIOUS
  <2> QED BY <2>1 DEF AllProper
<1> QED BY <1>1 DEF Proper, Resume, Cancel, PairingResult, Request, Start, Result, Stop, Normalized

\* The beginning of a sequence without repetition has none.
LEMMA DistinctPrefix ==
  ASSUME NEW S, NEW q \in Seq(S), NEW r \in Seq(S), Distinct(q \o r) PROVE Distinct(q)
<1>1. Len(q) \in Nat /\ Len(r) \in Nat /\ DOMAIN q = 1..Len(q)
  OBVIOUS
<1>2. \A i \in DOMAIN q : i \in DOMAIN (q \o r) /\ (q \o r)[i] = q[i]
  BY <1>1, Places
<1> QED BY <1>2 DEF Distinct

\* A step of the human that nothing moves or counts stays where it is.
LEMMA StepStays ==
  ASSUME NEW e \in HumanSteps, StepOne(e),
         e \in Elems(flight') => e \in Elems(flight), e \in Elems(buffer') => e \in Elems(buffer),
         Has(down', e) => Has(down, e), Lone(down, e) => Lone(down', e),
         Has(queue', e) => Has(queue, e), Lone(queue, e) => Lone(queue', e),
         \A c \in Conns : Has(up'[c], e) => Has(up[c], e),
         \A c \in Conns : Lone(up[c], e) => Lone(up'[c], e),
         e \in Elems(PendingSteps') => e \in Elems(PendingSteps),
         exported'[e] = exported[e], acted \subseteq acted', ~Has(timeline', e)
  PROVE  StepOne(e)'
<1>1. \A s : StepAt(e, s) => StepAt(e, s)'
  BY DEF StepAt
<1>2. Stages' = Stages
  BY DEF Stages
<1> QED BY <1>1, <1>2 DEF StepOne

\* Posting and logging what holds nothing.
LEMMA PostHuman ==
  ASSUME TypeInv, LoadsInv, NEW envs \in Seq(Sent), AllProper(envs), UNCHANGED down \/ Post(envs)
  PROVE  /\ AllProper(down')
         /\ \A x : ~Has(envs, x) => (Has(down', x) => Has(down, x)) /\ (Lone(down, x) => Lone(down', x))
<1>1. down \in Seq(Sent) /\ (down' = down \/ down' = down \o envs)
  BY DEF Post, Posted, TypeInv, DownTypes
<1>2. AllProper(down')
  BY <1>1, ProperOps DEF LoadsInv
<1>3. ASSUME NEW x, ~Has(envs, x) PROVE (Has(down', x) => Has(down, x)) /\ (Lone(down, x) => Lone(down', x))
  <2>1. Lone(envs, x)
    BY <1>3 DEF Lone, Has
  <2>2. CASE down' = down
    BY <2>2
  <2>3. CASE down' = down \o envs
    <3>1. Has(down \o envs, x) => Has(down, x)
      BY <1>1, <1>3, HasConcat
    <3>2. Lone(down, x) => Lone(down \o envs, x)
      BY <1>1, <1>3, <2>1, LoneConcat
    <3> QED BY <2>3, <3>1, <3>2
  <2> QED BY <1>1, <2>2, <2>3
<1> QED BY <1>2, <1>3

\* Logging what holds nothing.
LEMMA LogHuman ==
  ASSUME TypeInv, LoadsInv, NEW envs \in Seq(Sent), AllProper(envs), UNCHANGED timeline \/ Log(envs)
  PROVE  /\ AllProper(timeline')
         /\ \A x : ~Has(envs, x) /\ ~Has(timeline, x) => ~Has(timeline', x)
<1>1. timeline \in Seq(Sent) /\ (timeline' = timeline \/ timeline' = timeline \o envs)
  BY DEF Log, TypeInv, LogTypes
<1>2. AllProper(timeline')
  BY <1>1, ProperOps DEF LoadsInv
<1>3. \A x : Has(timeline \o envs, x) <=> Has(timeline, x) \/ Has(envs, x)
  BY <1>1, HasConcat
<1> QED BY <1>1, <1>2, <1>3

\* The steps of the human are steps, none is the mark of a takeover.
LEMMA HumanTokens == \A e \in HumanSteps : e \in Steps /\ \A t : e # <<t, 0>>
  BY Tokens

\* The empty sequence.
LEMMA NoElems == Elems(<<>>) = {}
<1>1. \A i \in DOMAIN <<>> : FALSE
  OBVIOUS
<1> QED BY <1>1 DEF Elems

NoHuman(envs) == \A e \in HumanSteps : ~Has(envs, e)

\* Posting and logging messages that hold no step of the human, and forgetting
\* what the hub kept, moves no step.
LEMMA QuietHuman ==
  ASSUME TypeInv, HumanInv, UNCHANGED <<flight, queue, up, acted>>,
         buffer' = buffer \/ buffer' = <<>>, pending' = pending \/ pending' = NoPending,
         NEW envs \in Seq(Sent), AllProper(envs), NoHuman(envs),
         UNCHANGED down \/ Post(envs), UNCHANGED timeline \/ Log(envs),
         \A e \in HumanSteps : exported'[e] = exported[e]
  PROVE  HumanInv'
<1>1. LoadsInv /\ \A e \in HumanSteps : StepOne(e)
  BY DEF HumanInv
<1>2. AllProper(down') /\ AllProper(timeline')
  BY <1>1, PostHuman, LogHuman
<1>3. Distinct(buffer') /\ Elems(buffer') \subseteq Elems(buffer)
  <2>1. Elems(<<>>) = {}
    BY NoElems
  <2> QED BY <1>1, <2>1, DistinctOps DEF LoadsInv
<1>4. Distinct(PendingSteps') /\ Elems(PendingSteps') \subseteq Elems(PendingSteps)
  <2>1. Elems(<<>>) = {}
    BY NoElems
  <2>2. PendingSteps' = PendingSteps \/ PendingSteps' = <<>>
    BY DEF PendingSteps
  <2> QED BY <1>1, <2>1, <2>2, DistinctOps DEF LoadsInv
<1>5. LoadsInv'
  BY <1>1, <1>2, <1>3, <1>4 DEF LoadsInv, AllProper, Distinct, Elems
<1>6. ASSUME NEW e \in HumanSteps PROVE StepOne(e)'
  <2>1. ~Has(envs, e) /\ ~Has(timeline, e)
    BY <1>1 DEF NoHuman, StepOne
  <2>2. (Has(down', e) => Has(down, e)) /\ (Lone(down, e) => Lone(down', e))
    BY <1>1, <2>1, PostHuman
  <2>3. ~Has(timeline', e)
    BY <1>1, <2>1, LogHuman
  <2> QED BY <1>1, <1>3, <1>4, <2>2, <2>3, StepStays DEF Elems
<1> QED BY <1>5, <1>6 DEF HumanInv, HumanSteps

\* One message that holds no step of the human.
LEMMA Single == ASSUME NEW m \in Sent, Proper(m), Held(m) \cap HumanSteps = {}
                PROVE  <<m>> \in Seq(Sent) /\ AllProper(<<m>>) /\ NoHuman(<<m>>)
  BY SingleIn, OneProper, OneHas DEF NoHuman

\* Most keys move no step of the human.
LEMMA QuietChat ==
  ASSUME TypeInv, HumanInv,
         \/ Send \/ Answered \/ Timeout \/ Cancelled \/ NormalizeShown \/ NormalizeTimeout
         \/ ResumeAgent \/ CancelKey \/ StartTakeover
  PROVE  HumanInv'
<1>1. UNCHANGED <<flight, queue, up, acted>>
  BY DEF Send, Answered, Timeout, Cancelled, StartTakeover, NormalizeShown, NormalizeTimeout,
         ResumeAgent, CancelKey, workerVars
<1>2. (buffer' = buffer \/ buffer' = <<>>) /\ (pending' = pending \/ pending' = NoPending)
  BY DEF Send, Answered, Timeout, Cancelled, StartTakeover, NormalizeShown, NormalizeTimeout,
         ResumeAgent, CancelKey, hubVars, Unpause
<1>3. CASE Send
  <2> DEFINE r == nreq + 1
  <2>1. r \in Requests
    BY <1>3, Bounds DEF Send, TypeInv, ChatTypes, Requests
  <2>2. Request(r, Batch(r)) \in Sent /\ Batch(r) \in Events
    BY <2>1, Bounds, Batches, Makes
  <2>3. Distinct(Batch(r)) /\ Elems(Batch(r)) \cap HumanSteps = {}
    <3>1. Distinct(Batch(r))
      BY DistinctOps DEF Batch
    <3>2. \A e \in Elems(Batch(r)) : e[1] = r
      <4>1. DOMAIN Batch(r) = {1, 2}
        BY DEF Batch
      <4> QED BY <4>1 DEF Batch, Elems
    <3> QED BY <2>1, <3>1, <3>2, Bounds DEF HumanSteps
  <2>4. \A e \in HumanSteps : exported'[e] = exported[e]
    <3>1. exported' = exported \/ exported' = Counted(Batch(r))
      BY <1>3 DEF Send
    <3> QED BY <2>2, <2>3, <3>1, HumanTokens, CountedOnce DEF TypeInv
  <2>5. (UNCHANGED down \/ Post(<<Request(r, Batch(r))>>))
        /\ (UNCHANGED timeline \/ Log(<<Request(r, Batch(r))>>))
    BY <1>3 DEF Send
  <2>6. Proper(Request(r, Batch(r))) /\ Held(Request(r, Batch(r))) = {}
    BY ProperFacts, HeldFacts
  <2> HIDE DEF r
  <2>7. <<Request(r, Batch(r))>> \in Seq(Sent) /\ AllProper(<<Request(r, Batch(r))>>)
        /\ NoHuman(<<Request(r, Batch(r))>>)
    BY <2>2, <2>6, Single
  <2> QED BY <1>1, <1>2, <2>4, <2>5, <2>7, QuietHuman
<1>4. CASE ~Send
  <2>1. exported' = exported
    BY <1>4 DEF Answered, Timeout, Cancelled, StartTakeover, NormalizeShown, NormalizeTimeout,
         ResumeAgent, CancelKey, hubVars
  <2>2. \E envs \in Seq(Sent) :
          /\ AllProper(envs) /\ NoHuman(envs)
          /\ UNCHANGED down \/ Post(envs)
          /\ UNCHANGED timeline \/ Log(envs)
    <3>1. Resume \in Sent /\ Cancel \in Sent /\ Proper(Resume) /\ Proper(Cancel)
          /\ Held(Resume) = {} /\ Held(Cancel) = {}
      BY Makes, ProperFacts, HeldFacts
    <3>2. <<>> \in Seq(Sent) /\ AllProper(<<>>) /\ NoHuman(<<>>)
      BY ProperFacts, NoneHas DEF NoHuman
    <3>3. <<Resume>> \in Seq(Sent) /\ AllProper(<<Resume>>) /\ NoHuman(<<Resume>>)
      BY <3>1, Single
    <3>4. <<Cancel>> \in Seq(Sent) /\ AllProper(<<Cancel>>) /\ NoHuman(<<Cancel>>)
      BY <3>1, Single
    <3>5. CASE Answered \/ Timeout \/ NormalizeShown \/ NormalizeTimeout
      <4>1. UNCHANGED <<down, timeline>>
        BY <3>5 DEF Answered, Timeout, NormalizeShown, NormalizeTimeout, hubVars
      <4> QED BY <3>2, <4>1
    <3>6. CASE Cancelled
      BY <3>4, <3>6 DEF Cancelled
    <3>7. CASE ResumeAgent
      BY <3>3, <3>7 DEF ResumeAgent
    <3>8. CASE StartTakeover
      <4>1. Post(<<Start(NextTakeover)>>) /\ Log(<<Start(NextTakeover)>>) /\ NextTakeover \in Takeovers
        BY <3>8 DEF StartTakeover
      <4>2. Start(NextTakeover) \in Sent /\ Proper(Start(NextTakeover)) /\ Held(Start(NextTakeover)) = {}
        BY <4>1, Makes, ProperFacts, HeldFacts
      <4>3. <<Start(NextTakeover)>> \in Seq(Sent) /\ AllProper(<<Start(NextTakeover)>>)
            /\ NoHuman(<<Start(NextTakeover)>>)
        BY <4>2, Single
      <4> QED BY <4>1, <4>3
    <3>9. CASE CancelKey
      <4> DEFINE cancels == IF nreq = 0 THEN <<>> ELSE <<Cancel>>
                 resumes == IF takeover THEN <<Resume>> ELSE <<>>
      <4>1. cancels \in Seq(Sent) /\ AllProper(cancels) /\ NoHuman(cancels)
        BY <3>2, <3>4
      <4>2. resumes \in Seq(Sent) /\ AllProper(resumes) /\ NoHuman(resumes)
        BY <3>2, <3>3
      <4>3. Post(cancels \o resumes) /\ Log(cancels \o resumes)
        BY <3>9 DEF CancelKey
      <4> HIDE DEF cancels, resumes
      <4>4. cancels \o resumes \in Seq(Sent) /\ AllProper(cancels \o resumes)
        BY <4>1, <4>2, ProperOps
      <4>5. NoHuman(cancels \o resumes)
        BY <4>1, <4>2, HasConcat DEF NoHuman
      <4> QED BY <4>3, <4>4, <4>5
    <3> QED BY <1>4, <3>5, <3>6, <3>7, <3>8, <3>9
  <2> QED BY <1>1, <1>2, <2>1, <2>2, QuietHuman
<1> QED BY <1>3, <1>4

\* Answering the question exports the pending steps and forgets them.
LEMMA ConfirmHuman ==
  ASSUME TypeInv, HumanInv, NEW accept \in BOOLEAN, Confirm(accept) PROVE HumanInv'
<1> DEFINE merged == IF accept THEN pending.steps \o pending.needs ELSE pending.steps
<1>1. LoadsInv /\ (\A e \in HumanSteps : StepOne(e)) /\ HubTypes
  BY DEF HumanInv, TypeInv
<1>2. pending \in Results /\ PendingSteps = pending.steps \o pending.needs
  BY <1>1 DEF Confirm, HubTypes, PendingSteps
<1>3. pending.steps \in Seq(Steps) /\ pending.needs \in Seq(Steps)
  BY <1>2 DEF Results, Events
<1>4. Distinct(merged) /\ Elems(merged) \subseteq Elems(PendingSteps) /\ merged \in Events
  <2>1. Distinct(pending.steps \o pending.needs)
    BY <1>1, <1>2 DEF LoadsInv
  <2>2. Distinct(pending.steps)
    BY <1>3, <2>1, DistinctPrefix
  <2> QED BY <1>2, <1>3, <2>1, <2>2, ElemsOps, SeqOps DEF Events
<1>5. UNCHANGED <<flight, buffer, queue, up, down, acted>> /\ exported' = Counted(merged)
      /\ pending' = NoPending
  BY DEF Confirm, workerVars
<1> HIDE DEF merged
<1>6. PendingSteps' = <<>> /\ Elems(<<>>) = {}
  <2>1. Elems(<<>>) = {}
    BY NoElems
  <2> QED BY <1>5, <2>1 DEF PendingSteps
<1>7. AllProper(timeline') /\ \A e \in HumanSteps : ~Has(timeline', e)
  <2>1. CASE merged = <<>>
    BY <1>1, <2>1 DEF Confirm, LoadsInv, StepOne, merged
  <2>2. CASE merged # <<>>
    <3>1. Request(pending.id, merged) \in Sent
      BY <2>2, <1>2, <1>4, Makes, Bounds DEF IsWhole, Results
    <3>2. timeline' = Append(timeline, Request(pending.id, merged)) /\ timeline \in Seq(Sent)
      BY <2>2 DEF Confirm, TypeInv, LogTypes, merged
    <3>3. /\ timeline' = timeline \o <<Request(pending.id, merged)>>
          /\ <<Request(pending.id, merged)>> \in Seq(Sent)
      BY <3>1, <3>2, AppendIs
    <3>4. Proper(Request(pending.id, merged)) /\ Held(Request(pending.id, merged)) = {}
      BY ProperFacts, HeldFacts
    <3>5. AllProper(<<Request(pending.id, merged)>>) /\ NoHuman(<<Request(pending.id, merged)>>)
      BY <3>1, <3>4, Single
    <3>6. \A e \in HumanSteps : ~Has(timeline, e)
      BY <1>1 DEF StepOne
    <3> QED BY <1>1, <3>3, <3>5, <3>6, LogHuman DEF Log, NoHuman
  <2> QED BY <2>1, <2>2
<1>8. LoadsInv'
  BY <1>1, <1>5, <1>6, <1>7, DistinctOps DEF LoadsInv, AllProper, Distinct, Elems
<1>9. ASSUME NEW e \in HumanSteps PROVE StepOne(e)'
  <2>1. exported'[e] = IF e \in Elems(merged) THEN exported[e] + 1 ELSE exported[e]
    BY <1>1, <1>4, <1>5, HumanTokens, CountedOnce
  <2>2. CASE e \notin Elems(merged)
    BY <1>1, <1>5, <1>6, <1>7, <2>1, <2>2, StepStays DEF Elems
  <2>3. CASE e \in Elems(merged)
    <3>1. PICK s \in Stages : StepAt(e, s)
      BY <1>1 DEF StepOne
    <3>2. s = <<"pending", 0>>
      BY <1>4, <2>3, <3>1 DEF StepAt
    <3>3. exported[e] = 0
      BY <3>1, <3>2 DEF StepAt
    <3>4. e \in acted
      BY <3>1, <3>2 DEF StepAt
    <3>5. StepAt(e, <<"exported", 0>>)'
      <4>1. e \notin Elems(flight) /\ e \notin Elems(buffer) /\ ~Has(down, e) /\ ~Has(queue, e)
            /\ \A c \in Conns : ~Has(up[c], e)
        BY <3>1, <3>2 DEF StepAt
      <4> QED BY <1>5, <1>6, <3>4, <4>1 DEF StepAt, Elems, Has
    <3>6. <<"exported", 0>> \in Stages'
      BY DEF Stages
    <3>7. exported'[e] <= 1
      BY <2>1, <2>3, <3>3
    <3> QED BY <1>1, <1>5, <1>7, <3>5, <3>6, <3>7 DEF StepOne, Lone
  <2> QED BY <2>2, <2>3
<1> QED BY <1>8, <1>9 DEF HumanInv, HumanSteps

\* Stopping the takeover moves the buffered steps to the stop, or loses them.
LEMMA StopHuman == ASSUME TypeInv, HumanInv, StopTakeover PROVE HumanInv'
<1>1. LoadsInv /\ (\A e \in HumanSteps : StepOne(e)) /\ buffer \in Events /\ tid \in Takeovers
  BY DEF HumanInv, TypeInv, HubTypes, StopTakeover, RecordTypes
<1>2. UNCHANGED <<flight, queue, up, acted, pending, exported>> /\ buffer' = <<>>
      /\ Log(<<Stop(tid, <<>>)>>) /\ (UNCHANGED down \/ Post(<<Stop(tid, buffer)>>))
  BY DEF StopTakeover, workerVars
<1>3. Elems(<<>>) = {}
  BY NoElems
<1>4. <<Stop(tid, <<>>)>> \in Seq(Sent) /\ AllProper(<<Stop(tid, <<>>)>>) /\ NoHuman(<<Stop(tid, <<>>)>>)
  <2>1. Stop(tid, <<>>) \in Sent
    <3>1. <<>> \in Events
      BY DEF Events
    <3> QED BY <1>1, <3>1, Makes
  <2>2. Proper(Stop(tid, <<>>)) /\ Held(Stop(tid, <<>>)) = {<<tid, 0>>}
    BY <1>3, ProperFacts, HeldFacts, DistinctOps
  <2>3. Held(Stop(tid, <<>>)) \cap HumanSteps = {}
    BY <2>2, HumanTokens
  <2> QED BY <2>1, <2>2, <2>3, Single
<1>5. <<Stop(tid, buffer)>> \in Seq(Sent) /\ AllProper(<<Stop(tid, buffer)>>)
      /\ \A e \in HumanSteps : Has(<<Stop(tid, buffer)>>, e) <=> e \in Elems(buffer)
  <2>1. Stop(tid, buffer) \in Sent /\ Proper(Stop(tid, buffer))
        /\ Held(Stop(tid, buffer)) = {<<tid, 0>>} \cup Elems(buffer)
    BY <1>1, Makes, ProperFacts, HeldFacts DEF LoadsInv
  <2>2. \A e \in HumanSteps : e \in Held(Stop(tid, buffer)) <=> e \in Elems(buffer)
    BY <2>1, HumanTokens
  <2> QED BY <2>1, <2>2, SingleIn, OneProper, OneHas
<1>6. AllProper(timeline') /\ \A e \in HumanSteps : ~Has(timeline', e)
  <2>1. \A e \in HumanSteps : ~Has(timeline, e)
    BY <1>1 DEF StepOne
  <2> QED BY <1>1, <1>2, <1>4, <2>1, LogHuman DEF NoHuman
<1>7. AllProper(down')
  BY <1>1, <1>2, <1>5, PostHuman
<1>8. LoadsInv'
  <2>1. PendingSteps' = PendingSteps
    BY <1>2 DEF PendingSteps
  <2>2. Distinct(flight)' /\ Distinct(buffer)' /\ Distinct(PendingSteps)'
    BY <1>1, <1>2, <2>1, DistinctOps DEF LoadsInv, Distinct
  <2>3. AllProper(queue)' /\ (\A c \in Conns : AllProper(up[c]))' /\ (Elems(flight) \subseteq HumanSteps)'
    BY <1>1, <1>2 DEF LoadsInv, AllProper, Elems, HumanSteps
  <2>4. AllProper(down)' /\ AllProper(timeline)'
    BY <1>6, <1>7 DEF AllProper
  <2> QED BY <2>2, <2>3, <2>4 DEF LoadsInv
<1>9. ASSUME NEW e \in HumanSteps PROVE StepOne(e)'
  <2>1. CASE e \notin Elems(buffer)
    <3>1. (Has(down', e) => Has(down, e)) /\ (Lone(down, e) => Lone(down', e))
      BY <1>1, <1>2, <1>5, <2>1, PostHuman
    <3> QED BY <1>1, <1>2, <1>3, <1>6, <2>1, <3>1, StepStays DEF Elems, PendingSteps
  <2>2. CASE e \in Elems(buffer)
    <3>1. PICK s \in Stages : StepAt(e, s)
      BY <1>1 DEF StepOne
    <3>2. s = <<"buffer", 0>>
      BY <2>2, <3>1 DEF StepAt
    <3>3. /\ e \notin Elems(flight) /\ ~Has(down, e) /\ ~Has(queue, e)
          /\ \A c \in Conns : ~Has(up[c], e)
          /\ e \notin Elems(PendingSteps) /\ exported[e] = 0 /\ e \in acted
      BY <3>1, <3>2 DEF StepAt
    <3>4. Lone(down', e)
      <4>1. down \in Seq(Sent) /\ (down' = down \/ down' = down \o <<Stop(tid, buffer)>>)
        BY <1>2 DEF Post, Posted, TypeInv, DownTypes
      <4>2. Lone(down, e) /\ Lone(<<Stop(tid, buffer)>>, e)
        BY <1>1, OneHas DEF StepOne
      <4>3. Lone(down \o <<Stop(tid, buffer)>>, e)
        BY <1>5, <3>3, <4>1, <4>2, LoneConcat
      <4> QED BY <4>1, <4>2, <4>3
    <3>5. StepAt(e, <<"down", 0>>)'
      BY <1>2, <1>3, <3>3 DEF StepAt, Elems, Has, PendingSteps
    <3>6. <<"down", 0>> \in Stages'
      BY DEF Stages
    <3> QED BY <1>1, <1>2, <1>6, <3>3, <3>4, <3>5, <3>6 DEF StepOne, Lone
  <2> QED BY <2>1, <2>2
<1> QED BY <1>8, <1>9 DEF HumanInv, HumanSteps

\* The hub buffers what the extension tells it, or drops it.
LEMMA HubEventHuman == ASSUME TypeInv, HumanInv, HubEvent PROVE HumanInv'
<1> DEFINE x == Head(flight)
<1>1. LoadsInv /\ (\A e \in HumanSteps : StepOne(e)) /\ buffer \in Seq(Steps) /\ flight \in Seq(Steps)
      /\ flight # <<>> /\ x \in Steps
  BY SeqOps DEF HumanInv, TypeInv, HubTypes, SeenTypes, Events, HubEvent
<1>2. UNCHANGED <<down, queue, up, acted, pending, exported, timeline>> /\ flight' = Tail(flight)
      /\ (buffer' = buffer \/ buffer' = Append(buffer, x))
  BY DEF HubEvent, workerVars
<1>3. Elems(flight) = {x} \cup Elems(flight') /\ x \notin Elems(flight') /\ Distinct(flight')
  BY <1>1, <1>2, ElemsOps, DistinctTail DEF LoadsInv
<1>4. Elems(buffer') \subseteq Elems(buffer) \cup {x}
  <2>1. Elems(Append(buffer, x)) = Elems(buffer) \cup {x}
    BY <1>1, ElemsOps
  <2> QED BY <1>2, <2>1
<1>5. x \in HumanSteps
  BY <1>1, <1>3 DEF LoadsInv
<1>6. PICK s \in Stages : StepAt(x, s)
  BY <1>1, <1>5 DEF StepOne
<1>7. /\ x \notin Elems(buffer) /\ ~Has(down, x) /\ ~Has(queue, x)
      /\ \A c \in Conns : ~Has(up[c], x)
      /\ x \notin Elems(PendingSteps) /\ exported[x] = 0 /\ x \in acted
  BY <1>3, <1>6 DEF StepAt
<1>8. Distinct(buffer')
  BY <1>1, <1>2, <1>7, DistinctAppend DEF LoadsInv
<1>9. LoadsInv'
  <2>1. PendingSteps' = PendingSteps
    BY <1>2 DEF PendingSteps
  <2> HIDE DEF x
  <2>2. Distinct(flight)' /\ Distinct(buffer)' /\ Distinct(PendingSteps)'
    BY <1>1, <1>3, <1>8, <2>1 DEF LoadsInv, Distinct
  <2>3. AllProper(down)' /\ AllProper(timeline)' /\ AllProper(queue)' /\ (\A c \in Conns : AllProper(up[c]))'
    BY <1>1, <1>2 DEF LoadsInv, AllProper
  <2>4. (Elems(flight) \subseteq HumanSteps)'
    BY <1>1, <1>3 DEF LoadsInv, Elems, HumanSteps
  <2> QED BY <2>2, <2>3, <2>4 DEF LoadsInv
<1>10. ASSUME NEW e \in HumanSteps, e # x PROVE StepOne(e)'
  <2>1. (e \in Elems(flight') => e \in Elems(flight)) /\ (e \in Elems(buffer') => e \in Elems(buffer))
    BY <1>3, <1>4, <1>10
  <2>2. ~Has(timeline', e)
    BY <1>1, <1>2 DEF StepOne
  <2>3. PendingSteps' = PendingSteps
    BY <1>2 DEF PendingSteps
  <2> HIDE DEF x
  <2> QED BY <1>1, <1>2, <2>1, <2>2, <2>3, StepStays
<1>11. ASSUME NEW e \in HumanSteps, e = x PROVE StepOne(e)'
  <2>1. StepAt(e, <<"buffer", 0>>)'
    BY <1>2, <1>3, <1>7, <1>11 DEF StepAt, Has, PendingSteps, Elems
  <2>2. <<"buffer", 0>> \in Stages'
    BY DEF Stages
  <2>3. exported'[e] <= 1
    BY <1>2, <1>7, <1>11
  <2> QED BY <1>1, <1>2, <2>1, <2>2, <2>3 DEF StepOne, Lone, Has
<1> QED BY <1>9, <1>10, <1>11 DEF HumanInv, HumanSteps

\* What the human does is new and on its way to the hub.
LEMMA ActsHuman ==
  ASSUME TypeInv, HumanInv, NEW kinds \in {<< 1 >>, << 2 >>, <<1, 2>>}, HumanActs(kinds) PROVE HumanInv'
<1> DEFINE events == [i \in DOMAIN kinds |-> <<tid, kinds[i]>>]
<1>1. LoadsInv /\ (\A e \in HumanSteps : StepOne(e)) /\ flight \in Seq(Steps) /\ tid \in Takeovers
  BY DEF HumanInv, TypeInv, SeenTypes, Events, HumanActs, RecordTypes
<1>2. UNCHANGED <<down, queue, up, buffer, pending, exported, timeline>> /\ flight' = flight \o events
      /\ acted' = acted \cup Elems(events) /\ \A k \in {1, 2} : <<tid, k>> \notin acted
  <2>1. DOMAIN events = DOMAIN kinds
    OBVIOUS
  <2> QED BY <2>1 DEF HumanActs, hubVars, workerVars, Elems
<1>3. events \in Seq(Steps) /\ Distinct(events) /\ \A e \in Elems(events) : e \in {<<tid, 1>>, <<tid, 2>>}
  <2>1. <<tid, 1>> \in Steps /\ <<tid, 2>> \in Steps
    BY <1>1, Bounds DEF Steps
  <2>2. \/ DOMAIN kinds = {1} /\ kinds[1] \in {1, 2} /\ DOMAIN kinds = 1..1
        \/ DOMAIN kinds = {1, 2} /\ kinds[1] = 1 /\ kinds[2] = 2 /\ DOMAIN kinds = 1..2
    <3>1. kinds = <<1>> \/ kinds = <<2>> \/ kinds = <<1, 2>>
      OBVIOUS
    <3>2. DOMAIN <<1>> = {1} /\ DOMAIN <<2>> = {1} /\ DOMAIN <<1, 2>> = {1, 2} /\ 1..1 = {1} /\ 1..2 = {1, 2}
      OBVIOUS
    <3> QED BY <3>1, <3>2
  <2>3. \E n \in Nat : events \in [1..n -> Steps]
    BY <2>1, <2>2
  <2>4. events \in Seq(Steps)
    BY <2>3, FunSeq
  <2> QED BY <2>2, <2>4 DEF Distinct, Elems
<1>4. Elems(events) \subseteq HumanSteps /\ Elems(events) \cap acted = {}
  <2> HIDE DEF events
  <2>1. Elems(events) \subseteq HumanSteps
    BY <1>1, <1>3 DEF HumanSteps
  <2>2. <<tid, 1>> \notin acted /\ <<tid, 2>> \notin acted
    BY <1>2
  <2> QED BY <1>3, <2>1, <2>2
<1> HIDE DEF events
<1>5. ASSUME NEW e \in HumanSteps, e \in Elems(events)
      PROVE  /\ e \notin Elems(flight) /\ e \notin Elems(buffer) /\ ~Has(down, e) /\ ~Has(queue, e)
             /\ \A c \in Conns : ~Has(up[c], e)
             /\ e \notin Elems(PendingSteps) /\ exported[e] = 0
  <2>1. PICK s \in Stages : StepAt(e, s)
    BY <1>1 DEF StepOne
  <2>2. s = <<"none", 0>>
    BY <1>4, <1>5, <2>1 DEF StepAt
  <2> QED BY <2>1, <2>2 DEF StepAt
<1>6. Distinct(flight') /\ Elems(flight') = Elems(flight) \cup Elems(events)
  <2>1. Elems(flight) \cap Elems(events) = {}
    BY <1>4, <1>5
  <2> QED BY <1>1, <1>2, <1>3, <2>1, DistinctConcat, ElemsOps DEF LoadsInv
<1>7. LoadsInv'
  <2>1. PendingSteps' = PendingSteps
    BY <1>2 DEF PendingSteps
  <2>2. Distinct(flight)' /\ Distinct(buffer)' /\ Distinct(PendingSteps)'
    BY <1>1, <1>2, <1>6, <2>1 DEF LoadsInv, Distinct
  <2>3. AllProper(down)' /\ AllProper(timeline)' /\ AllProper(queue)' /\ (\A c \in Conns : AllProper(up[c]))'
    BY <1>1, <1>2 DEF LoadsInv, AllProper
  <2>4. (Elems(flight) \subseteq HumanSteps)'
    BY <1>1, <1>4, <1>6 DEF LoadsInv, Elems, HumanSteps
  <2> QED BY <2>2, <2>3, <2>4 DEF LoadsInv
<1>8. ASSUME NEW e \in HumanSteps, e \notin Elems(events) PROVE StepOne(e)'
  <2>1. ~Has(timeline', e)
    BY <1>1, <1>2 DEF StepOne
  <2> QED BY <1>1, <1>2, <1>6, <1>8, <2>1, StepStays DEF PendingSteps
<1>9. ASSUME NEW e \in HumanSteps, e \in Elems(events) PROVE StepOne(e)'
  <2>1. StepAt(e, <<"flight", 0>>)'
    BY <1>2, <1>5, <1>9 DEF StepAt, Has, PendingSteps, Elems
  <2>2. <<"flight", 0>> \in Stages'
    BY DEF Stages
  <2>3. exported'[e] <= 1
    BY <1>2, <1>5, <1>9
  <2> QED BY <1>1, <1>2, <2>1, <2>2, <2>3 DEF StepOne, Lone, Has
<1> QED BY <1>7, <1>8, <1>9 DEF HumanInv, HumanSteps

\* When messages move on or are lost and none is added, so does what they hold.
LEMMA FewerHuman ==
  ASSUME HumanInv, UNCHANGED <<flight, buffer, pending, exported, acted, timeline>>,
         AllProper(down'), AllProper(queue'), \A c \in Conns : AllProper(up'[c]),
         \A e \in HumanSteps : (Has(down', e) => Has(down, e)) /\ (Lone(down, e) => Lone(down', e)),
         \A e \in HumanSteps : (Has(queue', e) => Has(queue, e)) /\ (Lone(queue, e) => Lone(queue', e)),
         \A x : \A c \in Conns :
           (Has(up'[c], x) => Has(up[c], x)) /\ (Lone(up[c], x) => Lone(up'[c], x))
  PROVE  HumanInv'
<1>1. LoadsInv /\ \A e \in HumanSteps : StepOne(e)
  BY DEF HumanInv
<1>2. PendingSteps' = PendingSteps
  BY DEF PendingSteps
<1>3. Distinct(flight)' /\ Distinct(buffer)' /\ Distinct(PendingSteps)' /\ (Elems(flight) \subseteq HumanSteps)'
  BY <1>1, <1>2 DEF LoadsInv, Distinct, Elems, HumanSteps
<1>4. AllProper(down)' /\ AllProper(queue)' /\ AllProper(timeline)' /\ (\A c \in Conns : AllProper(up[c]))'
  BY <1>1 DEF LoadsInv, AllProper
<1>5. LoadsInv'
  BY <1>3, <1>4 DEF LoadsInv
<1>6. ASSUME NEW e \in HumanSteps PROVE StepOne(e)'
  <2>1. ~Has(timeline', e)
    BY <1>1 DEF StepOne
  <2> QED BY <1>1, <1>2, <2>1, StepStays
<1> QED BY <1>5, <1>6 DEF HumanInv, HumanSteps

\* Reading a message takes what it holds off the connection.
LEMMA HearsHuman ==
  ASSUME TypeInv, LoadsInv, NEW c \in Conns, NEW type, Hears(c, type)
  PROVE  /\ \A d \in Conns : AllProper(up'[d])
         /\ \A x : \A d \in Conns :
              (Has(up'[d], x) => Has(up[d], x)) /\ (Lone(up[d], x) => Lone(up'[d], x))
         /\ \A x : x \in Held(Head(up[c])) => Has(up[c], x)
         /\ \A x : Lone(up[c], x) => ~(x \in Held(Head(up[c])) /\ Has(up'[c], x))
         /\ Proper(Head(up[c]))
<1>1. up[c] \in Seq(ToHub) /\ up[c] # <<>> /\ up'[c] = Tail(up[c])
      /\ \A d \in Conns : d # c => up'[d] = up[d]
  BY DEF Hears, TypeInv, UpTypes
<1>2. AllProper(up[c]) /\ \A d \in Conns : AllProper(up[d])
  BY DEF LoadsInv
<1>3. Proper(Head(up[c])) /\ AllProper(Tail(up[c]))
  BY <1>1, <1>2, ProperOps
<1>4. \A x : (Has(up'[c], x) => Has(up[c], x)) /\ (Lone(up[c], x) => Lone(up'[c], x))
  BY <1>1, TailHas
<1>5. \A x : x \in Held(Head(up[c])) => Has(up[c], x)
  BY <1>1, TailHas
<1>6. \A x : Lone(up[c], x) => ~(x \in Held(Head(up[c])) /\ Has(up'[c], x))
  BY <1>1, TailHas
<1>7. \A d \in Conns : AllProper(up'[d])
  BY <1>1, <1>2, <1>3
<1>8. \A x : \A d \in Conns :
         (Has(up'[d], x) => Has(up[d], x)) /\ (Lone(up[d], x) => Lone(up'[d], x))
  BY <1>1, <1>4
<1> QED BY <1>3, <1>5, <1>6, <1>7, <1>8

\* A normalized takeover is exported at once, or pending until it is confirmed.
LEMMA HandleHuman == ASSUME TypeInv, HumanInv, NEW c \in Conns, Handle(c) PROVE HumanInv'
<1> DEFINE m == Head(up[c])
           s == m.steps
           n == m.needs
<1>1. LoadsInv /\ (\A e \in HumanSteps : StepOne(e)) /\ HubTypes
  BY DEF HumanInv, TypeInv
<1>2. UNCHANGED <<flight, buffer, acted, down, queue>>
  BY DEF Handle, HubResult, HubNormalized, workerVars
<1>3. AllProper(down') /\ AllProper(queue')
      /\ \A x : /\ (Has(down', x) => Has(down, x)) /\ (Lone(down, x) => Lone(down', x))
                /\ (Has(queue', x) => Has(queue, x)) /\ (Lone(queue, x) => Lone(queue', x))
  BY <1>1, <1>2 DEF LoadsInv
<1>4. CASE HubResult(c)
  <2>1. UNCHANGED <<pending, exported, timeline>>
    BY <1>4 DEF HubResult
  <2>2. Hears(c, "action_result")
    BY <1>4 DEF HubResult
  <2>3. (\A d \in Conns : AllProper(up'[d])) /\ \A x : \A d \in Conns :
          (Has(up'[d], x) => Has(up[d], x)) /\ (Lone(up[d], x) => Lone(up'[d], x))
    BY <1>1, <2>2, HearsHuman
  <2> QED BY <1>2, <1>3, <2>1, <2>3, FewerHuman
<1>5. CASE HubNormalized(c)
  <2>1. Hears(c, "normalize_result") /\ exported' = Counted(ExportNow(s, n))
        /\ pending' = (IF n = <<>> THEN NoPending ELSE [id |-> m.id, steps |-> s, needs |-> n])
        /\ timeline' = (IF s = <<>> THEN timeline ELSE Append(timeline, Request(m.id, s)))
    BY <1>5 DEF HubNormalized
  <2>2. m.id \in Takeovers /\ s \in Events /\ n \in Events /\ m.type = "normalize_result"
    BY <2>1, HearsTypes, Reads
  <2>3. /\ \A d \in Conns : AllProper(up'[d])
        /\ \A x : \A d \in Conns :
             (Has(up'[d], x) => Has(up[d], x)) /\ (Lone(up[d], x) => Lone(up'[d], x))
        /\ \A x : x \in Held(m) => Has(up[c], x)
        /\ \A x : Lone(up[c], x) => ~(x \in Held(m) /\ Has(up'[c], x))
        /\ Proper(m)
    BY <1>1, <2>1, HearsHuman
  <2>4. Distinct(s \o n) /\ Elems(s \o n) \subseteq Held(m)
    BY <2>2, <2>3 DEF Proper, Held
  <2> HIDE DEF m, s, n
  <2>5. s \in Seq(Steps) /\ n \in Seq(Steps) /\ s \o n \in Seq(Steps)
    BY <2>2, SeqOps DEF Events
  <2>6. Distinct(s) /\ Elems(s) \subseteq Elems(s \o n) /\ Elems(<<>>) = {}
    BY <2>4, <2>5, DistinctPrefix, ElemsOps, NoElems
  <2>7. PendingSteps' = <<>> \/ (n # <<>> /\ PendingSteps' = s \o n)
    <3>1. CASE n = <<>>
      BY <2>1, <3>1 DEF PendingSteps
    <3>2. CASE n # <<>>
      <4>1. pending' = [id |-> m.id, steps |-> s, needs |-> n]
        BY <2>1, <3>2
      <4>2. pending'.steps = s /\ pending'.needs = n
        BY <4>1
      <4> QED BY <3>2, <4>2 DEF PendingSteps
    <3> QED BY <3>1, <3>2
  <2>8. Distinct(PendingSteps') /\ Elems(PendingSteps') \subseteq Elems(s \o n)
    BY <2>4, <2>6, <2>7, DistinctOps
  <2>9. AllProper(timeline') /\ \A e \in HumanSteps : ~Has(timeline', e)
    <3>1. CASE s = <<>>
      BY <1>1, <2>1, <3>1 DEF LoadsInv, StepOne
    <3>2. CASE s # <<>>
      <4>1. Request(m.id, s) \in Sent
        BY <2>2, <3>2, Makes, Bounds DEF IsWhole
      <4>2. timeline' = Append(timeline, Request(m.id, s)) /\ timeline \in Seq(Sent)
        BY <2>1, <3>2 DEF TypeInv, LogTypes
      <4>3. timeline' = timeline \o <<Request(m.id, s)>> /\ <<Request(m.id, s)>> \in Seq(Sent)
        BY <4>1, <4>2, AppendIs
      <4>4. Proper(Request(m.id, s)) /\ Held(Request(m.id, s)) = {}
        BY ProperFacts, HeldFacts
      <4>5. AllProper(<<Request(m.id, s)>>) /\ NoHuman(<<Request(m.id, s)>>)
        BY <4>1, <4>4, Single
      <4>6. \A e \in HumanSteps : ~Has(timeline, e)
        BY <1>1 DEF StepOne
      <4> QED BY <1>1, <4>3, <4>5, <4>6, LogHuman DEF Log, NoHuman
    <3> QED BY <3>1, <3>2
  <2>10. LoadsInv'
    <3>1. Distinct(flight)' /\ Distinct(buffer)' /\ (Elems(flight) \subseteq HumanSteps)'
      BY <1>1, <1>2 DEF LoadsInv, Distinct, Elems, HumanSteps
    <3>2. Distinct(PendingSteps)'
      BY <2>8 DEF Distinct
    <3>3. AllProper(down)' /\ AllProper(queue)' /\ AllProper(timeline)' /\ (\A d \in Conns : AllProper(up[d]))'
      BY <1>3, <2>3, <2>9 DEF AllProper
    <3> QED BY <3>1, <3>2, <3>3 DEF LoadsInv
  <2>11. ExportNow(s, n) \in Events /\ Distinct(ExportNow(s, n))
         /\ Elems(ExportNow(s, n)) = IF n = <<>> THEN Elems(s) ELSE {}
    <3>1. <<>> \in Events /\ Distinct(<<>>)
      BY DistinctOps DEF Events
    <3>2. ExportNow(s, n) = IF n = <<>> THEN s ELSE <<>>
      BY DEF ExportNow
    <3> QED BY <2>2, <2>6, <3>1, <3>2
  <2>12. ASSUME NEW e \in HumanSteps
         PROVE  exported'[e] = IF n = <<>> /\ e \in Elems(s) THEN exported[e] + 1 ELSE exported[e]
    BY <1>1, <2>1, <2>11, HumanTokens, CountedOnce
  <2>13. ASSUME NEW e \in HumanSteps, e \notin Elems(s \o n) PROVE StepOne(e)'
    <3>1. exported'[e] = exported[e]
      BY <2>6, <2>12, <2>13
    <3> QED BY <1>1, <1>2, <1>3, <2>3, <2>8, <2>9, <2>13, <3>1, StepStays
  <2>14. ASSUME NEW e \in HumanSteps, e \in Elems(s \o n) PROVE StepOne(e)'
    <3>1. PICK p \in Stages : StepAt(e, p)
      BY <1>1 DEF StepOne
    <3>2. e \in Held(m) /\ Has(up[c], e) /\ Lone(up[c], e)
      BY <1>1, <2>3, <2>4, <2>14 DEF StepOne
    <3>3. p = <<"up", c>>
      BY <3>1, <3>2 DEF StepAt
    <3>4. /\ e \notin Elems(flight) /\ e \notin Elems(buffer) /\ ~Has(down, e) /\ ~Has(queue, e)
          /\ \A d \in Conns : d # c => ~Has(up[d], e)
          /\ exported[e] = 0 /\ e \in acted
      BY <3>1, <3>3 DEF StepAt
    <3>5. \A d \in Conns : ~Has(up'[d], e)
      <4>1. ~Has(up'[c], e)
        BY <2>3, <3>2
      <4> QED BY <2>3, <3>4, <4>1
    <3>6. exported'[e] <= 1 /\ (n # <<>> => exported'[e] = 0)
      BY <2>12, <3>4
    <3>7. /\ (e \notin Elems(flight))' /\ (e \notin Elems(buffer))' /\ (~Has(down, e))' /\ (~Has(queue, e))'
          /\ (\A d \in Conns : ~Has(up[d], e))' /\ (e \in acted)'
      BY <1>2, <3>4, <3>5 DEF Elems, Has
    <3>8. \E q \in Stages' : StepAt(e, q)'
      <4>1. CASE PendingSteps' = <<>>
        <5>1. (e \notin Elems(PendingSteps))'
          BY <2>6, <4>1 DEF Elems
        <5>2. StepAt(e, <<"exported", 0>>)'
          BY <3>7, <5>1 DEF StepAt
        <5> QED BY <5>2 DEF Stages
      <4>2. CASE n # <<>>
        <5>1. (exported[e] = 0)'
          BY <3>6, <4>2
        <5>2. StepAt(e, <<"pending", 0>>)'
          BY <3>7, <5>1 DEF StepAt
        <5> QED BY <5>2 DEF Stages
      <4> QED BY <2>7, <4>1, <4>2
    <3>9. Lone(down, e)' /\ Lone(queue, e)' /\ (\A d \in Conns : Lone(up[d], e))'
      <4>1. Lone(down, e) /\ Lone(queue, e) /\ \A d \in Conns : Lone(up[d], e)
        BY <1>1 DEF StepOne
      <4> QED BY <1>3, <2>3, <4>1 DEF Lone
    <3>10. (~Has(timeline, e))'
      BY <2>9 DEF Has
    <3> QED BY <3>6, <3>8, <3>9, <3>10 DEF StepOne
  <2> QED BY <2>10, <2>13, <2>14 DEF HumanInv, HumanSteps
<1> QED BY <1>4, <1>5 DEF Handle

\* The worker responds on the connection it uses, if any.
LEMMA RespondHuman ==
  ASSUME TypeInv, LoadsInv, NEW msgs \in Seq(ToHub), AllProper(msgs), Respond(msgs)
  PROVE  /\ \A c \in Conns : AllProper(up'[c])
         /\ \A x : ~Has(msgs, x) => \A c \in Conns :
              (Has(up'[c], x) => Has(up[c], x)) /\ (Lone(up[c], x) => Lone(up'[c], x))
         /\ cur = 0 => up' = up
         /\ cur # 0 => /\ cur \in Conns /\ up'[cur] = up[cur] \o msgs
                       /\ \A c \in Conns : c # cur => up'[c] = up[c]
<1>1. cur \in Conns \cup {0} /\ \A c \in Conns : up[c] \in Seq(ToHub) /\ AllProper(up[c])
  BY DEF TypeInv, LinkTypes, UpTypes, LoadsInv
<1>2. CASE cur = 0
  <2>1. up' = up
    BY <1>2 DEF Respond
  <2> QED BY <1>1, <1>2, <2>1
<1>3. CASE cur # 0
  <2>1. /\ cur \in Conns /\ up'[cur] = up[cur] \o msgs
        /\ \A c \in Conns : c # cur => up'[c] = up[c]
    BY <1>1, <1>3 DEF Respond, TypeInv, UpTypes
  <2>2. AllProper(up[cur] \o msgs)
    BY <1>1, <2>1, ProperOps
  <2>3. ASSUME NEW x, ~Has(msgs, x)
        PROVE  /\ Has(up[cur] \o msgs, x) => Has(up[cur], x)
               /\ Lone(up[cur], x) => Lone(up[cur] \o msgs, x)
    <3>1. Lone(msgs, x)
      BY <2>3 DEF Lone, Has
    <3> QED BY <1>1, <2>1, <2>3, <3>1, HasConcat, LoneConcat
  <2> QED BY <1>1, <1>3, <2>1, <2>2, <2>3
<1> QED BY <1>2, <1>3

\* A broken connection loses steps; the replay repeats none, because the stored
\* copy of a stop has no events.
LEMMA LinkHuman == TypeInv /\ HumanInv /\ Link => HumanInv'
<1> SUFFICES ASSUME TypeInv, HumanInv, Link PROVE HumanInv'
  OBVIOUS
<1>1. LoadsInv /\ (\A e \in HumanSteps : StepOne(e)) /\ down \in Seq(Sent) /\ timeline \in Seq(Sent)
      /\ snap \in [Conns -> 0..Len(timeline)]
  BY DEF HumanInv, TypeInv, DownTypes, LogTypes, SnapTypes
<1>2. UNCHANGED <<flight, buffer, pending, exported, acted, timeline, queue>>
  BY DEF Link, Drop, Pair, Dial, Accept, RegisterOutbound, Replay, HubEof, HubReset, NotLink,
         hubVars, workerVars
<1>3. AllProper(queue') /\ \A x : (Has(queue', x) => Has(queue, x)) /\ (Lone(queue, x) => Lone(queue', x))
  BY <1>1, <1>2 DEF LoadsInv
<1>4. (\A c \in Conns : AllProper(up'[c])) /\ \A x : \A c \in Conns :
         (Has(up'[c], x) => Has(up[c], x)) /\ (Lone(up[c], x) => Lone(up'[c], x))
  <2>1. CASE up' = up
    BY <1>1, <2>1 DEF LoadsInv
  <2>2. ASSUME NEW d \in Conns, HubReset(d)
        PROVE  (\A c \in Conns : AllProper(up'[c])) /\ \A x : \A c \in Conns :
                 (Has(up'[c], x) => Has(up[c], x)) /\ (Lone(up[c], x) => Lone(up'[c], x))
    <3>1. up'[d] = <<>> /\ \A c \in Conns : c # d => up'[c] = up[c]
      BY <2>2 DEF HubReset, TypeInv, UpTypes
    <3>2. AllProper(<<>>) /\ \A x : ~Has(<<>>, x) /\ Lone(<<>>, x)
      BY ProperFacts, NoneHas
    <3>3. \A c \in Conns : AllProper(up[c])
      BY <1>1 DEF LoadsInv
    <3> QED BY <3>1, <3>2, <3>3
  <2> QED BY <2>1, <2>2 DEF Link, Drop, Pair, Dial, Accept, RegisterOutbound, Replay, HubEof, NotLink
<1>5. AllProper(down') /\ \A e \in HumanSteps : (Has(down', e) => Has(down, e)) /\ (Lone(down, e) => Lone(down', e))
  <2>1. CASE down' = down
    BY <1>1, <2>1 DEF LoadsInv
  <2>2. CASE Drop
    <3>1. down' = <<>>
      BY <2>2 DEF Drop
    <3> QED BY <3>1, ProperFacts, NoneHas
  <2>3. CASE Pair
    <3>1. CASE down # <<>> /\ down' = Tail(down)
      <4>1. AllProper(Tail(down))
        BY <1>1, <3>1, ProperOps DEF LoadsInv
      <4> QED BY <1>1, <3>1, <4>1, TailHas
    <3>2. CASE \E k \in 1..Len(down) : down' = SubSeq(down, k + 1, Len(down))
      <4>1. PICK k \in 1..Len(down) : down' = SubSeq(down, k + 1, Len(down))
        BY <3>2
      <4>2. k + 1 \in Nat \ {0} /\ Len(down) \in 0..Len(down)
        BY <1>1
      <4>3. AllProper(SubSeq(down, k + 1, Len(down)))
        BY <1>1, <4>2, ProperOps DEF LoadsInv
      <4> QED BY <1>1, <4>1, <4>2, <4>3, SubSeqHas
    <3> QED BY <2>3, <3>1, <3>2 DEF Pair
  <2>4. ASSUME NEW c \in Conns, cur = c, Replay(c)
        PROVE  AllProper(down') /\ \A e \in HumanSteps : (Has(down', e) => Has(down, e)) /\ (Lone(down, e) => Lone(down', e))
    <3> DEFINE old == SubSeq(timeline, 1, snap[c])
               all == <<PairingResult>> \o old
    <3>1. snap[c] \in 0..Len(timeline) /\ 1 \in Nat \ {0}
      BY <1>1
    <3>2. old \in Seq(Sent) /\ AllProper(old) /\ \A x : Has(old, x) => Has(timeline, x)
      BY <1>1, <3>1, SubSeqIn, SubSeqHas, ProperOps DEF LoadsInv
    <3>3. <<PairingResult>> \in Seq(Sent) /\ AllProper(<<PairingResult>>) /\ \A x : ~Has(<<PairingResult>>, x)
      BY Makes, SingleIn, ProperFacts, OneProper, HeldFacts, OneHas
    <3>4. down' = down \o all
      <4>1. down' = (down \o <<PairingResult>>) \o old
        BY <2>4 DEF Replay
      <4> HIDE DEF old
      <4> QED BY <1>1, <3>2, <3>3, <4>1
    <3> HIDE DEF old
    <3>5. all \in Seq(Sent) /\ AllProper(all) /\ \A x : Has(all, x) => Has(timeline, x)
      <4>0. all \in Seq(Sent)
        BY <3>2, <3>3, SeqOps
      <4>1. AllProper(all)
        BY <3>2, <3>3, ProperOps
      <4>2. \A x : Has(all, x) <=> Has(<<PairingResult>>, x) \/ Has(old, x)
        BY <3>2, <3>3, HasConcat
      <4> QED BY <3>2, <3>3, <4>0, <4>1, <4>2
    <3> HIDE DEF all
    <3>6. AllProper(down \o all)
      BY <1>1, <3>5, ProperOps DEF LoadsInv
    <3>7. ASSUME NEW e \in HumanSteps
          PROVE  (Has(down \o all, e) => Has(down, e)) /\ (Lone(down, e) => Lone(down \o all, e))
      <4>1. ~Has(all, e)
        BY <1>1, <3>5 DEF StepOne
      <4>2. Lone(all, e)
        BY <4>1 DEF Lone, Has
      <4> QED BY <1>1, <3>5, <4>1, <4>2, HasConcat, LoneConcat
    <3> QED BY <3>4, <3>6, <3>7
  <2> QED BY <2>1, <2>2, <2>3, <2>4 DEF Link, Dial, Accept, RegisterOutbound, Replay, HubEof, HubReset
<1> QED BY <1>2, <1>3, <1>4, <1>5, FewerHuman

\* The answer to a batch holds no step of the human.
LEMMA FinishHuman ==
  ASSUME TypeInv, LoadsInv, run # NoRun, NEW ok \in BOOLEAN, Finish(ok)
  PROVE  (\A c \in Conns : AllProper(up'[c])) /\ \A x : \A c \in Conns :
           (Has(up'[c], x) => Has(up[c], x)) /\ (Lone(up[c], x) => Lone(up'[c], x))
<1>1. run.id \in Ids
  BY DEF TypeInv, RunTypes, Running
<1>2. <<Result(run.id, ok)>> \in Seq(ToHub)
  BY <1>1, Makes, SingleIn
<1>3. AllProper(<<Result(run.id, ok)>>) /\ \A x : ~Has(<<Result(run.id, ok)>>, x)
  BY ProperFacts, OneProper, HeldFacts, OneHas
<1> QED BY <1>2, <1>3, RespondHuman DEF Finish

\* A stop that is received moves its steps to the queue.
LEMMA ReceiveHuman == TypeInv /\ HumanInv /\ Receive => HumanInv'
<1> SUFFICES ASSUME TypeInv, HumanInv, Receive PROVE HumanInv'
  OBVIOUS
<1>1. LoadsInv /\ (\A e \in HumanSteps : StepOne(e))
  BY DEF HumanInv
<1>2. down \in Seq(Sent) /\ down # <<>> /\ down' = Tail(down) /\ queue \in Seq(Sent)
      /\ Head(down) \in Sent
  BY SeqOps DEF Receive, ReceiveRequest, ReceiveCancel, ReceiveStart, ReceiveStop, ReceiveResume,
                Receives, TypeInv, DownTypes, WorkerTypes
<1>3. UNCHANGED <<flight, buffer, pending, exported, acted, timeline>>
  BY DEF Receive, ReceiveRequest, ReceiveCancel, ReceiveStart, ReceiveStop, ReceiveResume, Receives,
         hubVars
<1>4. AllProper(down) /\ AllProper(queue) /\ \A c \in Conns : AllProper(up[c])
  BY <1>1 DEF LoadsInv
<1>5. Proper(Head(down)) /\ AllProper(down')
      /\ \A x : (Has(down', x) => Has(down, x)) /\ (Lone(down, x) => Lone(down', x))
  BY <1>2, <1>4, ProperOps, TailHas
<1>6. (\A c \in Conns : AllProper(up'[c])) /\ \A x : \A c \in Conns :
         (Has(up'[c], x) => Has(up[c], x)) /\ (Lone(up[c], x) => Lone(up'[c], x))
  <2>1. CASE up' = up
    BY <1>4, <2>1
  <2>2. CASE RejectQueued
    BY <1>1, <2>2, RejectHas, RespondHuman
  <2>3. CASE ReceiveRequest /\ Respond(<<Result(Head(down).id, FALSE)>>)
    <3>1. Head(down).id \in Ids
      BY <1>2, <2>3, Reads DEF ReceiveRequest, Receives
    <3>2. Result(Head(down).id, FALSE) \in ToHub
      <4>1. FALSE \in BOOLEAN
        OBVIOUS
      <4> QED BY <3>1, <4>1, Makes, Zenon
    <3>3. <<Result(Head(down).id, FALSE)>> \in Seq(ToHub)
      BY <3>2, SingleIn, Zenon
    <3>4. AllProper(<<Result(Head(down).id, FALSE)>>) /\ \A x : ~Has(<<Result(Head(down).id, FALSE)>>, x)
      BY OneHas, HeldFacts, ProperFacts, OneProper
    <3> QED BY <1>1, <2>3, <3>3, <3>4, RespondHuman
  <2> QED BY <2>1, <2>2, <2>3 DEF Receive, ReceiveRequest, ReceiveCancel, ReceiveStart, ReceiveStop,
                                  ReceiveResume
<1>7. StopsQueued \in Seq(Sent) /\ AllProper(StopsQueued)
      /\ \A x : (Has(StopsQueued, x) => Has(queue, x)) /\ (Lone(queue, x) => Lone(StopsQueued, x))
  BY <1>2, <1>4, KeptHas, ProperOps, StopsTypes DEF StopsQueued, TypeInv
<1>8. CASE ~ReceiveStop
  <2>1. AllProper(queue') /\ \A x : (Has(queue', x) => Has(queue, x)) /\ (Lone(queue, x) => Lone(queue', x))
    <3>1. CASE queue' = queue
      BY <1>4, <3>1
    <3>2. CASE queue' = StopsQueued
      BY <1>7, <3>2
    <3>3. CASE ReceiveRequest /\ queue' = Append(queue, Head(down))
      <4>1. Held(Head(down)) = {}
        BY <3>3, HeldFacts DEF ReceiveRequest, Receives
      <4>2. \A x : ~Has(<<Head(down)>>, x) /\ Lone(<<Head(down)>>, x)
        BY <4>1, OneHas
      <4>3. queue' = queue \o <<Head(down)>> /\ <<Head(down)>> \in Seq(Sent)
        BY <1>2, <3>3, AppendIs
      <4>4. AllProper(queue')
        BY <1>2, <1>4, <1>5, <4>3, OneProper, ProperOps
      <4> QED BY <1>2, <4>2, <4>3, <4>4, HasConcat, LoneConcat
    <3> QED BY <1>8, <3>1, <3>2, <3>3 DEF Receive, ReceiveRequest, ReceiveCancel, ReceiveStart,
                                          ReceiveResume
  <2> QED BY <1>3, <1>5, <1>6, <2>1, FewerHuman
<1>9. CASE ReceiveStop
  <2> DEFINE m == Head(down)
  <2>1. m.type = "takeover_stop" /\ m.id \in Takeovers /\ m.steps \in Events
    BY <1>2, <1>9, Reads DEF ReceiveStop, Receives
  <2>2. queue' = StopsQueued \o <<m>> /\ <<m>> \in Seq(Sent)
    BY <1>2, <1>7, <1>9, AppendIs DEF ReceiveStop
  <2>3. PendingSteps' = PendingSteps
    BY <1>3 DEF PendingSteps
  <2> HIDE DEF m
  <2>4. AllProper(queue')
    BY <1>5, <1>7, <2>2, OneProper, ProperOps DEF m
  <2>5. LoadsInv'
    <3>1. Distinct(flight)' /\ Distinct(buffer)' /\ Distinct(PendingSteps)' /\ (Elems(flight) \subseteq HumanSteps)'
      BY <1>1, <1>3, <2>3 DEF LoadsInv, Distinct, Elems, HumanSteps
    <3>2. AllProper(down)' /\ AllProper(queue)' /\ AllProper(timeline)' /\ (\A c \in Conns : AllProper(up[c]))'
      BY <1>1, <1>3, <1>5, <1>6, <2>4 DEF LoadsInv, AllProper
    <3> QED BY <3>1, <3>2 DEF LoadsInv
  <2>6. ASSUME NEW e \in HumanSteps, e \notin Held(m) PROVE StepOne(e)'
    <3>1. ~Has(<<m>>, e) /\ Lone(<<m>>, e)
      BY <2>6, OneHas
    <3>2. (Has(queue', e) => Has(queue, e)) /\ (Lone(queue, e) => Lone(queue', e))
      BY <1>7, <2>2, <3>1, HasConcat, LoneConcat
    <3>3. ~Has(timeline', e)
      BY <1>1, <1>3 DEF StepOne
    <3> QED BY <1>1, <1>3, <1>5, <1>6, <2>3, <3>2, <3>3, StepStays
  <2>7. ASSUME NEW e \in HumanSteps, e \in Held(m) PROVE StepOne(e)'
    <3>1. PICK p \in Stages : StepAt(e, p)
      BY <1>1 DEF StepOne
    <3>2. Lone(down, e) /\ Lone(queue, e) /\ ~Has(timeline, e) /\ exported[e] <= 1
          /\ \A c \in Conns : Lone(up[c], e)
      BY <1>1 DEF StepOne
    <3>3. Has(down, e) /\ ~Has(down', e)
      BY <1>2, <2>7, <3>2, TailHas DEF m
    <3>4. p = <<"down", 0>>
      BY <3>1, <3>3 DEF StepAt
    <3>5. /\ e \notin Elems(flight) /\ e \notin Elems(buffer) /\ ~Has(queue, e)
          /\ \A c \in Conns : ~Has(up[c], e)
          /\ e \notin Elems(PendingSteps) /\ exported[e] = 0 /\ e \in acted
      BY <3>1, <3>4 DEF StepAt
    <3>6. Lone(queue', e)
      BY <1>7, <2>2, <3>2, <3>5, OneHas, LoneConcat
    <3>7. StepAt(e, <<"queue", 0>>)'
      BY <1>3, <1>6, <2>3, <3>3, <3>5 DEF StepAt, Elems, Has
    <3>8. <<"queue", 0>> \in Stages'
      BY DEF Stages
    <3> QED BY <1>3, <1>5, <1>6, <3>2, <3>6, <3>7, <3>8 DEF StepOne, Lone, Has
  <2> QED BY <2>5, <2>6, <2>7 DEF HumanInv, HumanSteps
<1> QED BY <1>8, <1>9

\* A stop that is executed moves its steps to the answer, or loses them.
LEMMA WorkHuman == TypeInv /\ HumanInv /\ Work => HumanInv'
<1> SUFFICES ASSUME TypeInv, HumanInv, Work PROVE HumanInv'
  OBVIOUS
<1>1. LoadsInv /\ (\A e \in HumanSteps : StepOne(e)) /\ queue \in Seq(Sent)
  BY DEF HumanInv, TypeInv, WorkerTypes
<1>2. UNCHANGED <<flight, buffer, pending, exported, acted, timeline, down>>
  BY DEF Work, Begin, Check, Act, ActFails, Normalize, NotWork, hubVars
<1>3. AllProper(down) /\ AllProper(queue) /\ \A c \in Conns : AllProper(up[c])
  BY <1>1 DEF LoadsInv
<1>4. AllProper(queue') /\ \A x : (Has(queue', x) => Has(queue, x)) /\ (Lone(queue, x) => Lone(queue', x))
  <2>1. CASE queue' = queue
    BY <1>3, <2>1
  <2>2. CASE queue # <<>> /\ queue' = Tail(queue)
    BY <1>1, <1>3, <2>2, ProperOps, TailHas
  <2> QED BY <2>1, <2>2 DEF Work, Begin, Check, Act, ActFails, Normalize
<1>5. AllProper(down') /\ \A x : (Has(down', x) => Has(down, x)) /\ (Lone(down, x) => Lone(down', x))
  BY <1>2, <1>3
<1>6. CASE ~Normalize
  <2>1. (\A c \in Conns : AllProper(up'[c])) /\ \A x : \A c \in Conns :
          (Has(up'[c], x) => Has(up[c], x)) /\ (Lone(up[c], x) => Lone(up'[c], x))
    <3>1. CASE up' = up
      BY <1>3, <3>1
    <3>2. ASSUME run # NoRun, NEW ok \in BOOLEAN, Finish(ok)
          PROVE  (\A c \in Conns : AllProper(up'[c])) /\ \A x : \A c \in Conns :
                   (Has(up'[c], x) => Has(up[c], x)) /\ (Lone(up[c], x) => Lone(up'[c], x))
      BY <1>1, <3>2, FinishHuman
    <3> QED BY <1>6, <3>1, <3>2 DEF Work, Begin, Check, Act, ActFails
  <2> QED BY <1>2, <1>4, <1>5, <2>1, FewerHuman
<1>7. CASE Normalize
  <2> DEFINE m == Head(queue)
             kept == Kept(m.steps, {i \in DOMAIN m.steps : Stable(m.steps[i])})
             needs == Kept(m.steps, {i \in DOMAIN m.steps : Unstable(m.steps[i])})
  <2>1. m \in Sent /\ m.type = "takeover_stop" /\ queue # <<>> /\ queue' = Tail(queue)
    BY <1>1, <1>7, SeqOps DEF Normalize, IsStop
  <2>2. m.id \in Takeovers /\ m.steps \in Events /\ m.steps \in Seq(Steps)
    BY <2>1, Reads DEF Events
  <2>3. Proper(m) /\ Held(m) = {<<m.id, 0>>} \cup Elems(m.steps)
    BY <1>1, <1>3, <2>1, ProperOps DEF Held
  <2>4. Distinct(m.steps)
    BY <2>1, <2>3 DEF Proper
  <2>5. kept \in Events /\ needs \in Events /\ <<>> \in Events
    BY <2>2, KeptPlaces DEF Events
  <2>6. Distinct(kept \o needs) /\ Elems(kept \o needs) \subseteq Elems(m.steps)
    BY <2>2, <2>4, SplitDistinct
  <2>7. Distinct(<<>> \o <<>>) /\ Elems(<<>> \o <<>>) \subseteq Elems(m.steps)
    <3>1. <<>> \o <<>> = <<>>
      OBVIOUS
    <3> QED BY <3>1, DistinctOps, NoElems
  <2>8. \E s \in Events, n \in Events :
          /\ Respond(<<Normalized(m.id, s, n)>>)
          /\ Distinct(s \o n) /\ Elems(s \o n) \subseteq Elems(m.steps)
    <3>1. Respond(<<Normalized(m.id, kept, needs)>>) \/ Respond(<<Normalized(m.id, <<>>, <<>>)>>)
      BY <1>7 DEF Normalize
    <3> HIDE DEF m, kept, needs
    <3> QED BY <2>5, <2>6, <2>7, <3>1
  <2> HIDE DEF kept, needs
  <2>9. PICK s \in Events, n \in Events :
          /\ Respond(<<Normalized(m.id, s, n)>>)
          /\ Distinct(s \o n) /\ Elems(s \o n) \subseteq Elems(m.steps)
    BY <2>8
  <2> DEFINE answer == Normalized(m.id, s, n)
  <2>10. answer \in ToHub /\ Proper(answer) /\ Held(answer) \subseteq Held(m)
    <3>1. answer \in ToHub
      BY <2>2, Makes
    <3>2. Proper(answer)
      BY <2>9, ProperFacts
    <3>3. Held(answer) = {<<m.id, 0>>} \cup Elems(s \o n)
      BY HeldFacts
    <3> HIDE DEF answer, m
    <3> QED BY <2>3, <2>9, <3>1, <3>2, <3>3
  <2> HIDE DEF answer, m
  <2>11. <<answer>> \in Seq(ToHub) /\ AllProper(<<answer>>) /\ Respond(<<answer>>)
    BY <2>9, <2>10, SingleIn, OneProper DEF answer
  <2>12. PendingSteps' = PendingSteps
    BY <1>2 DEF PendingSteps
  <2>13. LoadsInv'
    <3>1. Distinct(flight)' /\ Distinct(buffer)' /\ Distinct(PendingSteps)' /\ (Elems(flight) \subseteq HumanSteps)'
      BY <1>1, <1>2, <2>12 DEF LoadsInv, Distinct, Elems, HumanSteps
    <3>2. \A c \in Conns : AllProper(up'[c])
      BY <1>1, <2>11, RespondHuman
    <3>3. AllProper(down)' /\ AllProper(queue)' /\ AllProper(timeline)' /\ (\A c \in Conns : AllProper(up[c]))'
      BY <1>1, <1>2, <1>4, <1>5, <3>2 DEF LoadsInv, AllProper
    <3> QED BY <3>1, <3>3 DEF LoadsInv
  <2>14. ASSUME NEW e \in HumanSteps, e \notin Held(m) PROVE StepOne(e)'
    <3>1. ~Has(<<answer>>, e)
      BY <2>10, <2>14, OneHas
    <3>2. \A c \in Conns : (Has(up'[c], e) => Has(up[c], e)) /\ (Lone(up[c], e) => Lone(up'[c], e))
      BY <1>1, <2>11, <3>1, RespondHuman
    <3>3. ~Has(timeline', e)
      BY <1>1, <1>2 DEF StepOne
    <3> QED BY <1>1, <1>2, <1>4, <1>5, <2>12, <3>2, <3>3, StepStays
  <2>15. ASSUME NEW e \in HumanSteps, e \in Held(m) PROVE StepOne(e)'
    <3>1. PICK p \in Stages : StepAt(e, p)
      BY <1>1 DEF StepOne
    <3>2. Lone(down, e) /\ Lone(queue, e) /\ ~Has(timeline, e) /\ exported[e] <= 1
          /\ \A c \in Conns : Lone(up[c], e)
      BY <1>1 DEF StepOne
    <3>3. Has(queue, e) /\ ~Has(queue', e)
      BY <1>1, <2>1, <2>15, <3>2, TailHas DEF m
    <3>4. p = <<"queue", 0>>
      BY <3>1, <3>3 DEF StepAt
    <3>5. /\ e \notin Elems(flight) /\ e \notin Elems(buffer) /\ ~Has(down, e)
          /\ \A c \in Conns : ~Has(up[c], e)
          /\ e \notin Elems(PendingSteps) /\ exported[e] = 0 /\ e \in acted
      BY <3>1, <3>4 DEF StepAt
    <3>6. /\ (e \notin Elems(flight))' /\ (e \notin Elems(buffer))' /\ (~Has(down, e))' /\ (~Has(queue, e))'
          /\ (e \notin Elems(PendingSteps))' /\ (exported[e] = 0)' /\ (e \in acted)' /\ (~Has(timeline, e))'
      BY <1>2, <2>12, <3>2, <3>3, <3>5 DEF Elems, Has
    <3>7. Lone(down, e)' /\ Lone(queue, e)'
      BY <1>4, <1>5, <3>2 DEF Lone
    <3>8. CASE cur = 0
      <4>1. up' = up
        BY <1>1, <2>11, <3>8, RespondHuman
      <4>2. StepAt(e, <<"none", 0>>)' /\ (\A c \in Conns : Lone(up[c], e))'
        BY <3>2, <3>5, <3>6, <4>1 DEF StepAt, Has, Lone
      <4>3. <<"none", 0>> \in Stages'
        BY DEF Stages
      <4> QED BY <3>6, <3>7, <4>2, <4>3 DEF StepOne
    <3>9. CASE cur # 0
      <4>1. /\ cur \in Conns /\ up'[cur] = up[cur] \o <<answer>>
            /\ \A c \in Conns : c # cur => up'[c] = up[c]
        BY <1>1, <2>11, <3>9, RespondHuman
      <4>2. up[cur] \in Seq(ToHub)
        BY <4>1 DEF TypeInv, UpTypes
      <4>3. Lone(up[cur] \o <<answer>>, e)
        BY <2>11, <3>2, <3>5, <4>1, <4>2, OneHas, LoneConcat
      <4>4. \A c \in Conns : Lone(up'[c], e) /\ (c # cur => ~Has(up'[c], e))
        BY <3>2, <3>5, <4>1, <4>3
      <4>5. PICK k \in Conns : k = cur
        BY <4>1
      <4>6. StepAt(e, <<"up", k>>)' /\ <<"up", k>> \in Stages'
        BY <3>6, <4>4, <4>5 DEF StepAt, Stages
      <4>7. (\A c \in Conns : Lone(up[c], e))'
        BY <4>4 DEF Lone
      <4> QED BY <3>6, <3>7, <4>6, <4>7 DEF StepOne
    <3> QED BY <3>8, <3>9
  <2> QED BY <2>13, <2>14, <2>15 DEF HumanInv, HumanSteps
<1> QED BY <1>6, <1>7

\* The human has done nothing at first.
LEMMA InitHuman == Init => HumanInv
<1> SUFFICES ASSUME Init PROVE HumanInv
  OBVIOUS
<1>1. /\ flight = <<>> /\ buffer = <<>> /\ PendingSteps = <<>> /\ down = <<>> /\ queue = <<>>
      /\ timeline = <<>> /\ \A c \in Conns : up[c] = <<>>
  BY DEF Init, PendingSteps
<1>2. Distinct(<<>>) /\ AllProper(<<>>) /\ Elems(<<>>) = {} /\ \A x : ~Has(<<>>, x) /\ Lone(<<>>, x)
  BY DistinctOps, ProperFacts, NoElems, NoneHas
<1>3. LoadsInv
  BY <1>1, <1>2 DEF LoadsInv
<1>4. ASSUME NEW e \in HumanSteps PROVE StepOne(e)
  <2>1. exported[e] = 0
    BY HumanTokens DEF Init
  <2>2. StepAt(e, <<"none", 0>>)
    BY <1>1, <1>2, <2>1 DEF StepAt
  <2>3. <<"none", 0>> \in Stages
    BY DEF Stages
  <2> QED BY <1>1, <1>2, <2>1, <2>2, <2>3 DEF StepOne
<1> QED BY <1>3, <1>4 DEF HumanInv

\* Every step of the human stays in one place.
LEMMA StepHuman == TypeInv /\ HumanInv /\ [Next]_vars => HumanInv'
<1> SUFFICES ASSUME TypeInv, HumanInv, [Next]_vars PROVE HumanInv'
  OBVIOUS
<1>1. CASE Chat
  BY <1>1, QuietChat, ConfirmHuman, StopHuman DEF Chat
<1>2. CASE Human
  BY <1>2, HubEventHuman, ActsHuman DEF Human
<1>3. CASE Link \/ Receive \/ Work \/ \E c \in Conns : Handle(c)
  BY <1>3, LinkHuman, ReceiveHuman, WorkHuman, HandleHuman
<1>4. CASE UNCHANGED vars
  <2>1. UNCHANGED <<flight, buffer, pending, exported, acted, timeline, down, queue, up>>
    BY <1>4 DEF vars, hubVars, workerVars
  <2>2. AllProper(down) /\ AllProper(queue) /\ \A c \in Conns : AllProper(up[c])
    BY DEF HumanInv, LoadsInv
  <2> QED BY <2>1, <2>2, FewerHuman
<1> QED BY <1>1, <1>2, <1>3, <1>4 DEF Next

\* What the human did is exported once at most and only when it was done,
\* however often takeovers are stopped, replayed, normalized and confirmed.
THEOREM ExportedOnce == Spec => []HumanExportedOnce
<1>1. Init => TypeInv /\ HumanInv
  BY InitTypes, InitHuman
<1>2. (TypeInv /\ HumanInv) /\ [Next]_vars => (TypeInv /\ HumanInv)'
  BY StepTypes, StepHuman
<1>3. TypeInv /\ HumanInv => HumanExportedOnce
  <2> SUFFICES ASSUME TypeInv, HumanInv, NEW t \in Takeovers, NEW k \in {1, 2}
               PROVE  exported[<<t, k>>] <= (IF <<t, k>> \in acted THEN 1 ELSE 0)
    BY DEF HumanExportedOnce
  <2> DEFINE e == <<t, k>>
  <2>1. e \in HumanSteps
    BY DEF HumanSteps
  <2> HIDE DEF e
  <2>2. exported[e] <= 1 /\ exported[e] \in Nat
    BY <2>1, HumanTokens DEF HumanInv, StepOne, TypeInv, HubTypes
  <2>3. PICK p \in Stages : StepAt(e, p)
    BY <2>1 DEF HumanInv, StepOne
  <2>4. exported[e] # 0 => e \in acted
    <3>1. <<"exported", 0>> # <<"none", 0>>
      OBVIOUS
    <3> QED BY <2>3, <3>1 DEF StepAt
  <2>5. exported[e] <= (IF e \in acted THEN 1 ELSE 0)
    BY <2>2, <2>4
  <2> QED BY <2>5 DEF e
<1> QED BY <1>1, <1>2, <1>3, PTL DEF Spec
=============================================================================
