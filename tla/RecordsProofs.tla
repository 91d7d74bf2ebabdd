--------------------------- MODULE RecordsProofs ---------------------------
(***************************************************************************)
(* The parts that keep, convert or pass on something, for any directories, *)
(* processes, callers, calls, clicks, children, handlers, connections,     *)
(* messages, texts, profiles, providers and models.  Each has an invariant *)
(* of its own, kept by its steps, that of seven parts in PartsProofs; a    *)
(* behaviour of the composition moves one part and leaves the others as    *)
(* they begin, so all of them hold together.  What a pure part converts an *)
(* input to, a behaviour shows of the input it starts with.                *)
(***************************************************************************)
EXTENDS PartsProofs

-----------------------------------------------------------------------------
(* The connections of the teach hub *)

LEMMA PairingSizes == MaxConns \in Nat /\ MaxEvents \in Nat /\ MaxFailures \in Nat \ {0}
BY RecordsAssumption

\* The connections whose task has registered, the ones that have no role, and
\* what a connection is.
Past     == {"reply", "loop", "ended"}
Roleless == {"none", "token", "code", "wrong", "refused"}
Unsent   == {"none", "token", "code", "wrong", "register"}
Task == [who : Pairing!Clients \cup {Pairing!NoOne}, at : Roleless \cup {"register"} \cup Past,
         role : Pairing!Roles \cup {"none"}, gen : Nat, replay : Seq(Nat), closed : BOOLEAN]

PairingTyped ==
  /\ pairing \in [failures : Nat, locked : BOOLEAN, expired : BOOLEAN]
  /\ hubSlot \in [Pairing!Roles -> [token : 0..MaxConns, connected : BOOLEAN]]
  /\ gen \in [Pairing!Roles -> Nat] /\ outbound \in [Pairing!Roles -> 0..MaxConns]
  /\ conn \in [Pairing!Conns -> Task]
  /\ held \in [Pairing!Clients -> [conn : 0..MaxConns, token : 0..MaxConns]]
  /\ inbox \in [Pairing!Conns -> Seq(Nat)]
  /\ events \in Seq(Pairing!Kinds) /\ guesses \in Nat

\* Generations are given once for each role, to the connections that register.
Registered(k, r) == conn[k].at \in Past /\ conn[k].role = r
Generations ==
  /\ \A k \in Pairing!Conns : /\ conn[k].at \in Roleless => conn[k].role = "none"
                              /\ conn[k].at \in {"register", "reply"} => conn[k].role # "none"
  /\ \A r \in Pairing!Roles, k \in Pairing!Conns :
       Registered(k, r) => conn[k].gen <= gen[r]
  /\ \A r \in Pairing!Roles, j, k \in Pairing!Conns :
       Registered(j, r) /\ Registered(k, r) /\ conn[j].gen = conn[k].gen => j = k

\* The sender of a role is that of a registered connection.
Senders ==
  /\ Pairing!NewestKeepsOutbound
  /\ \A r \in Pairing!Roles : outbound[r] # 0 => conn[outbound[r]].at \in Past

\* What a connection is sent and what is still to be replayed are different
\* events, and before it has registered it is sent nothing.
Apart(s) == \A i, j \in DOMAIN s : s[i] = s[j] => i = j
Within(s, n) == \A i \in DOMAIN s : s[i] \in 1..n
Numbered ==
  \A k \in Pairing!Conns :
    /\ Within(inbox[k], Len(events)) /\ Within(conn[k].replay, Len(events))
    /\ Apart(inbox[k]) /\ Apart(conn[k].replay)
    /\ \A i \in DOMAIN inbox[k], j \in DOMAIN conn[k].replay : inbox[k][i] # conn[k].replay[j]
    /\ conn[k].at \in Unsent => inbox[k] = <<>>

GuessesCounted ==
  /\ guesses = pairing.failures /\ guesses <= MaxFailures
  /\ ~ pairing.locked => guesses < MaxFailures

PairingInv == PairingTyped /\ Generations /\ Senders /\ Numbered /\ GuessesCounted

LEMMA PairingInit == Pairing!Init => PairingInv
<1> SUFFICES ASSUME Pairing!Init PROVE PairingInv
  OBVIOUS
<1> USE DEF Pairing!Init
<1>1. PairingTyped
  BY PairingSizes DEF PairingTyped, Task, Pairing!Idle, Pairing!Roles, Pairing!NoOne, Roleless
<1>2. Generations /\ Senders
  BY DEF Generations, Registered, Senders, Pairing!NewestKeepsOutbound, Pairing!Idle, Pairing!Roles, Past,
         Roleless
<1>3. Numbered
  BY DEF Numbered, Within, Apart, Pairing!Idle
<1>4. GuessesCounted
  BY PairingSizes DEF GuessesCounted
<1> QED
  BY <1>1, <1>2, <1>3, <1>4 DEF PairingInv

\* Different events one after the other.
LEMMA Joined ==
  ASSUME NEW s \in Seq(Nat), NEW t \in Seq(Nat), Apart(s), Apart(t),
         \A i \in DOMAIN s, j \in DOMAIN t : s[i] # t[j]
  PROVE  Apart(s \o t)
  BY SMTT(30) DEF Apart

\* What a connection becomes when a client opens it.
LEMMA Opened ==
  ASSUME NEW i \in Task, NEW c \in Pairing!Clients, NEW a \in Roleless
  PROVE  LET t == [i EXCEPT !.who = c, !.at = a]
         IN  t \in Task /\ t.at = a /\ t.role = i.role /\ t.replay = i.replay
  BY DEF Task

LEMMA IdleIsTask == Pairing!Idle \in Task
<1>1. <<>> \in Seq(Nat)
  OBVIOUS
<1> QED
  BY <1>1 DEF Task, Pairing!Idle, Roleless

\* The first connection that nobody has opened.
LEMMA FreeIs ==
  ASSUME \E x \in Pairing!Conns : conn[x] = Pairing!Idle
  PROVE  LET k == CHOOSE x \in Pairing!Conns : conn[x] = Pairing!Idle /\
                    \A y \in Pairing!Conns : conn[y] = Pairing!Idle => x <= y
         IN  k \in Pairing!Conns /\ conn[k] = Pairing!Idle
<1> DEFINE K == {x \in Pairing!Conns : conn[x] = Pairing!Idle}
<1>1. K \in SUBSET Nat /\ K # {}
  BY PairingSizes DEF Pairing!Conns
<1>2. PICK x \in K : \A y \in K : ~ (y < x)
  BY <1>1, Least
<1>3. \A y \in K : x <= y
  BY <1>1, <1>2
<1> QED
  BY <1>2, <1>3

LEMMA ConnectStep ==
  ASSUME PairingInv, NEW c \in Pairing!Clients, NEW right \in BOOLEAN, Pairing!Connect(c, right)
  PROVE  PairingInv'
<1> DEFINE k == CHOOSE x \in Pairing!Conns : conn[x] = Pairing!Idle /\
                   \A y \in Pairing!Conns : conn[y] = Pairing!Idle => x <= y
<1> DEFINE at == CASE held[c].token # 0 -> "token" [] right -> "code" [] OTHER -> "wrong"
<1>1. k \in Pairing!Conns /\ conn[k] = Pairing!Idle
  BY FreeIs DEF Pairing!Connect
<1>2. at \in {"token", "code", "wrong"}
  OBVIOUS
<1>3. /\ conn' = [conn EXCEPT ![k] = [Pairing!Idle EXCEPT !.who = c, !.at = at]]
      /\ held' = [held EXCEPT ![c].conn = k]
      /\ UNCHANGED <<pairing, hubSlot, gen, outbound, inbox, events, guesses>>
  BY DEF Pairing!Connect, Pairing!hubVars
<1> HIDE DEF k, at
<1> DEFINE t == [Pairing!Idle EXCEPT !.who = c, !.at = at]
<1>4. /\ t.at = at /\ t.role = "none" /\ t.replay = <<>> /\ t \in Task
  <2>1. /\ Pairing!Idle.role = "none" /\ Pairing!Idle.replay = <<>>
    BY DEF Pairing!Idle
  <2>2. at \in Roleless
    BY <1>2 DEF Roleless
  <2> QED
    BY <2>1, <2>2, IdleIsTask, Opened, ZenonT(40)
<1>5. conn[k].role = "none" /\ conn[k].at = "none"
  BY <1>1 DEF Pairing!Idle
<1>6. conn' = [conn EXCEPT ![k] = t]
  BY <1>3
<1> HIDE DEF t
<1> USE DEF PairingInv
<1>7. PairingTyped'
  <2>1. k \in 0..MaxConns
    BY <1>1, PairingSizes DEF Pairing!Conns
  <2>2. conn' \in [Pairing!Conns -> Task]
    BY <1>4, <1>6 DEF PairingTyped
  <2>3. held' \in [Pairing!Clients -> [conn : 0..MaxConns, token : 0..MaxConns]]
    BY <1>3, <2>1 DEF PairingTyped
  <2> QED
    BY <1>3, <2>2, <2>3 DEF PairingTyped
<1>8. \A j \in Pairing!Conns : conn'[j] = IF j = k THEN t ELSE conn[j]
  BY <1>6 DEF PairingTyped
<1>9. Generations'
  BY <1>1, <1>2, <1>3, <1>4, <1>5, <1>8 DEF Generations, Registered, Past, Roleless
<1>10. Senders'
  <2>1. ASSUME NEW r \in Pairing!Roles, outbound[r] # 0
        PROVE  outbound[r] \in Pairing!Conns
    BY <2>1, PairingSizes DEF PairingTyped, Pairing!Conns
  <2>2. \A r \in Pairing!Roles : outbound'[r] # 0 => conn'[outbound'[r]].at \in Past
    BY <1>1, <1>3, <1>5, <1>8, <2>1 DEF Senders, Past
  <2>3. \A j \in Pairing!Conns : conn'[j].role # "none" => conn'[j] = conn[j]
    BY <1>4, <1>8
  <2>4. \A j \in Pairing!Conns : conn[j].role # "none" => conn'[j] = conn[j]
    BY <1>5, <1>8
  <2>5. "none" \notin Pairing!Roles
    BY DEF Pairing!Roles
  <2>6. Pairing!NewestKeepsOutbound'
    <3> SUFFICES ASSUME NEW r \in Pairing!Roles
                 PROVE  /\ \A j \in Pairing!Conns :
                             conn'[j].role = r /\ conn'[j].gen = gen'[r] /\ conn'[j].at \in {"reply", "loop"}
                               => outbound'[r] = j /\ hubSlot'[r].connected
                        /\ hubSlot'[r].connected =>
                             outbound'[r] # 0 \/ \E j \in Pairing!Conns : conn'[j].role = r /\ conn'[j].at = "register"
      BY DEF Pairing!NewestKeepsOutbound
    <3>1. r # "none" /\ gen' = gen /\ outbound' = outbound /\ hubSlot' = hubSlot
      BY <1>3, <2>5
    <3>2. ASSUME NEW j \in Pairing!Conns, conn'[j].role = r
          PROVE  conn'[j] = conn[j]
      BY <2>3, <3>1, <3>2
    <3>3. ASSUME NEW j \in Pairing!Conns, conn[j].role = r
          PROVE  conn'[j] = conn[j]
      BY <2>4, <3>1, <3>3
    <3> QED
      BY <3>1, <3>2, <3>3 DEF Senders, Pairing!NewestKeepsOutbound
  <2> QED
    BY <2>2, <2>6 DEF Senders
<1>11. Numbered'
  BY <1>1, <1>2, <1>3, <1>4, <1>5, <1>8 DEF Numbered, Within, Apart, Unsent
<1> QED
  BY <1>3, <1>7, <1>9, <1>10, <1>11 DEF GuessesCounted

\* A step after which who is registered, and as what, is as before: a place
\* changes where there is no role, and where the answer is sent.
LEMMA RolesStay ==
  ASSUME PairingInv, UNCHANGED <<gen, outbound, hubSlot>>,
         \A j \in Pairing!Conns :
           /\ conn'[j].role = conn[j].role /\ conn'[j].gen = conn[j].gen
           /\ \/ conn'[j].at = conn[j].at
              \/ conn[j].at \in Roleless /\ conn'[j].at \in Roleless \cup {"loop"}
              \/ conn[j].at = "reply" /\ conn'[j].at = "loop"
  PROVE  Generations' /\ Senders'
<1> USE DEF PairingInv
<1>1. \A j \in Pairing!Conns : conn[j].at \in Roleless => conn[j].role \notin Pairing!Roles
  BY DEF Generations, Pairing!Roles
<1>2. \A j \in Pairing!Conns : /\ conn[j].at \in Past => conn'[j].at \in Past
                               /\ conn'[j].at \in Roleless => conn'[j].role = "none"
                               /\ conn'[j].at \in {"register", "reply"} => conn'[j].role # "none"
                               /\ conn'[j].at = "register" <=> conn[j].at = "register"
  BY DEF Past, Roleless, Generations
<1>3. \A j \in Pairing!Conns, r \in Pairing!Roles : Registered(j, r)' => Registered(j, r)
  BY <1>1 DEF Registered, Past
<1>4. \A j \in Pairing!Conns, r \in Pairing!Roles :
        conn'[j].role = r /\ conn'[j].at \in {"reply", "loop"} => conn[j].at \in {"reply", "loop"}
  BY <1>1 DEF Roleless
<1>5. Generations'
  BY <1>2, <1>3 DEF Generations
<1>6. \A r \in Pairing!Roles : outbound[r] # 0 => outbound[r] \in Pairing!Conns
  BY PairingSizes DEF PairingTyped, Pairing!Conns
<1>7. Pairing!NewestKeepsOutbound'
  BY <1>2, <1>4 DEF Senders, Pairing!NewestKeepsOutbound
<1> QED
  BY <1>2, <1>5, <1>6, <1>7 DEF Senders

\* A step that sends and stores nothing.
LEMMA InboxesStay ==
  ASSUME PairingInv, UNCHANGED <<inbox, events>>,
         \A j \in Pairing!Conns : conn'[j].replay = conn[j].replay /\ (conn'[j].at \in Unsent => conn[j].at \in Unsent)
  PROVE  Numbered'
  BY DEF PairingInv, Numbered, Within, Apart

LEMMA LeaveStep ==
  ASSUME PairingInv, NEW c \in Pairing!Clients, Pairing!Leave(c)
  PROVE  PairingInv'
<1> USE DEF PairingInv
<1> DEFINE k == held[c].conn
<1>1. k \in Pairing!Conns
  BY PairingSizes DEF PairingTyped, Pairing!Leave, Pairing!Conns
<1>2. /\ conn' = [conn EXCEPT ![k].closed = TRUE] /\ held' = [held EXCEPT ![c].conn = 0]
      /\ UNCHANGED <<pairing, hubSlot, gen, outbound, events, guesses, inbox>>
  BY DEF Pairing!Leave, Pairing!hubVars
<1> HIDE DEF k
<1>3. \A j \in Pairing!Conns : /\ conn'[j].at = conn[j].at /\ conn'[j].role = conn[j].role
                               /\ conn'[j].gen = conn[j].gen /\ conn'[j].replay = conn[j].replay
  BY <1>1, <1>2 DEF PairingTyped, Task
<1>4. conn' \in [Pairing!Conns -> Task]
  <2>1. conn \in [Pairing!Conns -> Task] /\ conn[k] \in Task
    BY <1>1 DEF PairingTyped
  <2>2. [conn[k] EXCEPT !.closed = TRUE] \in Task
    BY <2>1 DEF Task
  <2> QED
    BY <1>1, <1>2, <2>1, <2>2
<1>5. held' \in [Pairing!Clients -> [conn : 0..MaxConns, token : 0..MaxConns]]
  <2>1. 0 \in 0..MaxConns
    BY PairingSizes
  <2> QED
    BY <1>2, <2>1 DEF PairingTyped
<1> QED
  BY <1>2, <1>3, <1>4, <1>5, RolesStay, InboxesStay DEF PairingTyped, GuessesCounted

LEMMA ExpireStep == ASSUME PairingInv, Pairing!Expire PROVE PairingInv'
<1> USE DEF PairingInv, Pairing!Expire
<1>1. pairing' \in [failures : Nat, locked : BOOLEAN, expired : BOOLEAN]
      /\ pairing'.failures = pairing.failures /\ pairing'.locked = pairing.locked
  BY DEF PairingTyped
<1> QED
  BY <1>1, RolesStay, InboxesStay DEF PairingTyped, GuessesCounted

\* A connection that gets its role will register, and until then the role has
\* the sender it had.
LEMMA Registering ==
  ASSUME PairingInv, NEW k \in Pairing!Conns, NEW r \in Pairing!Roles,
         conn[k].at \in {"token", "code"}, conn'[k].role = r, conn'[k].at = "register",
         \A j \in Pairing!Conns \ {k} : conn'[j] = conn[j],
         hubSlot'[r].connected, \A p \in Pairing!Roles \ {r} : hubSlot'[p] = hubSlot[p],
         UNCHANGED <<gen, outbound>>
  PROVE  Senders'
<1> USE DEF PairingInv
<1>1. \A p \in Pairing!Roles : outbound[p] # 0 => outbound[p] \in Pairing!Conns
  BY PairingSizes DEF PairingTyped, Pairing!Conns
<1>2. \A p \in Pairing!Roles : outbound'[p] # 0 => conn'[outbound'[p]].at \in Past
  BY <1>1 DEF Senders, Past
<1>3. conn[k].role = "none" /\ "none" \notin Pairing!Roles
  BY DEF Generations, Roleless, Pairing!Roles
<1>4. ASSUME NEW p \in Pairing!Roles, NEW j \in Pairing!Conns, conn'[j].role = p, conn'[j].gen = gen'[p],
             conn'[j].at \in {"reply", "loop"}
      PROVE  outbound'[p] = j /\ hubSlot'[p].connected
  BY <1>4 DEF Senders, Pairing!NewestKeepsOutbound
<1>5. ASSUME NEW p \in Pairing!Roles, hubSlot'[p].connected
      PROVE  outbound'[p] # 0 \/ \E j \in Pairing!Conns : conn'[j].role = p /\ conn'[j].at = "register"
  BY <1>3, <1>5 DEF Senders, Pairing!NewestKeepsOutbound
<1> QED
  BY <1>2, <1>4, <1>5 DEF Senders, Pairing!NewestKeepsOutbound

LEMMA AcceptTokenStep ==
  ASSUME PairingInv, NEW k \in Pairing!Conns, Pairing!AcceptToken(k)
  PROVE  PairingInv'
<1> USE DEF PairingInv
<1> DEFINE r == Pairing!RoleOf(conn[k].who)
<1> DEFINE q == [i \in DOMAIN events |-> i]
<1>1. /\ conn[k].at = "token"
      /\ hubSlot' = [hubSlot EXCEPT ![r].connected = TRUE]
      /\ conn' = [conn EXCEPT ![k].role = r, ![k].at = "register", ![k].replay = q]
      /\ UNCHANGED <<pairing, gen, outbound, events, guesses, held, inbox>>
  BY DEF Pairing!AcceptToken
<1>2. r \in Pairing!Roles
  BY DEF Pairing!RoleOf, Pairing!Roles
<1>3. q \in Seq(Nat) /\ Within(q, Len(events)) /\ Apart(q)
  BY DEF PairingTyped, Within, Apart
<1> HIDE DEF r, q
<1>4. /\ conn' \in [Pairing!Conns -> Task]
      /\ conn'[k].role = r /\ conn'[k].at = "register" /\ conn'[k].replay = q
      /\ \A j \in Pairing!Conns \ {k} : conn'[j] = conn[j]
  <2> DEFINE t == [conn[k] EXCEPT !.role = r, !.at = "register", !.replay = q]
  <2>1. conn \in [Pairing!Conns -> Task] /\ conn[k] \in Task
    BY DEF PairingTyped
  <2>2. t \in Task /\ t.role = r /\ t.at = "register" /\ t.replay = q
    BY <1>2, <1>3, <2>1 DEF Task
  <2>3. conn' = [conn EXCEPT ![k] = t]
    BY <1>1, <2>1
  <2> HIDE DEF t
  <2> QED
    BY <2>1, <2>2, <2>3
<1>5. /\ hubSlot' \in [Pairing!Roles -> [token : 0..MaxConns, connected : BOOLEAN]]
      /\ hubSlot'[r].connected
      /\ \A p \in Pairing!Roles \ {r} : hubSlot'[p] = hubSlot[p]
  BY <1>1, <1>2 DEF PairingTyped
<1>6. PairingTyped'
  BY <1>1, <1>4, <1>5 DEF PairingTyped
<1>7. Generations'
  BY <1>1, <1>2, <1>4 DEF Generations, Registered, Past, Roleless, Pairing!Roles
<1>8. Senders'
  BY <1>1, <1>2, <1>4, <1>5, Registering
<1>9. Numbered'
  BY <1>1, <1>3, <1>4 DEF Numbered, Unsent, Within, Apart
<1> QED
  BY <1>1, <1>6, <1>7, <1>8, <1>9 DEF GuessesCounted

\* A task that goes on with what it is.
LEMMA GoesTo ==
  ASSUME PairingInv, NEW k \in Pairing!Conns, NEW l \in Roleless \cup {"register"} \cup Past,
         Pairing!Goto(k, l)
  PROVE  /\ conn' \in [Pairing!Conns -> Task]
         /\ \A j \in Pairing!Conns : /\ conn'[j].role = conn[j].role /\ conn'[j].gen = conn[j].gen
                                     /\ conn'[j].replay = conn[j].replay
         /\ conn'[k].at = l /\ \A j \in Pairing!Conns \ {k} : conn'[j] = conn[j]
<1> DEFINE t == [conn[k] EXCEPT !.at = l]
<1>1. conn \in [Pairing!Conns -> Task] /\ conn[k] \in Task
  BY DEF PairingInv, PairingTyped
<1>2. /\ t \in Task /\ t.at = l /\ t.role = conn[k].role /\ t.gen = conn[k].gen
      /\ t.replay = conn[k].replay
  BY <1>1 DEF Task
<1>3. conn' = [conn EXCEPT ![k] = t]
  BY DEF Pairing!Goto
<1> HIDE DEF t
<1> QED
  BY <1>1, <1>2, <1>3

LEMMA RefuseStep ==
  ASSUME PairingInv, NEW k \in Pairing!Conns, conn[k].at \in {"code", "wrong"}, Pairing!Refuse(k),
         UNCHANGED <<gen, outbound, events, held, inbox>>
  PROVE  /\ conn' \in [Pairing!Conns -> Task] /\ hubSlot' = hubSlot
         /\ Generations' /\ Senders' /\ Numbered'
<1>1. Pairing!Goto(k, "refused") /\ hubSlot' = hubSlot /\ "refused" \in Roleless
  BY DEF Pairing!Refuse, Roleless
<1>2. \A j \in Pairing!Conns :
        \/ conn'[j].at = conn[j].at
        \/ conn[j].at \in Roleless /\ conn'[j].at \in Roleless \cup {"loop"}
  BY <1>1, GoesTo DEF Roleless
<1>3. Generations' /\ Senders'
  BY <1>1, <1>2, GoesTo, RolesStay
<1>4. \A j \in Pairing!Conns : conn'[j].at \in Unsent => conn[j].at \in Unsent
  BY <1>1, GoesTo DEF Unsent
<1> QED
  BY <1>1, <1>3, <1>4, GoesTo, InboxesStay

LEMMA AcceptCodeStep ==
  ASSUME PairingInv, NEW k \in Pairing!Conns, Pairing!AcceptCode(k)
  PROVE  PairingInv'
<1> USE DEF PairingInv
<1> DEFINE r == Pairing!RoleOf(conn[k].who)
<1>1. r \in Pairing!Roles
  BY DEF Pairing!RoleOf, Pairing!Roles
<1>2. conn[k].at \in {"code", "wrong"} /\ UNCHANGED <<gen, outbound, events, held, inbox>>
  BY DEF Pairing!AcceptCode
<1>3. CASE Pairing!Refuse(k) /\ UNCHANGED <<pairing, guesses>>
  BY <1>2, <1>3, RefuseStep DEF PairingTyped, GuessesCounted
<1>4. CASE /\ Pairing!Refuse(k) /\ ~ pairing.locked /\ guesses' = guesses + 1
           /\ pairing' = [pairing EXCEPT !.failures = @ + 1, !.locked = Pairing!Locks(pairing.failures + 1)]
  <2>1. /\ pairing' \in [failures : Nat, locked : BOOLEAN, expired : BOOLEAN]
        /\ pairing'.failures = pairing.failures + 1
        /\ pairing'.locked = (pairing.failures + 1 >= MaxFailures)
    <3> DEFINE n == pairing.failures + 1
    <3> DEFINE b == n >= MaxFailures
    <3>1. n \in Nat /\ b \in BOOLEAN
      BY DEF PairingTyped
    <3>2. pairing' = [pairing EXCEPT !.failures = n, !.locked = b]
      BY <1>4 DEF Pairing!Locks
    <3> HIDE DEF n, b
    <3>3. pairing' \in [failures : Nat, locked : BOOLEAN, expired : BOOLEAN]
          /\ pairing'.failures = n /\ pairing'.locked = b
      BY <3>1, <3>2 DEF PairingTyped
    <3> QED
      BY <3>3 DEF n, b
  <2>2. GuessesCounted'
    <3>1. guesses < MaxFailures /\ guesses = pairing.failures
      BY <1>4 DEF GuessesCounted
    <3>2. guesses + 1 = pairing'.failures
      BY <1>4, <2>1, <3>1
    <3>3. guesses \in Nat /\ MaxFailures \in Nat
      BY PairingSizes DEF PairingTyped
    <3>4. guesses' <= MaxFailures /\ (~ pairing'.locked => guesses' < MaxFailures)
      <4>1. ~ pairing'.locked => ~ (pairing.failures + 1 >= MaxFailures)
        BY <2>1, Zenon
      <4> QED
        BY <1>4, <3>1, <3>3, <4>1
    <3> QED
      BY <1>4, <3>2, <3>4 DEF GuessesCounted
  <2> QED
    BY <1>2, <1>4, <2>1, <2>2, RefuseStep DEF PairingTyped
<1>5. CASE /\ conn[k].at = "code" /\ UNCHANGED <<pairing, guesses>>
           /\ hubSlot' = [hubSlot EXCEPT ![r] = [token |-> k, connected |-> TRUE]]
           /\ conn' = [conn EXCEPT ![k].role = r, ![k].at = "register"]
  <2> DEFINE t == [conn[k] EXCEPT !.role = r, !.at = "register"]
  <2>1. conn \in [Pairing!Conns -> Task] /\ conn[k] \in Task
    BY DEF PairingTyped
  <2>2. t \in Task /\ t.role = r /\ t.at = "register" /\ t.replay = conn[k].replay
    BY <1>1, <2>1 DEF Task
  <2>3. conn' = [conn EXCEPT ![k] = t]
    BY <1>5, <2>1
  <2> HIDE DEF t, r
  <2>4. /\ conn' \in [Pairing!Conns -> Task]
        /\ conn'[k].role = r /\ conn'[k].at = "register" /\ conn'[k].replay = conn[k].replay
        /\ \A j \in Pairing!Conns \ {k} : conn'[j] = conn[j]
    BY <2>1, <2>2, <2>3
  <2>5. k \in 0..MaxConns
    BY PairingSizes DEF Pairing!Conns
  <2>6. /\ hubSlot' \in [Pairing!Roles -> [token : 0..MaxConns, connected : BOOLEAN]]
        /\ hubSlot'[r].connected
        /\ \A p \in Pairing!Roles \ {r} : hubSlot'[p] = hubSlot[p]
    BY <1>1, <1>5, <2>5 DEF PairingTyped
  <2>7. PairingTyped'
    BY <1>2, <1>5, <2>4, <2>6 DEF PairingTyped
  <2>8. Generations'
    BY <1>1, <1>2, <1>5, <2>4 DEF Generations, Registered, Past, Roleless, Pairing!Roles
  <2>9. Senders'
    BY <1>1, <1>2, <1>5, <2>4, <2>6, Registering
  <2>10. \A j \in Pairing!Conns : conn'[j].replay = conn[j].replay /\ (conn'[j].at \in Unsent => conn[j].at \in Unsent)
    BY <1>5, <2>4 DEF Unsent
  <2> QED
    BY <1>2, <1>5, <2>7, <2>8, <2>9, <2>10, InboxesStay DEF GuessesCounted
<1> QED
  BY <1>3, <1>4, <1>5 DEF Pairing!AcceptCode

LEMMA RegisterStep ==
  ASSUME PairingInv, NEW k \in Pairing!Conns, Pairing!Register(k)
  PROVE  PairingInv'
<1> USE DEF PairingInv
<1> DEFINE r == conn[k].role
<1> DEFINE n == gen[r] + 1
<1>1. /\ conn[k].at = "register"
      /\ gen' = [gen EXCEPT ![r] = n] /\ outbound' = [outbound EXCEPT ![r] = k]
      /\ hubSlot' = [hubSlot EXCEPT ![r].connected = TRUE]
      /\ conn' = [conn EXCEPT ![k].at = "reply", ![k].gen = n]
      /\ UNCHANGED <<pairing, events, guesses, held, inbox>>
  BY DEF Pairing!Register
<1>2. r \in Pairing!Roles
  BY <1>1 DEF PairingTyped, Task, Generations
<1>3. n \in Nat /\ n > gen[r]
  BY <1>2 DEF PairingTyped
<1>4. /\ conn' \in [Pairing!Conns -> Task]
      /\ conn'[k].role = r /\ conn'[k].at = "reply" /\ conn'[k].gen = n
      /\ conn'[k].replay = conn[k].replay
      /\ \A j \in Pairing!Conns \ {k} : conn'[j] = conn[j]
  <2> DEFINE t == [conn[k] EXCEPT !.at = "reply", !.gen = n]
  <2>1. conn \in [Pairing!Conns -> Task] /\ conn[k] \in Task
    BY DEF PairingTyped
  <2> HIDE DEF n
  <2>2. t \in Task /\ t.role = r /\ t.at = "reply" /\ t.gen = n /\ t.replay = conn[k].replay
    BY <1>3, <2>1 DEF Task, Past
  <2>3. conn' = [conn EXCEPT ![k] = t]
    BY <1>1, <2>1
  <2> HIDE DEF t, r
  <2> QED
    BY <2>1, <2>2, <2>3
<1> HIDE DEF n
<1>5. /\ hubSlot' \in [Pairing!Roles -> [token : 0..MaxConns, connected : BOOLEAN]]
      /\ hubSlot'[r].connected
      /\ \A p \in Pairing!Roles \ {r} : hubSlot'[p] = hubSlot[p]
  BY <1>1, <1>2, ZenonT(40) DEF PairingTyped
<1>6. /\ gen' \in [Pairing!Roles -> Nat] /\ gen'[r] = n
      /\ outbound' \in [Pairing!Roles -> 0..MaxConns] /\ outbound'[r] = k
      /\ \A p \in Pairing!Roles \ {r} : gen'[p] = gen[p] /\ outbound'[p] = outbound[p]
  <2>1. k \in 0..MaxConns
    BY PairingSizes DEF Pairing!Conns
  <2> QED
    BY <1>1, <1>2, <1>3, <2>1 DEF PairingTyped
<1>7. PairingTyped'
  BY <1>1, <1>4, <1>5, <1>6 DEF PairingTyped
<1> HIDE DEF r
<1>8. /\ r = conn[k].role /\ \A j \in Pairing!Conns, p \in Pairing!Roles : Registered(j, p) => j # k
      /\ \A j \in Pairing!Conns, p \in Pairing!Roles : Registered(j, p)' <=> (j = k /\ p = r) \/ Registered(j, p)
  BY <1>1, <1>4 DEF Registered, Past, r
<1>9. Generations'
  <2>1. \A j \in Pairing!Conns : /\ conn'[j].at \in Roleless => conn'[j].role = "none"
                                 /\ conn'[j].at \in {"register", "reply"} => conn'[j].role # "none"
    BY <1>2, <1>4 DEF Generations, Roleless, Pairing!Roles
  <2>2. \A j \in Pairing!Conns : conn[j].gen \in Nat
    BY DEF PairingTyped, Task
  <2>3. \A p \in Pairing!Roles : gen[p] \in Nat
    BY DEF PairingTyped
  <2>4. ASSUME NEW p \in Pairing!Roles, NEW j \in Pairing!Conns, Registered(j, p)'
        PROVE  conn'[j].gen <= gen'[p]
    BY <1>2, <1>3, <1>4, <1>6, <1>8, <2>2, <2>3, <2>4 DEF Generations
  <2>5. ASSUME NEW p \in Pairing!Roles, NEW j \in Pairing!Conns, NEW i \in Pairing!Conns,
               Registered(j, p)', Registered(i, p)', conn'[i].gen = conn'[j].gen
        PROVE  i = j
    BY <1>2, <1>3, <1>4, <1>6, <1>8, <2>2, <2>3, <2>5 DEF Generations
  <2> QED
    BY <2>1, <2>4, <2>5 DEF Generations
<1>10. Senders'
  <2>1. \A p \in Pairing!Roles : outbound[p] # 0 => outbound[p] \in Pairing!Conns
    BY PairingSizes DEF PairingTyped, Pairing!Conns
  <2>2. \A p \in Pairing!Roles : outbound'[p] # 0 => conn'[outbound'[p]].at \in Past
    BY <1>1, <1>4, <1>6, <2>1 DEF Senders, Past
  <2>3. ASSUME NEW p \in Pairing!Roles, NEW j \in Pairing!Conns, conn'[j].role = p, conn'[j].gen = gen'[p],
               conn'[j].at \in {"reply", "loop"}
        PROVE  outbound'[p] = j /\ hubSlot'[p].connected
    <3>1. CASE p = r
      <4>1. j = k
        <5>1. j # k => Registered(j, r) /\ conn[j].gen = n
          BY <1>4, <1>6, <2>3, <3>1 DEF Registered, Past
        <5>2. Registered(j, r) => conn[j].gen <= gen[r] /\ conn[j].gen \in Nat /\ gen[r] \in Nat
          BY <1>2 DEF Generations, PairingTyped, Task
        <5> QED
          BY <1>3, <5>1, <5>2
      <4> QED
        BY <1>5, <1>6, <3>1, <4>1
    <3>2. CASE p # r
      BY <1>4, <1>5, <1>6, <2>3, <3>2 DEF Senders, Pairing!NewestKeepsOutbound
    <3> QED
      BY <3>1, <3>2
  <2>4. ASSUME NEW p \in Pairing!Roles, hubSlot'[p].connected
        PROVE  outbound'[p] # 0 \/ \E j \in Pairing!Conns : conn'[j].role = p /\ conn'[j].at = "register"
    <3>1. k # 0
      BY PairingSizes DEF Pairing!Conns
    <3> QED
      BY <1>4, <1>5, <1>6, <1>8, <2>4, <3>1 DEF Senders, Pairing!NewestKeepsOutbound
  <2> QED
    BY <2>2, <2>3, <2>4 DEF Senders, Pairing!NewestKeepsOutbound
<1>11. \A j \in Pairing!Conns : conn'[j].replay = conn[j].replay /\ (conn'[j].at \in Unsent => conn[j].at \in Unsent)
  BY <1>4 DEF Unsent
<1> QED
  BY <1>1, <1>7, <1>9, <1>10, <1>11, InboxesStay DEF GuessesCounted

\* The replay is queued behind what the connection has been sent since it registered.
LEMMA ReplyStep ==
  ASSUME PairingInv, NEW k \in Pairing!Conns, Pairing!Reply(k)
  PROVE  PairingInv'
<1> USE DEF PairingInv
<1> DEFINE c == conn[k].who
<1> DEFINE q == conn[k].replay
<1>1. /\ conn[k].at = "reply" /\ conn' = [conn EXCEPT ![k].at = "loop", ![k].replay = <<>>]
      /\ inbox' = [inbox EXCEPT ![k] = inbox[k] \o q]
      /\ held' = IF held[c].conn = k THEN [held EXCEPT ![c].token = hubSlot[conn[k].role].token] ELSE held
      /\ UNCHANGED <<pairing, hubSlot, gen, outbound, events, guesses>>
  BY DEF Pairing!Reply, Pairing!ReplayOf, Pairing!hubVars
<1>2. q \in Seq(Nat) /\ inbox[k] \in Seq(Nat)
  BY DEF PairingTyped, Task
<1>3. conn[k].role \in Pairing!Roles
  BY <1>1 DEF PairingTyped, Task, Generations
<1>4. /\ conn' \in [Pairing!Conns -> Task] /\ conn'[k].at = "loop" /\ conn'[k].replay = <<>>
      /\ conn'[k].role = conn[k].role /\ conn'[k].gen = conn[k].gen
      /\ \A j \in Pairing!Conns \ {k} : conn'[j] = conn[j]
  <2> DEFINE t == [conn[k] EXCEPT !.at = "loop", !.replay = <<>>]
  <2>1. conn \in [Pairing!Conns -> Task] /\ conn[k] \in Task
    BY DEF PairingTyped
  <2>2. t \in Task /\ t.role = conn[k].role /\ t.at = "loop" /\ t.gen = conn[k].gen /\ t.replay = <<>>
    <3>1. <<>> \in Seq(Nat) /\ "loop" \in Past
      BY DEF Past
    <3> DEFINE e == <<>>
    <3> HIDE DEF e
    <3>2. e \in Seq(Nat) => /\ [conn[k] EXCEPT !.at = "loop", !.replay = e] \in Task
                            /\ [conn[k] EXCEPT !.at = "loop", !.replay = e].replay = e
      BY <2>1, <3>1 DEF Task
    <3>3. t \in Task /\ t.replay = <<>>
      BY <3>1, <3>2 DEF e
    <3>4. t.role = conn[k].role /\ t.at = "loop" /\ t.gen = conn[k].gen
      BY <2>1 DEF Task
    <3> QED
      BY <3>3, <3>4
  <2>3. conn' = [conn EXCEPT ![k] = t]
    BY <1>1, <2>1
  <2> HIDE DEF t
  <2> QED
    BY <2>1, <2>2, <2>3
<1>5. held' \in [Pairing!Clients -> [conn : 0..MaxConns, token : 0..MaxConns]]
  <2>1. hubSlot[conn[k].role].token \in 0..MaxConns
    BY <1>3 DEF PairingTyped
  <2> HIDE DEF c
  <2> QED
    BY <1>1, <2>1 DEF PairingTyped
<1>6. Generations' /\ Senders'
  BY <1>1, <1>4, RolesStay
<1> HIDE DEF q
<1>7. inbox' \in [Pairing!Conns -> Seq(Nat)] /\ inbox'[k] = inbox[k] \o q
      /\ \A j \in Pairing!Conns \ {k} : inbox'[j] = inbox[j]
  BY <1>1, <1>2, SMTT(30) DEF PairingTyped
<1>8. /\ Within(q, Len(events)) /\ Within(inbox[k], Len(events)) /\ Apart(q) /\ Apart(inbox[k])
      /\ \A i \in DOMAIN inbox[k], j \in DOMAIN q : inbox[k][i] # q[j]
  BY DEF Numbered, q
<1>9. Apart(inbox[k] \o q) /\ Within(inbox[k] \o q, Len(events))
  <2>1. Within(inbox[k] \o q, Len(events))
    BY <1>2, <1>8 DEF Within
  <2> QED
    BY <1>2, <1>8, <2>1, Joined
<1>10. Numbered'
  <2> SUFFICES ASSUME NEW i \in Pairing!Conns
               PROVE  /\ Within(inbox'[i], Len(events')) /\ Within(conn'[i].replay, Len(events'))
                      /\ Apart(inbox'[i]) /\ Apart(conn'[i].replay)
                      /\ \A m \in DOMAIN inbox'[i], n \in DOMAIN conn'[i].replay :
                           inbox'[i][m] # conn'[i].replay[n]
                      /\ conn'[i].at \in Unsent => inbox'[i] = <<>>
    BY DEF Numbered
  <2>1. CASE i = k
    BY <1>1, <1>4, <1>7, <1>9, <2>1 DEF Within, Apart, Unsent
  <2>2. CASE i # k
    BY <1>1, <1>4, <1>7, <2>2 DEF Numbered, Within, Apart, Unsent
  <2> QED
    BY <2>1, <2>2
<1> QED
  BY <1>1, <1>4, <1>5, <1>6, <1>7, <1>10 DEF PairingTyped, GuessesCounted

LEMMA ReplyRefusedStep ==
  ASSUME PairingInv, NEW k \in Pairing!Conns, Pairing!ReplyRefused(k)
  PROVE  PairingInv'
<1> USE DEF PairingInv
<1>1. /\ conn[k].at = "refused" /\ Pairing!Goto(k, "loop") /\ "loop" \in Past
      /\ UNCHANGED <<pairing, hubSlot, gen, outbound, events, guesses, held, inbox>>
  BY DEF Pairing!ReplyRefused, Pairing!hubVars, Past
<1>2. \A j \in Pairing!Conns :
        /\ \/ conn'[j].at = conn[j].at
           \/ conn[j].at \in Roleless /\ conn'[j].at \in Roleless \cup {"loop"}
        /\ conn'[j].at \in Unsent => conn[j].at \in Unsent
  BY <1>1, GoesTo DEF Roleless, Unsent
<1>3. Generations' /\ Senders' /\ Numbered'
  BY <1>1, <1>2, GoesTo, RolesStay, InboxesStay
<1> QED
  BY <1>1, <1>3, GoesTo DEF PairingTyped, GuessesCounted

\* Only the newest connection of a role takes the sender with it.
LEMMA EndStep ==
  ASSUME PairingInv, NEW k \in Pairing!Conns, Pairing!End(k)
  PROVE  PairingInv'
<1> USE DEF PairingInv
<1> DEFINE r == conn[k].role
<1>1. /\ conn[k].at = "loop" /\ Pairing!Goto(k, "ended") /\ "ended" \in Past
      /\ UNCHANGED <<pairing, gen, events, guesses, held, inbox>>
  BY DEF Pairing!End, Past
<1>2. \/ (r = "none" \/ gen[r] # conn[k].gen) /\ UNCHANGED <<outbound, hubSlot>>
      \/ /\ r # "none" /\ gen[r] = conn[k].gen
         /\ outbound' = [outbound EXCEPT ![r] = 0]
         /\ hubSlot' = [hubSlot EXCEPT ![r].connected = FALSE]
  BY DEF Pairing!End, Pairing!IsNewest
<1>3. r \in Pairing!Roles \cup {"none"} /\ "none" \notin Pairing!Roles
  BY DEF PairingTyped, Task, Pairing!Roles
<1>4. /\ conn' \in [Pairing!Conns -> Task]
      /\ \A j \in Pairing!Conns : /\ conn'[j].role = conn[j].role /\ conn'[j].gen = conn[j].gen
                                  /\ conn'[j].replay = conn[j].replay
      /\ conn'[k].at = "ended" /\ \A j \in Pairing!Conns \ {k} : conn'[j] = conn[j]
  BY <1>1, GoesTo
<1>5. \A j \in Pairing!Conns : conn'[j].at \in Unsent => conn[j].at \in Unsent
  BY <1>4 DEF Unsent
<1>6. Numbered'
  BY <1>1, <1>4, <1>5, InboxesStay
<1>7. \A j \in Pairing!Conns, p \in Pairing!Roles : Registered(j, p)' <=> Registered(j, p)
  BY <1>1, <1>4 DEF Registered, Past
<1>8. Generations'
  BY <1>1, <1>4, <1>7 DEF Generations, Roleless
<1>9. /\ hubSlot' \in [Pairing!Roles -> [token : 0..MaxConns, connected : BOOLEAN]]
      /\ outbound' \in [Pairing!Roles -> 0..MaxConns]
      /\ \A p \in Pairing!Roles \ {r} : outbound'[p] = outbound[p] /\ hubSlot'[p] = hubSlot[p]
      /\ r \in Pairing!Roles => \/ gen[r] # conn[k].gen /\ outbound' = outbound /\ hubSlot' = hubSlot
                                \/ gen[r] = conn[k].gen /\ outbound'[r] = 0 /\ ~ hubSlot'[r].connected
  <2>1. 0 \in 0..MaxConns
    BY PairingSizes
  <2>2. hubSlot \in [Pairing!Roles -> [token : 0..MaxConns, connected : BOOLEAN]]
        /\ outbound \in [Pairing!Roles -> 0..MaxConns]
    BY DEF PairingTyped
  <2> HIDE DEF PairingInv, r
  <2>3. CASE (r = "none" \/ gen[r] # conn[k].gen) /\ UNCHANGED <<outbound, hubSlot>>
    <3>1. outbound' = outbound /\ hubSlot' = hubSlot
      BY <2>3
    <3>2. r \in Pairing!Roles => gen[r] # conn[k].gen
      BY <1>3, <2>3
    <3>3. /\ hubSlot' \in [Pairing!Roles -> [token : 0..MaxConns, connected : BOOLEAN]]
          /\ outbound' \in [Pairing!Roles -> 0..MaxConns]
      BY <2>2, <3>1, Zenon
    <3>4. \A p \in Pairing!Roles \ {r} : outbound'[p] = outbound[p] /\ hubSlot'[p] = hubSlot[p]
      BY <3>1, Zenon
    <3>5. r \in Pairing!Roles => gen[r] # conn[k].gen /\ outbound' = outbound /\ hubSlot' = hubSlot
      BY <3>1, <3>2, Zenon
    <3> QED
      BY <3>3, <3>4, <3>5, Zenon
  <2>4. CASE /\ r # "none" /\ gen[r] = conn[k].gen
             /\ outbound' = [outbound EXCEPT ![r] = 0]
             /\ hubSlot' = [hubSlot EXCEPT ![r].connected = FALSE]
    <3>1. r \in Pairing!Roles
      BY <1>3, <2>4
    <3>2. /\ outbound' \in [Pairing!Roles -> 0..MaxConns] /\ outbound'[r] = 0
          /\ \A p \in Pairing!Roles \ {r} : outbound'[p] = outbound[p]
      BY <2>1, <2>2, <2>4, <3>1
    <3>3. /\ hubSlot' \in [Pairing!Roles -> [token : 0..MaxConns, connected : BOOLEAN]]
          /\ ~ hubSlot'[r].connected
          /\ \A p \in Pairing!Roles \ {r} : hubSlot'[p] = hubSlot[p]
      BY <2>2, <2>4, <3>1
    <3> QED
      BY <2>4, <3>1, <3>2, <3>3
  <2> QED
    BY <1>2, <2>3, <2>4
<1>10. Senders'
  <2>1. \A p \in Pairing!Roles : outbound[p] # 0 => outbound[p] \in Pairing!Conns
    BY PairingSizes DEF PairingTyped, Pairing!Conns
  <2>2. \A j \in Pairing!Conns : conn[j].at \in Past => conn'[j].at \in Past
    BY <1>1, <1>4
  <2>3. \A p \in Pairing!Roles : outbound'[p] # 0 => outbound'[p] = outbound[p]
    BY <1>3, <1>9
  <2>4. \A p \in Pairing!Roles : outbound'[p] # 0 => conn'[outbound'[p]].at \in Past
    BY <2>1, <2>2, <2>3 DEF Senders
  <2>5. ASSUME NEW p \in Pairing!Roles, NEW j \in Pairing!Conns, conn'[j].role = p, conn'[j].gen = gen'[p],
               conn'[j].at \in {"reply", "loop"}
        PROVE  outbound'[p] = j /\ hubSlot'[p].connected
    <3>1. j # k /\ conn[j].at \in {"reply", "loop"} /\ conn[j].role = p /\ conn[j].gen = gen[p]
      BY <1>1, <1>4, <2>5
    <3>2. outbound[p] = j /\ hubSlot[p].connected
      BY <3>1 DEF Senders, Pairing!NewestKeepsOutbound
    <3>3. p = r => gen[r] # conn[k].gen
      BY <1>1, <3>1 DEF Generations, Registered, Past
    <3> QED
      BY <1>9, <3>2, <3>3
  <2>6. ASSUME NEW p \in Pairing!Roles, hubSlot'[p].connected
        PROVE  outbound'[p] # 0 \/ \E j \in Pairing!Conns : conn'[j].role = p /\ conn'[j].at = "register"
    <3>1. outbound'[p] = outbound[p] /\ hubSlot'[p] = hubSlot[p]
      BY <1>9, <2>6
    <3>2. \A j \in Pairing!Conns : conn[j].at = "register" => conn'[j] = conn[j]
      BY <1>1, <1>4
    <3> QED
      BY <2>6, <3>1, <3>2 DEF Senders, Pairing!NewestKeepsOutbound
  <2> QED
    BY <2>4, <2>5, <2>6 DEF Senders, Pairing!NewestKeepsOutbound
<1> QED
  BY <1>1, <1>4, <1>6, <1>8, <1>9, <1>10 DEF PairingTyped, GuessesCounted

\* A new event is one that nobody has been sent and no replay holds.
LEMMA StoreStep ==
  ASSUME PairingInv, NEW e \in Pairing!Kinds, NEW to \in SUBSET Pairing!Conns, Pairing!Store(e, to),
         \A j \in to : conn[j].at \in Past,
         UNCHANGED <<pairing, hubSlot, gen, outbound, guesses, conn, held>>
  PROVE  PairingInv'
<1> USE DEF PairingInv
<1> DEFINE n == Len(events) + 1
<1>1. events' \in Seq(Pairing!Kinds) /\ Len(events') = n /\ n \in Nat
  BY DEF Pairing!Store, PairingTyped
<1>2. \A j \in Pairing!Conns : inbox[j] \in Seq(Nat) /\ conn[j].replay \in Seq(Nat)
  BY DEF PairingTyped, Task
<1>3. inbox' = [j \in Pairing!Conns |-> IF j \in to THEN Append(inbox[j], n) ELSE inbox[j]]
  BY DEF Pairing!Store
<1>4. inbox' \in [Pairing!Conns -> Seq(Nat)]
  BY <1>1, <1>2, <1>3
<1>5. Generations' /\ Senders'
  BY RolesStay
<1>6. Numbered'
  <2> SUFFICES ASSUME NEW j \in Pairing!Conns
               PROVE  /\ Within(inbox'[j], Len(events')) /\ Within(conn'[j].replay, Len(events'))
                      /\ Apart(inbox'[j]) /\ Apart(conn'[j].replay)
                      /\ \A a \in DOMAIN inbox'[j], b \in DOMAIN conn'[j].replay :
                           inbox'[j][a] # conn'[j].replay[b]
                      /\ conn'[j].at \in Unsent => inbox'[j] = <<>>
    BY DEF Numbered
  <2>1. /\ Within(inbox[j], Len(events)) /\ Within(conn[j].replay, Len(events)) /\ Apart(inbox[j]) /\ Apart(conn[j].replay)
        /\ \A a \in DOMAIN inbox[j], b \in DOMAIN conn[j].replay : inbox[j][a] # conn[j].replay[b]
        /\ conn[j].at \in Unsent => inbox[j] = <<>>
    BY DEF Numbered
  <2>2. Len(events) \in Nat /\ Len(events') = Len(events) + 1
    BY <1>1 DEF PairingTyped
  <2>3. Within(conn'[j].replay, Len(events'))
    BY <1>2, <2>1, <2>2 DEF Within
  <2>4. CASE j \in to
    <3>1. inbox'[j] = Append(inbox[j], n)
      BY <1>3, <2>4
    <3>2. conn[j].at \notin Unsent
      BY <2>4 DEF Past, Unsent
    <3>3. \A a \in DOMAIN inbox[j] : inbox[j][a] \in 1..Len(events)
      BY <2>1 DEF Within
    <3>4. \A a \in DOMAIN conn[j].replay : conn[j].replay[a] \in 1..Len(events)
      BY <2>1 DEF Within
    <3>5. /\ DOMAIN inbox'[j] = 1..(Len(inbox[j]) + 1) /\ inbox'[j][Len(inbox[j]) + 1] = n
          /\ DOMAIN inbox[j] = 1..Len(inbox[j]) /\ Len(inbox[j]) \in Nat
          /\ \A a \in 1..Len(inbox[j]) : inbox'[j][a] = inbox[j][a]
      BY <1>1, <1>2, <3>1
    <3>6. \A a \in DOMAIN inbox'[j] : a \in DOMAIN inbox[j] \/ a = Len(inbox[j]) + 1
      BY <3>5
    <3>7. Within(inbox'[j], Len(events'))
      BY <2>2, <3>3, <3>5, <3>6 DEF Within
    <3>8. \A a \in DOMAIN inbox[j] : inbox[j][a] # n
      BY <2>2, <3>3
    <3>9. \A a \in DOMAIN conn[j].replay : conn[j].replay[a] # n
      BY <2>2, <3>4
    <3> HIDE DEF n, PairingInv
    <3>10. Apart(inbox'[j])
      BY <2>1, <3>5, <3>6, <3>8, SMTT(30) DEF Apart
    <3>11. \A a \in DOMAIN inbox'[j], b \in DOMAIN conn[j].replay : inbox'[j][a] # conn[j].replay[b]
      BY <2>1, <3>5, <3>6, <3>9
    <3> QED
      BY <2>1, <2>3, <3>2, <3>7, <3>10, <3>11 DEF Apart
  <2>5. CASE j \notin to
    <3>1. inbox'[j] = inbox[j]
      BY <1>3, <2>5
    <3>2. Within(inbox'[j], Len(events'))
      BY <2>1, <2>2, <3>1 DEF Within
    <3> QED
      BY <2>1, <2>3, <3>1, <3>2
  <2> QED
    BY <2>4, <2>5
<1> QED
  BY <1>1, <1>4, <1>5, <1>6 DEF PairingTyped, GuessesCounted

\* Every event of the hub is stored for its sender and for the newest of a role.
LEMMA SendersAreConns ==
  ASSUME PairingInv, NEW r \in Pairing!Roles
  PROVE  /\ Pairing!SenderOf(r) \subseteq Pairing!Conns
         /\ \A j \in Pairing!SenderOf(r) : conn[j].at \in Past
  BY PairingSizes DEF PairingInv, PairingTyped, Senders, Pairing!SenderOf, Pairing!Conns

LEMMA HubStep ==
  ASSUME PairingInv,
         \/ \E k \in Pairing!Conns, o \in Origins : Pairing!PageState(k, o) \/ Pairing!AllowOrigin(k, o)
         \/ \E k \in Pairing!Conns : Pairing!ChatMessage(k) \/ Pairing!InboundCancel(k)
         \/ \E k \in Pairing!Conns, a \in BOOLEAN : Pairing!HumanConfirm(k, a)
         \/ Pairing!SendRequest
         \/ \E ok \in BOOLEAN : Pairing!NoteExport(ok)
  PROVE  PairingInv'
<1>1. {"page_state", "chat_message", "human_confirm", "cancel", "action_request", "export_result"}
        \subseteq Pairing!Kinds
  BY DEF Pairing!Kinds
<1>2. "loop" \in Past /\ "worker" \in Pairing!Roles
  BY DEF Past, Pairing!Roles
<1>3. ASSUME NEW k \in Pairing!Conns, NEW o \in Origins, Pairing!PageState(k, o)
      PROVE  PairingInv'
  <2>1. {k} \in SUBSET Pairing!Conns /\ \A j \in {k} : conn[j].at \in Past
    BY <1>2, <1>3 DEF Pairing!PageState
  <2> QED
    BY <1>1, <1>3, <2>1, StoreStep DEF Pairing!PageState
<1>4. ASSUME NEW k \in Pairing!Conns, NEW o \in Origins, Pairing!AllowOrigin(k, o)
      PROVE  PairingInv'
  BY <1>4, RolesStay, InboxesStay DEF Pairing!AllowOrigin, PairingInv, PairingTyped, GuessesCounted
<1>5. ASSUME NEW k \in Pairing!Conns, NEW e \in Pairing!Kinds, NEW m, Pairing!Says(k, e, m)
      PROVE  PairingInv'
  <2>1. {k} \in SUBSET Pairing!Conns /\ \A j \in {k} : conn[j].at \in Past
    BY <1>2, <1>5 DEF Pairing!Says, Pairing!Hears
  <2> QED
    BY <1>5, <2>1, StoreStep DEF Pairing!Says
<1>6. ASSUME NEW k \in Pairing!Conns, Pairing!InboundCancel(k)
      PROVE  PairingInv'
  <2>1. {k} \cup Pairing!SenderOf("worker") \in SUBSET Pairing!Conns
        /\ \A j \in {k} \cup Pairing!SenderOf("worker") : conn[j].at \in Past
    BY <1>2, <1>6, SendersAreConns DEF Pairing!InboundCancel, Pairing!Hears
  <2> QED
    BY <1>1, <1>6, <2>1, StoreStep DEF Pairing!InboundCancel
<1>7. ASSUME Pairing!SendRequest
      PROVE  PairingInv'
  BY <1>1, <1>2, <1>7, SendersAreConns, StoreStep DEF Pairing!SendRequest
<1>8. ASSUME NEW ok \in BOOLEAN, Pairing!NoteExport(ok)
      PROVE  PairingInv'
  BY <1>1, <1>8, StoreStep DEF Pairing!NoteExport
<1>9. ASSUME NEW k \in Pairing!Conns, Pairing!ChatMessage(k)
      PROVE  PairingInv'
  BY <1>1, <1>5, <1>9 DEF Pairing!ChatMessage
<1>10. ASSUME NEW k \in Pairing!Conns, NEW a \in BOOLEAN, Pairing!HumanConfirm(k, a)
      PROVE  PairingInv'
  BY <1>1, <1>5, <1>10 DEF Pairing!HumanConfirm
<1> QED
  BY <1>3, <1>4, <1>6, <1>7, <1>8, <1>9, <1>10

LEMMA PairingStep == ASSUME PairingInv, Pairing!Next PROVE PairingInv'
BY ConnectStep, LeaveStep, ExpireStep, AcceptTokenStep, AcceptCodeStep, RegisterStep, ReplyStep,
   ReplyRefusedStep, EndStep, HubStep DEF Pairing!Next

LEMMA PairingStill == ASSUME PairingInv, UNCHANGED pairingVars PROVE PairingInv'
<1>1. /\ pairing' = pairing /\ hubSlot' = hubSlot /\ gen' = gen /\ outbound' = outbound /\ conn' = conn
      /\ held' = held /\ inbox' = inbox /\ events' = events /\ guesses' = guesses
  BY DEF pairingVars
<1>2. Generations' /\ Senders'
  BY <1>1, RolesStay
<1>3. Numbered'
  BY <1>1, InboxesStay
<1> QED
  BY <1>1, <1>2, <1>3 DEF PairingInv, PairingTyped, GuessesCounted

\* A sequence without repetition has as many elements as places.
LEMMA AsManyAsPlaces ==
  ASSUME NEW s \in Seq(Nat), Apart(s)
  PROVE  Cardinality({s[i] : i \in DOMAIN s}) = Len(s)
<1> DEFINE D == 1..Len(s)
<1> DEFINE T == {s[i] : i \in DOMAIN s}
<1> DEFINE f == [i \in D |-> s[i]]
<1>1. D = DOMAIN s /\ Len(s) \in Nat
  OBVIOUS
<1>2. f \in [D -> T] /\ \A t \in T : \E i \in D : f[i] = t
  BY <1>1
<1>3. \A i, j \in D : f[i] = f[j] => i = j
  BY <1>1 DEF Apart
<1>4. f \in Bijection(D, T)
  BY <1>2, <1>3 DEF Bijection, Injection, Surjection, IsInjective
<1>5. ExistsBijection(D, T)
  BY <1>4 DEF ExistsBijection
<1>6. IsFiniteSet(D) /\ Cardinality(D) = Len(s)
  BY <1>1, FS_Interval, SMTT(30)
<1> QED
  BY <1>5, <1>6, FS_Bijection

LEMMA PairingCounts == \A S : Pairing!Cardinality(S) = Cardinality(S)
  BY DEF Pairing!Cardinality, Cardinality

\* What the invariant says of the hub's connections.
LEMMA PairingMeans ==
  ASSUME PairingInv
  PROVE  Pairing!NewestKeepsOutbound /\ Pairing!GuessesBounded /\ Pairing!EventOncePerConnection
<1>1. \A k \in Pairing!Conns : inbox[k] \in Seq(Nat) /\ Apart(inbox[k])
  BY DEF PairingInv, PairingTyped, Numbered
<1>2. Pairing!EventOncePerConnection
  BY <1>1, AsManyAsPlaces, PairingCounts DEF Pairing!EventOncePerConnection
<1> QED
  BY <1>2 DEF PairingInv, Senders, GuessesCounted, Pairing!GuessesBounded

\* A token of a role stays: the steps that touch a slot leave it, and the code
\* is taken by a role without one only.
LEMMA TokensStay ==
  ASSUME PairingInv, Pairing!Next \/ UNCHANGED pairingVars, NEW r \in Pairing!Roles, hubSlot[r].token # 0
  PROVE  hubSlot'[r].token = hubSlot[r].token
<1> USE DEF Pairing!hubVars
<1>1. hubSlot \in [Pairing!Roles -> [token : 0..MaxConns, connected : BOOLEAN]]
  BY DEF PairingInv, PairingTyped
<1>2. ASSUME NEW p, NEW b \in BOOLEAN, hubSlot' = [hubSlot EXCEPT ![p].connected = b]
      PROVE  hubSlot'[r].token = hubSlot[r].token
  BY <1>1, <1>2
<1>3. ASSUME NEW k \in Pairing!Conns, Pairing!AcceptToken(k) \/ Pairing!Register(k) \/ Pairing!End(k)
      PROVE  hubSlot'[r].token = hubSlot[r].token
  BY <1>2, <1>3, Zenon DEF Pairing!AcceptToken, Pairing!Register, Pairing!End
<1>4. ASSUME NEW k \in Pairing!Conns, Pairing!AcceptCode(k)
      PROVE  hubSlot'[r].token = hubSlot[r].token
  <2> DEFINE p == Pairing!RoleOf(conn[k].who)
  <2>1. \/ hubSlot' = hubSlot
        \/ hubSlot[p].token = 0 /\ hubSlot' = [hubSlot EXCEPT ![p] = [token |-> k, connected |-> TRUE]]
    BY <1>4 DEF Pairing!AcceptCode, Pairing!Refuse
  <2> HIDE DEF p
  <2>2. r # p => [hubSlot EXCEPT ![p] = [token |-> k, connected |-> TRUE]][r] = hubSlot[r]
    BY <1>1
  <2> QED
    BY <2>1, <2>2
<1>5. CASE UNCHANGED hubSlot
  BY <1>5, SMTT(30)
<1>6. Pairing!Next => UNCHANGED hubSlot \/ \E k \in Pairing!Conns :
        Pairing!AcceptToken(k) \/ Pairing!Register(k) \/ Pairing!End(k) \/ Pairing!AcceptCode(k)
  BY ZenonT(40) DEF Pairing!Next, Pairing!Connect, Pairing!Leave, Pairing!Expire, Pairing!Reply, Pairing!ReplyRefused,
         Pairing!ChatMessage, Pairing!InboundCancel, Pairing!PageState, Pairing!AllowOrigin, Pairing!HumanConfirm,
         Pairing!Says, Pairing!SendRequest, Pairing!NoteExport
<1> QED
  BY <1>3, <1>4, <1>5, <1>6 DEF pairingVars

\* Each generation of a role is that of a connection that has registered as
\* it, so there are no more than connections; what is stored has room, and the
\* session knows the origins there are.
Spent ==
  /\ \A r \in Pairing!Roles : \A n \in 1..gen[r] : \E k \in Pairing!Conns : Registered(k, r) /\ conn[k].gen = n
  /\ \A k \in Pairing!Conns : conn[k].gen = 0 \/ \E r \in Pairing!Roles : Registered(k, r)
Bounded ==
  /\ Len(events) <= MaxEvents
  /\ session \in [allow : SUBSET Origins, page : SUBSET Origins, machine : {"chat", "cancel", "acting", "error"}]
HubInv == PairingInv /\ Spent /\ Bounded

LEMMA HubInit == Pairing!Init => HubInv
<1> SUFFICES ASSUME Pairing!Init PROVE HubInv
  OBVIOUS
<1>1. Spent
  BY DEF Pairing!Init, Spent, Pairing!Idle, Pairing!Roles
<1>2. Bounded
  BY PairingSizes DEF Pairing!Init, Bounded
<1> QED
  BY <1>1, <1>2, PairingInit DEF HubInv

\* Registering is what takes a generation.
LEMMA NoneSpent ==
  ASSUME Spent, gen' = gen,
         \A j \in Pairing!Conns :
           /\ conn[j].at \in Past => conn'[j].at \in Past /\ conn'[j].role = conn[j].role /\ conn'[j].gen = conn[j].gen
           /\ conn'[j].gen \in {conn[j].gen, 0}
  PROVE  Spent'
<1>1. \A j \in Pairing!Conns, r \in Pairing!Roles : Registered(j, r) => Registered(j, r)' /\ conn'[j].gen = conn[j].gen
  BY DEF Registered
<1>2. ASSUME NEW r \in Pairing!Roles, NEW n \in 1..gen'[r]
      PROVE  \E k \in Pairing!Conns : Registered(k, r)' /\ conn'[k].gen = n
  <2>1. PICK k \in Pairing!Conns : Registered(k, r) /\ conn[k].gen = n
    BY <1>2 DEF Spent
  <2> QED
    BY <1>1, <2>1
<1>3. ASSUME NEW k \in Pairing!Conns, conn'[k].gen # 0
      PROVE  \E r \in Pairing!Roles : Registered(k, r)'
  <2>1. PICK r \in Pairing!Roles : Registered(k, r)
    BY <1>3 DEF Spent
  <2> QED
    BY <1>1, <2>1
<1> QED
  BY <1>2, <1>3 DEF Spent

LEMMA ConnectSpends ==
  ASSUME PairingInv, Spent, NEW c \in Pairing!Clients, NEW right \in BOOLEAN, Pairing!Connect(c, right)
  PROVE  Spent'
<1> DEFINE k == CHOOSE x \in Pairing!Conns : conn[x] = Pairing!Idle /\
                   \A y \in Pairing!Conns : conn[y] = Pairing!Idle => x <= y
<1> DEFINE at == CASE held[c].token # 0 -> "token" [] right -> "code" [] OTHER -> "wrong"
<1> DEFINE t == [Pairing!Idle EXCEPT !.who = c, !.at = at]
<1>1. k \in Pairing!Conns /\ conn[k] = Pairing!Idle
  BY FreeIs DEF Pairing!Connect
<1>2. gen' = gen /\ conn' = [conn EXCEPT ![k] = t]
  BY DEF Pairing!Connect, Pairing!hubVars
<1>3. t.gen = 0 /\ conn[k].at \notin Past
  BY <1>1 DEF Pairing!Idle, Past
<1> HIDE DEF k, t
<1>4. \A j \in Pairing!Conns : conn'[j] = IF j = k THEN t ELSE conn[j]
  BY <1>2 DEF PairingInv, PairingTyped
<1> QED
  BY <1>2, <1>3, <1>4, NoneSpent

LEMMA RegisterSpends ==
  ASSUME PairingInv, Spent, NEW k \in Pairing!Conns, Pairing!Register(k)
  PROVE  Spent'
<1>0. conn[k].at = "register" /\ conn[k].role \in Pairing!Roles
  BY DEF Pairing!Register, PairingInv, PairingTyped, Task, Generations
<1>2. PICK r \in Pairing!Roles : r = conn[k].role
  BY <1>0
<1>p. PICK n : n = gen[r] + 1
  OBVIOUS
<1>1. /\ conn[k].at = "register" /\ gen' = [gen EXCEPT ![r] = n]
      /\ conn' = [conn EXCEPT ![k].at = "reply", ![k].gen = n]
  BY <1>0, <1>2, <1>p DEF Pairing!Register
<1>3. n \in Nat /\ gen'[r] = n /\ \A p \in Pairing!Roles \ {r} : gen'[p] = gen[p]
  BY <1>1, <1>2, <1>p DEF PairingInv, PairingTyped
<1>4. /\ conn'[k].role = r /\ conn'[k].at = "reply" /\ conn'[k].gen = n
      /\ \A j \in Pairing!Conns \ {k} : conn'[j] = conn[j]
  <2> DEFINE t == [conn[k] EXCEPT !.at = "reply", !.gen = n]
  <2>1. conn \in [Pairing!Conns -> Task] /\ conn[k] \in Task
    BY DEF PairingInv, PairingTyped
  <2>2. t.role = r /\ t.at = "reply" /\ t.gen = n
    BY <1>2, <1>3, <2>1 DEF Task, Past
  <2>3. conn' = [conn EXCEPT ![k] = t]
    BY <1>1, <2>1
  <2> HIDE DEF t
  <2> QED
    BY <2>1, <2>2, <2>3
<1>5. gen[r] \in Nat /\ n = gen[r] + 1
  BY <1>2, <1>p DEF PairingInv, PairingTyped
<1>6. Registered(k, r)' /\ \A j \in Pairing!Conns, p \in Pairing!Roles :
                             Registered(j, p) => Registered(j, p)' /\ conn'[j] = conn[j]
  BY <1>1, <1>4 DEF Registered, Past
<1>7. ASSUME NEW p \in Pairing!Roles, NEW i \in 1..gen'[p]
      PROVE  \E j \in Pairing!Conns : Registered(j, p)' /\ conn'[j].gen = i
  <2>1. CASE p = r /\ i = n
    BY <1>4, <1>6, <2>1
  <2>2. CASE ~ (p = r /\ i = n)
    <3>1. i \in 1..gen[p]
      BY <1>3, <1>5, <1>7, <2>2
    <3>2. PICK j \in Pairing!Conns : Registered(j, p) /\ conn[j].gen = i
      BY <3>1 DEF Spent
    <3> QED
      BY <1>6, <3>2
  <2> QED
    BY <2>1, <2>2
<1>8. ASSUME NEW j \in Pairing!Conns, conn'[j].gen # 0
      PROVE  \E p \in Pairing!Roles : Registered(j, p)'
  BY <1>2, <1>4, <1>6, <1>8 DEF Spent
<1> QED
  BY <1>7, <1>8 DEF Spent

LEMMA GenerationsSpent == ASSUME PairingInv, Spent, Pairing!Next PROVE Spent'
<1> USE DEF Pairing!hubVars
<1>t. conn \in [Pairing!Conns -> Task]
  BY DEF PairingInv, PairingTyped
<1>1. ASSUME NEW k \in Pairing!Conns, NEW l, Pairing!Goto(k, l), gen' = gen,
             conn[k].at \in Past => l \in Past
      PROVE  Spent'
  <2> DEFINE x == [conn[k] EXCEPT !.at = l]
  <2>1. conn[k] \in Task /\ conn' = [conn EXCEPT ![k] = x]
    BY <1>t, <1>1 DEF Pairing!Goto
  <2>2. x.at = l /\ x.role = conn[k].role /\ x.gen = conn[k].gen
    BY <2>1 DEF Task
  <2> HIDE DEF x
  <2>3. \A j \in Pairing!Conns : conn'[j] = IF j = k THEN x ELSE conn[j]
    BY <1>t, <2>1
  <2> QED
    BY <1>1, <2>2, <2>3, NoneSpent
<1>2. CASE UNCHANGED <<gen, conn>>
  BY <1>2, NoneSpent
<1>3. ASSUME NEW k, conn' = [conn EXCEPT ![k].closed = TRUE], gen' = gen
      PROVE  Spent'
  <2>1. \A j \in Pairing!Conns : /\ conn'[j].at = conn[j].at /\ conn'[j].role = conn[j].role
                                 /\ conn'[j].gen = conn[j].gen
    BY <1>t, <1>3 DEF Task
  <2> QED
    BY <1>3, <2>1, NoneSpent
<1>4. ASSUME NEW k \in Pairing!Conns, Pairing!AcceptToken(k) PROVE Spent'
  <2> DEFINE r == Pairing!RoleOf(conn[k].who)
  <2> DEFINE s == [i \in DOMAIN events |-> i]
  <2> DEFINE x == [conn[k] EXCEPT !.role = r, !.at = "register", !.replay = s]
  <2>1. conn[k] \in Task /\ conn[k].at = "token" /\ gen' = gen
    BY <1>t, <1>4 DEF Pairing!AcceptToken
  <2>2. conn' = [conn EXCEPT ![k] = x]
    BY <1>t, <1>4 DEF Pairing!AcceptToken
  <2> HIDE DEF r, s
  <2>3. x.gen = conn[k].gen
    BY <2>1 DEF Task
  <2> HIDE DEF x
  <2>4. \A j \in Pairing!Conns : conn'[j] = IF j = k THEN x ELSE conn[j]
    BY <1>t, <2>2
  <2> QED
    BY <2>1, <2>3, <2>4, NoneSpent DEF Past
<1>5. ASSUME NEW k \in Pairing!Conns, Pairing!AcceptCode(k) PROVE Spent'
  <2> DEFINE r == Pairing!RoleOf(conn[k].who)
  <2> DEFINE x == [conn[k] EXCEPT !.role = r, !.at = "register"]
  <2>1. conn[k] \in Task /\ conn[k].at \in {"code", "wrong"} /\ gen' = gen
    BY <1>t, <1>5 DEF Pairing!AcceptCode
  <2>2. Pairing!Goto(k, "refused") \/ conn' = [conn EXCEPT ![k] = x]
    BY <1>t, <1>5 DEF Pairing!AcceptCode, Pairing!Refuse
  <2> HIDE DEF r
  <2>3. x.gen = conn[k].gen
    BY <2>1 DEF Task
  <2> HIDE DEF x
  <2>4. CASE conn' = [conn EXCEPT ![k] = x]
    <3>1. \A j \in Pairing!Conns : conn'[j] = IF j = k THEN x ELSE conn[j]
      BY <1>t, <2>4
    <3> QED
      BY <2>1, <2>3, <3>1, NoneSpent DEF Past
  <2> QED
    BY <1>1, <2>1, <2>2, <2>4 DEF Past
<1>6. ASSUME NEW k \in Pairing!Conns, Pairing!Reply(k) PROVE Spent'
  <2> DEFINE e == <<>>
  <2> DEFINE x == [conn[k] EXCEPT !.at = "loop", !.replay = e]
  <2>1. conn[k] \in Task /\ conn[k].at = "reply" /\ gen' = gen
    BY <1>t, <1>6 DEF Pairing!Reply
  <2>2. conn' = [conn EXCEPT ![k] = x]
    BY <1>t, <1>6 DEF Pairing!Reply
  <2> HIDE DEF e
  <2>3. x.gen = conn[k].gen /\ x.role = conn[k].role /\ x.at = "loop"
    BY <2>1 DEF Task
  <2> HIDE DEF x
  <2>4. \A j \in Pairing!Conns : conn'[j] = IF j = k THEN x ELSE conn[j]
    BY <1>t, <2>2
  <2> QED
    BY <2>1, <2>3, <2>4, NoneSpent DEF Past
<1>7. ASSUME NEW k \in Pairing!Conns, Pairing!ReplyRefused(k) \/ Pairing!End(k) PROVE Spent'
  <2>1. \/ Pairing!Goto(k, "loop") /\ gen' = gen
        \/ Pairing!Goto(k, "ended") /\ gen' = gen
    BY <1>7 DEF Pairing!ReplyRefused, Pairing!End
  <2> QED
    BY <1>1, <2>1 DEF Past
<1>8. ASSUME NEW c \in Pairing!Clients, Pairing!Leave(c) PROVE Spent'
  BY <1>3, <1>8, ZenonT(40) DEF Pairing!Leave
<1> QED
  BY <1>2, <1>4, <1>5, <1>6, <1>7, <1>8, ConnectSpends, RegisterSpends
  DEF Pairing!Next, Pairing!Expire, Pairing!ChatMessage, Pairing!InboundCancel, Pairing!PageState,
      Pairing!AllowOrigin, Pairing!HumanConfirm, Pairing!Says, Pairing!SendRequest, Pairing!NoteExport

LEMMA RoomForEvents == ASSUME PairingInv, Bounded, Pairing!Next PROVE Bounded'
<1> DEFINE States == [allow : SUBSET Origins, page : SUBSET Origins, machine : {"chat", "cancel", "acting", "error"}]
<1> USE DEF Pairing!hubVars
<1>1. session \in States /\ Len(events) <= MaxEvents
  BY DEF Bounded
<1>2. ASSUME NEW e, NEW to, Pairing!Store(e, to)
      PROVE  Len(events') <= MaxEvents
  BY <1>2, PairingSizes DEF Pairing!Store, PairingInv, PairingTyped
<1>3. ASSUME NEW k \in Pairing!Conns, NEW o \in Origins, Pairing!PageState(k, o)
      PROVE  Bounded'
  BY <1>1, <1>2, <1>3 DEF Pairing!PageState, Bounded
<1>4. ASSUME NEW k \in Pairing!Conns, NEW o \in Origins, Pairing!AllowOrigin(k, o)
      PROVE  Bounded'
  BY <1>1, <1>4 DEF Pairing!AllowOrigin, Bounded
<1>5. ASSUME NEW m \in {"chat", "cancel", "acting", "error"}, session' = [session EXCEPT !.machine = m],
             NEW e, NEW to, Pairing!Store(e, to)
      PROVE  Bounded'
  BY <1>1, <1>2, <1>5 DEF Bounded
<1>6. CASE UNCHANGED <<events, session>>
  BY <1>1, <1>6 DEF Bounded
<1>7. ASSUME NEW k \in Pairing!Conns, Pairing!ChatMessage(k) PROVE Bounded'
  <2>1. session.machine \in {"chat", "cancel", "acting", "error"}
    BY <1>1
  <2> QED
    BY <1>5, <1>7, <2>1 DEF Pairing!ChatMessage, Pairing!Says
<1>8. ASSUME NEW k \in Pairing!Conns, NEW a \in BOOLEAN, Pairing!HumanConfirm(k, a) PROVE Bounded'
  BY <1>5, <1>8 DEF Pairing!HumanConfirm, Pairing!Says
<1>9. ASSUME NEW k \in Pairing!Conns, Pairing!InboundCancel(k) PROVE Bounded'
  BY <1>5, <1>9 DEF Pairing!InboundCancel
<1>10. CASE Pairing!SendRequest
  BY <1>5, <1>10 DEF Pairing!SendRequest
<1>11. ASSUME NEW ok \in BOOLEAN, Pairing!NoteExport(ok) PROVE Bounded'
  BY <1>5, <1>11 DEF Pairing!NoteExport
<1> QED
  BY <1>3, <1>4, <1>6, <1>7, <1>8, <1>9, <1>10, <1>11, ZenonT(40)
  DEF Pairing!Next, Pairing!Connect, Pairing!Leave, Pairing!Expire, Pairing!AcceptToken, Pairing!AcceptCode,
      Pairing!Register, Pairing!Reply, Pairing!ReplyRefused, Pairing!End

LEMMA HubKeeps == ASSUME HubInv, Pairing!Next PROVE HubInv'
BY PairingStep, GenerationsSpent, RoomForEvents DEF HubInv

LEMMA HubStill == ASSUME HubInv, UNCHANGED pairingVars PROVE HubInv'
<1>1. /\ gen' = gen /\ conn' = conn /\ events' = events /\ session' = session
  BY DEF pairingVars
<1>2. Spent'
  BY <1>1, NoneSpent DEF HubInv
<1>3. Bounded'
  BY <1>1 DEF HubInv, Bounded
<1> QED
  BY <1>2, <1>3, PairingStill DEF HubInv

\* No generation is above the connections there are, and no event above the last.
LEMMA PairingTypes == ASSUME HubInv PROVE Pairing!TypeOK
<1> USE DEF HubInv
<1>i. PairingTyped /\ Numbered
  BY DEF PairingInv
<1>1. ASSUME NEW r \in Pairing!Roles
      PROVE  gen[r] \in 0..MaxConns
  <2> DEFINE N == 1..gen[r]
  <2> DEFINE f == [n \in N |-> CHOOSE k \in Pairing!Conns : Registered(k, r) /\ conn[k].gen = n]
  <2>1. \A n \in N : f[n] \in Pairing!Conns /\ conn[f[n]].gen = n
    BY DEF Spent
  <2>2. f \in Injection(N, Pairing!Conns)
    <3>1. f \in [N -> Pairing!Conns]
      BY <2>1
    <3>2. \A i, j \in N : f[i] = f[j] => i = j
      BY <2>1, ZenonT(40)
    <3> HIDE DEF f
    <3> QED
      BY <3>1, <3>2 DEF Injection, IsInjective
  <2>3. gen[r] \in Nat /\ MaxConns \in Nat
    BY <1>i, PairingSizes DEF PairingTyped
  <2>4. \A n \in Nat : IsFiniteSet(1..n) /\ Cardinality(1..n) = n
    BY FS_Interval
  <2>5. Cardinality(N) <= Cardinality(Pairing!Conns)
    BY <2>2, <2>3, <2>4, FS_Injection DEF ExistsInjection, Pairing!Conns
  <2> QED
    BY <2>3, <2>4, <2>5 DEF Pairing!Conns
<1>2. gen \in [Pairing!Roles -> 0..MaxConns]
  BY <1>1, <1>i DEF PairingTyped
<1>3. ASSUME NEW k \in Pairing!Conns
      PROVE  /\ conn[k].who \in Pairing!Clients \cup {Pairing!NoOne} /\ conn[k].closed \in BOOLEAN
             /\ conn[k].at \in {"none", "token", "code", "wrong", "register", "reply", "refused", "loop", "ended"}
             /\ conn[k].role \in Pairing!Roles \cup {"none"} /\ conn[k].gen \in 0..MaxConns
  <2>1. conn[k] \in Task
    BY <1>i DEF PairingTyped
  <2>2. conn[k].gen \in 0..MaxConns
    <3>1. CASE conn[k].gen = 0
      BY <3>1, PairingSizes
    <3>2. CASE conn[k].gen # 0
      <4>1. PICK r \in Pairing!Roles : Registered(k, r)
        BY <3>2 DEF Spent
      <4>2. conn[k].gen <= gen[r]
        BY <4>1 DEF PairingInv, Generations
      <4>3. conn[k].gen \in Nat
        BY <2>1 DEF Task
      <4> QED
        BY <1>1, <4>2, <4>3, PairingSizes
    <3> QED
      BY <3>1, <3>2
  <2> QED
    BY <2>1, <2>2 DEF Task, Roleless, Past
<1>4. Len(events) \in Nat /\ Len(events) <= MaxEvents /\ DOMAIN events = 1..Len(events)
      /\ \A i \in 1..Len(events) : events[i] \in Pairing!Kinds
  BY <1>i DEF PairingTyped, Bounded
<1>5. ASSUME NEW k \in Pairing!Conns, NEW i \in DOMAIN inbox[k]
      PROVE  inbox[k][i] \in 1..MaxEvents
  <2>1. inbox[k][i] \in 1..Len(events)
    BY <1>i DEF Numbered, Within
  <2> QED
    BY <1>4, <2>1, PairingSizes
<1>6. /\ session.allow \subseteq Origins /\ session.page \subseteq Origins
      /\ session.machine \in {"chat", "cancel", "acting", "error"}
  BY DEF Bounded
<1> QED
  BY <1>2, <1>3, <1>4, <1>5, <1>6, <1>i, Zenon DEF PairingTyped, Pairing!TypeOK

-----------------------------------------------------------------------------
(* The messages on a connection *)

LEMMA FrameSizes ==
  /\ Messages \subseteq [len : Nat, is : {"ok", "bad", "control", "close", "fragment", "garbled"}]
  /\ MaxMessage \in Nat /\ Slack \in Nat /\ Slack >= 14 /\ ReadSize \in Nat
  /\ Short \in Nat /\ Mid \in Nat /\ MaxMessages \in Nat
BY RecordsAssumption

\* What the first messages take, in all.
Adds(f, n) == IF n = 0 THEN 0 ELSE f[n - 1] + Frames!Size(n)

LEMMA SizeIsNat ==
  ASSUME sent \in Seq(Messages), NEW n \in 1..Len(sent)
  PROVE  /\ Frames!Size(n) \in Nat /\ sent[n].len \in Nat
         /\ kind = "frames" => Frames!Size(n) <= sent[n].len + 14
<1>1. sent[n] \in [len : Nat, is : {"ok", "bad", "control", "close", "fragment", "garbled"}]
  BY FrameSizes
<1> QED
  BY <1>1 DEF Frames!Size, Frames!Header

LEMMA BytesUnfold ==
  ASSUME sent \in Seq(Messages)
  PROVE  /\ Frames!Bytes(0) = 0
         /\ \A n \in 1..Len(sent) : Frames!Bytes(n) = Frames!Bytes(n - 1) + Frames!Size(n)
<1> DEFINE Good == {m \in Nat : \E f : f = [n \in 0..m |-> Adds(f, n)]}
<1>1. 0 \in Good
  <2> DEFINE f == [n \in 0..0 |-> 0]
  <2>1. f = [n \in 0..0 |-> Adds(f, n)]
    BY DEF Adds
  <2> QED
    BY <2>1
<1>2. ASSUME NEW m \in Nat, m \in Good
      PROVE  m + 1 \in Good
  <2>1. PICK f : f = [n \in 0..m |-> Adds(f, n)]
    BY <1>2
  <2> DEFINE g == [n \in 0..(m + 1) |-> IF n = m + 1 THEN Adds(f, n) ELSE f[n]]
  <2>2. ASSUME NEW n \in 0..(m + 1)
        PROVE  g[n] = Adds(g, n)
    <3>1. CASE n = 0
      BY <2>1, <3>1 DEF Adds
    <3>2. CASE n # 0
      <4>1. n - 1 \in 0..m /\ g[n - 1] = f[n - 1]
        BY <3>2
      <4>2. CASE n = m + 1
        BY <3>2, <4>1, <4>2 DEF Adds
      <4>3. CASE n # m + 1
        <5>1. n \in 0..m /\ g[n] = f[n]
          BY <4>3
        <5>2. f[n] = Adds(f, n)
          BY <2>1, <5>1
        <5> QED
          BY <3>2, <4>1, <5>1, <5>2 DEF Adds
      <4> QED
        BY <4>2, <4>3
    <3> QED
      BY <3>1, <3>2
  <2>3. g = [n \in 0..(m + 1) |-> Adds(g, n)]
    <3> HIDE DEF Adds
    <3> QED
      BY <2>2
  <2>4. \E h : h = [n \in 0..(m + 1) |-> Adds(h, n)]
    <3> HIDE DEF g
    <3> QED
      BY <2>3
  <2> QED
    BY <2>4
<1>3. Nat \subseteq Good
  <2> HIDE DEF Good
  <2> QED
    BY <1>1, <1>2, SetInduction
<1>4. \E f : f = [n \in 0..Len(sent) |-> Adds(f, n)]
  BY <1>3
<1> DEFINE h == CHOOSE f : f = [n \in 0..Len(sent) |-> Adds(f, n)]
<1>5. h = [n \in 0..Len(sent) |-> Adds(h, n)]
  BY <1>4, Zenon
<1>6. \A n : Frames!Bytes(n) = h[n]
  BY Zenon DEF Frames!Bytes, Adds
<1> HIDE DEF h
<1>7. ASSUME NEW n \in 1..Len(sent)
      PROVE  h[n] = h[n - 1] + Frames!Size(n)
  BY <1>5 DEF Adds
<1>8. h[0] = 0
  BY <1>5 DEF Adds
<1> QED
  BY <1>6, <1>7, <1>8

LEMMA BytesAreNat ==
  ASSUME sent \in Seq(Messages)
  PROVE  \A n \in 0..Len(sent) : Frames!Bytes(n) \in Nat
<1> DEFINE T == {m \in Nat : m <= Len(sent) => Frames!Bytes(m) \in Nat}
<1>1. 0 \in T
  BY BytesUnfold
<1>2. ASSUME NEW m \in Nat, m \in T
      PROVE  m + 1 \in T
  <2>1. CASE m + 1 <= Len(sent)
    <3>1. Frames!Bytes(m) \in Nat /\ m + 1 \in 1..Len(sent) /\ (m + 1) - 1 = m
      BY <1>2, <2>1
    <3>2. Frames!Bytes(m + 1) = Frames!Bytes(m) + Frames!Size(m + 1)
      BY <3>1, BytesUnfold
    <3>3. Frames!Size(m + 1) \in Nat
      BY <3>1, SizeIsNat
    <3> QED
      BY <3>1, <3>2, <3>3
  <2>2. CASE ~ (m + 1 <= Len(sent))
    BY <2>2
  <2> QED
    BY <2>1, <2>2
<1>3. Nat \subseteq T
  <2> HIDE DEF T
  <2> QED
    BY <1>1, <1>2, SetInduction
<1> QED
  BY <1>3

\* What is left to come of the messages from n on is never negative.
LEMMA BytesGrow ==
  ASSUME sent \in Seq(Messages)
  PROVE  \A n \in 0..Len(sent) : Frames!Bytes(n) <= Frames!Bytes(Len(sent))
<1> DEFINE T == {m \in Nat : m <= Len(sent) => Frames!Bytes(Len(sent) - m) <= Frames!Bytes(Len(sent))}
<1>1. 0 \in T
  <2>1. Len(sent) \in 0..Len(sent) /\ Len(sent) - 0 = Len(sent)
    OBVIOUS
  <2> QED
    BY <2>1, BytesAreNat
<1>2. ASSUME NEW m \in Nat, m \in T
      PROVE  m + 1 \in T
  <2> SUFFICES ASSUME m + 1 <= Len(sent)
               PROVE  Frames!Bytes(Len(sent) - (m + 1)) <= Frames!Bytes(Len(sent))
    OBVIOUS
  <2> DEFINE n == Len(sent) - m
  <2>1. n \in 1..Len(sent) /\ n - 1 = Len(sent) - (m + 1) /\ n - 1 \in 0..Len(sent) /\ n \in 0..Len(sent)
    OBVIOUS
  <2>2. Frames!Bytes(n) <= Frames!Bytes(Len(sent))
    BY <1>2
  <2>3. Frames!Bytes(n) = Frames!Bytes(n - 1) + Frames!Size(n) /\ Frames!Size(n) \in Nat
    BY <2>1, BytesUnfold, SizeIsNat
  <2>4. Frames!Bytes(n) \in Nat /\ Frames!Bytes(n - 1) \in Nat /\ Frames!Bytes(Len(sent)) \in Nat
    BY <2>1, BytesAreNat
  <2> HIDE DEF n
  <2>5. Frames!Bytes(n - 1) <= Frames!Bytes(Len(sent))
    BY <2>2, <2>3, <2>4
  <2> QED
    BY <2>1, <2>5
<1>3. Nat \subseteq T
  <2> HIDE DEF T
  <2> QED
    BY <1>1, <1>2, SetInduction
<1>4. ASSUME NEW n \in 0..Len(sent)
      PROVE  Frames!Bytes(n) <= Frames!Bytes(Len(sent))
  <2>1. Len(sent) - n \in T /\ Len(sent) - n <= Len(sent) /\ Len(sent) - (Len(sent) - n) = n
    BY <1>3
  <2> QED
    BY <2>1
<1> QED
  BY <1>4

\* What there is before the message the buffer begins with, and behind.
LEMMA Ahead ==
  ASSUME sent \in Seq(Messages), NEW n \in 1..Len(sent)
  PROVE  /\ Frames!Bytes(n) = Frames!Bytes(n - 1) + Frames!Size(n) /\ (n + 1) - 1 = n
         /\ Frames!Bytes(n) <= Frames!Bytes(Len(sent)) /\ Frames!Size(n) \in Nat
         /\ Frames!Bytes(n) \in Nat /\ Frames!Bytes(n - 1) \in Nat /\ Frames!Bytes(Len(sent)) \in Nat
<1>1. n \in 0..Len(sent) /\ n - 1 \in 0..Len(sent) /\ Len(sent) \in 0..Len(sent)
  OBVIOUS
<1> QED
  BY <1>1, BytesUnfold, BytesAreNat, BytesGrow, SizeIsNat

FramesTyped ==
  /\ kind \in {"frames", "lines"} /\ sent \in Seq(Messages) /\ Len(sent) \in 1..MaxMessages
  /\ buffered \in Nat /\ buffered <= Frames!Bytes(Len(sent)) - Frames!Bytes(next - 1)
  /\ next \in 1..(Len(sent) + 1) /\ reads \in BOOLEAN
  /\ answers \in Seq([of : Nat, ok : BOOLEAN])
  /\ kind = "lines" => \A i \in DOMAIN sent : sent[i].is \in {"ok", "bad"}

\* Every answer is to a message that has been taken.
FramesInv ==
  /\ FramesTyped /\ Frames!MessagesHeard
  /\ \A i \in DOMAIN answers : answers[i].of \in 1..(next - 1)

LEMMA FramesInit == Frames!Init => FramesInv
<1> SUFFICES ASSUME Frames!Init PROVE FramesInv
  OBVIOUS
<1>1. /\ kind \in {"frames", "lines"} /\ next = 1 /\ reads = TRUE /\ answers = <<>>
      /\ sent \in UNION {[1..n -> IF kind = "frames" THEN Messages ELSE Frames!Lines] : n \in 1..MaxMessages}
      /\ buffered \in {n \in (IF kind = "frames" THEN 0 ELSE 2)..ReadSize : n <= Frames!Bytes(Len(sent))}
  BY DEF Frames!Init
<1>2. PICK n \in 1..MaxMessages : sent \in [1..n -> IF kind = "frames" THEN Messages ELSE Frames!Lines]
  BY <1>1
<1>3. sent \in Seq(Messages) /\ Len(sent) = n /\ n \in Nat
  BY <1>2, FrameSizes DEF Frames!Lines
<1>4. kind = "lines" => \A i \in DOMAIN sent : sent[i].is \in {"ok", "bad"}
  BY <1>2 DEF Frames!Lines
<1>5. Frames!Bytes(Len(sent)) \in Nat /\ Frames!Bytes(1 - 1) = 0
  <2>1. Len(sent) \in 0..Len(sent) /\ 1 - 1 = 0
    BY <1>3
  <2> QED
    BY <1>3, <2>1, BytesAreNat, BytesUnfold
<1>6. buffered \in Nat /\ buffered <= Frames!Bytes(Len(sent)) - Frames!Bytes(next - 1)
  BY <1>1, <1>5, FrameSizes
<1>7. FramesTyped
  BY <1>1, <1>3, <1>4, <1>6 DEF FramesTyped
<1> QED
  BY <1>1, <1>7 DEF FramesInv, Frames!MessagesHeard

\* A message is taken and answered, or needs no answer.
LEMMA MessageTaken ==
  ASSUME FramesInv, next <= Len(sent), UNCHANGED <<kind, sent>>, next' = next + 1, reads' \in BOOLEAN,
         buffered' \in Nat, buffered' <= Frames!Bytes(Len(sent)) - Frames!Bytes(next),
         \/ /\ \E ok \in BOOLEAN : /\ Frames!Answer(next, ok)
                                   /\ ok => sent[next].is = "ok"
                                   /\ sent[next].is = "ok" /\ Frames!Fits(next) => ok
         \/ /\ answers' = answers
            /\ sent[next].is \in {"ok", "bad"} => kind = "lines" /\ sent[next].len = 0,
         reads' \/ sent[next].is \in {"close", "fragment", "garbled"}
  PROVE  FramesInv'
<1> USE DEF FramesInv
<1>1. /\ next \in 1..Len(sent) /\ next \in Nat /\ Len(sent) \in Nat /\ next' - 1 = next
      /\ next' \in 1..(Len(sent) + 1)
  <2>1. sent \in Seq(Messages) /\ next \in 1..(Len(sent) + 1)
    BY DEF FramesTyped
  <2>2. Len(sent) \in Nat
    BY <2>1
  <2> QED
    BY <2>1, <2>2
<1>2. \A i : Frames!Fits(i)' = Frames!Fits(i)
  BY DEF Frames!Fits, Frames!Size, Frames!Header, Frames!Limit
<1>3. \A i : Frames!Bytes(i)' = Frames!Bytes(i)
  BY DEF Frames!Bytes, Frames!Size, Frames!Header
<1>4. CASE answers' = answers /\ (sent[next].is \in {"ok", "bad"} => kind = "lines" /\ sent[next].len = 0)
  <2>1. \A i \in 1..next : i \in 1..(next - 1) \/ i = next
    BY <1>1
  <2>2. \A i \in 1..(next - 1) : i \in 1..next
    BY <1>1
  <2>3. FramesTyped'
    BY <1>1, <1>3, <1>4 DEF FramesTyped
  <2>4. ~ (sent[next].is \in {"ok", "bad"} /\ (kind = "frames" \/ sent[next].len > 0))
    BY <1>1, <1>4, SizeIsNat DEF FramesTyped
  <2>5. \A i \in 1..(next' - 1) : sent'[i].is \in {"ok", "bad"} /\ (kind' = "frames" \/ sent'[i].len > 0) =>
                                 \E a \in DOMAIN answers' : answers'[a].of = i
    BY <1>1, <1>4, <2>1, <2>4 DEF Frames!MessagesHeard
  <2>6. ~ reads' => \E i \in DOMAIN sent' : sent'[i].is \in {"close", "fragment", "garbled"} \/ ~ Frames!Fits(i)'
    BY <1>1 DEF FramesTyped
  <2> QED
    BY <1>1, <1>2, <1>4, <2>2, <2>3, <2>5, <2>6 DEF Frames!MessagesHeard
<1>5. ASSUME NEW ok \in BOOLEAN, Frames!Answer(next, ok), ok => sent[next].is = "ok",
             sent[next].is = "ok" /\ Frames!Fits(next) => ok
      PROVE  FramesInv'
  <2> DEFINE m == Len(answers) + 1
  <2>1. /\ answers' \in Seq([of : Nat, ok : BOOLEAN]) /\ DOMAIN answers' = 1..m
        /\ Len(answers) \in Nat /\ DOMAIN answers = 1..Len(answers)
        /\ answers'[m].of = next /\ answers'[m].ok = ok
        /\ \A i \in 1..Len(answers) : answers'[i] = answers[i]
    BY <1>1, <1>5 DEF Frames!Answer, FramesTyped
  <2>2. m \in DOMAIN answers' /\ \A i \in DOMAIN answers' : i = m \/ i \in DOMAIN answers
    BY <2>1
  <2>3. \A i \in 1..next : i \in 1..(next - 1) \/ i = next
    BY <1>1
  <2>4. FramesTyped'
    BY <1>1, <1>3, <2>1 DEF FramesTyped
  <2>5. \A i \in DOMAIN answers' : answers'[i].of \in 1..(next' - 1)
    <3>1. next \in 1..next /\ \A i \in 1..(next - 1) : i \in 1..next
      BY <1>1
    <3> QED
      BY <1>1, <2>1, <2>2, <3>1
  <2>6. ASSUME NEW i \in DOMAIN answers'
        PROVE  /\ answers'[i].ok => sent[answers'[i].of].is = "ok"
               /\ sent[answers'[i].of].is = "ok" /\ Frames!Fits(answers'[i].of) => answers'[i].ok
    BY <1>5, <2>1, <2>2 DEF Frames!MessagesHeard
  <2>7. ASSUME NEW i \in DOMAIN answers', i > 1
        PROVE  answers'[i - 1].of < answers'[i].of
    <3>1. CASE i = m
      <4>1. i - 1 \in DOMAIN answers /\ answers'[i - 1] = answers[i - 1]
        BY <2>1, <2>7, <3>1
      <4>2. answers[i - 1].of \in 1..(next - 1)
        BY <4>1
      <4> QED
        BY <1>1, <2>1, <3>1, <4>1, <4>2
    <3>2. CASE i # m
      <4>1. i \in DOMAIN answers /\ i - 1 \in DOMAIN answers
        BY <2>1, <2>2, <2>7, <3>2, SMTT(30)
      <4>2. answers[i - 1].of < answers[i].of
        BY <2>7, <4>1 DEF Frames!MessagesHeard
      <4> QED
        BY <2>1, <4>1, <4>2
    <3> QED
      BY <3>1, <3>2
  <2>8. ASSUME NEW i \in 1..(next' - 1), sent[i].is \in {"ok", "bad"}, kind = "frames" \/ sent[i].len > 0
        PROVE  \E a \in DOMAIN answers' : answers'[a].of = i
    <3>1. CASE i = next
      BY <2>1, <2>2, <3>1
    <3>2. CASE i # next
      <4>1. i \in 1..(next - 1)
        BY <1>1, <2>3, <3>2
      <4>2. PICK a \in DOMAIN answers : answers[a].of = i
        BY <2>8, <4>1 DEF Frames!MessagesHeard
      <4>3. a \in DOMAIN answers'
        BY <2>1
      <4> QED
        BY <2>1, <4>2, <4>3
    <3> QED
      BY <3>1, <3>2
  <2>9. ~ reads' => \E i \in DOMAIN sent' : sent'[i].is \in {"close", "fragment", "garbled"} \/ ~ Frames!Fits(i)'
    BY <1>1 DEF FramesTyped
  <2> QED
    BY <1>2, <2>4, <2>5, <2>6, <2>7, <2>8, <2>9 DEF Frames!MessagesHeard
<1> QED
  BY <1>4, <1>5

LEMMA TakeFrameStep == ASSUME FramesInv, Frames!TakeFrame PROVE FramesInv'
<1> USE DEF FramesInv
<1>1. /\ kind = "frames" /\ reads /\ Frames!Whole /\ Frames!Takes(next) /\ UNCHANGED <<kind, sent>>
      /\ CASE sent[next].is \in {"ok", "bad"} -> Frames!Answer(next, sent[next].is = "ok") /\ UNCHANGED reads
           [] sent[next].is = "control"       -> UNCHANGED <<answers, reads>>
           [] OTHER                           -> reads' = FALSE /\ UNCHANGED answers
  BY DEF Frames!TakeFrame
<1>2. /\ next \in 1..Len(sent) /\ buffered >= Frames!Size(next)
      /\ next' = next + 1 /\ buffered' = buffered - Frames!Size(next)
  BY <1>1 DEF Frames!Whole, Frames!Takes, FramesTyped
<1>3. /\ buffered' \in Nat /\ buffered' <= Frames!Bytes(Len(sent)) - Frames!Bytes(next)
  BY <1>2, Ahead, SMTT(30) DEF FramesTyped
<1>4. sent[next].is \in {"ok", "bad", "control", "close", "fragment", "garbled"}
  BY <1>2, FrameSizes, SMTT(30) DEF FramesTyped
<1>5. CASE sent[next].is \in {"ok", "bad"}
  <2> DEFINE ok == sent[next].is = "ok"
  <2>1. /\ ok \in BOOLEAN /\ Frames!Answer(next, ok) /\ reads' = reads
        /\ (ok => sent[next].is = "ok") /\ (sent[next].is = "ok" /\ Frames!Fits(next) => ok)
    BY <1>1, <1>5
  <2>2. reads' \in BOOLEAN /\ reads'
    BY <1>1, <2>1 DEF FramesTyped
  <2> HIDE DEF ok
  <2>3. \E b \in BOOLEAN : /\ Frames!Answer(next, b) /\ (b => sent[next].is = "ok")
                           /\ sent[next].is = "ok" /\ Frames!Fits(next) => b
    BY <2>1, Zenon
  <2>4. next <= Len(sent) /\ kind' = kind /\ sent' = sent
    BY <1>1, <1>2
  <2> QED
    BY <1>2, <1>3, <2>2, <2>3, <2>4, MessageTaken
<1>6. CASE sent[next].is = "control"
  <2>1. answers' = answers /\ reads' = reads /\ reads' \in BOOLEAN /\ sent[next].is \notin {"ok", "bad"}
    BY <1>1, <1>6 DEF FramesTyped
  <2> QED
    BY <1>1, <1>2, <1>3, <2>1, MessageTaken
<1>7. CASE sent[next].is \in {"close", "fragment", "garbled"}
  <2>1. sent[next].is \notin {"ok", "bad", "control"}
    BY <1>7
  <2>2. answers' = answers /\ reads' = FALSE
    BY <1>1, <2>1
  <2>3. reads' \in BOOLEAN
    BY <2>2
  <2>4. next <= Len(sent) /\ kind' = kind /\ sent' = sent
    BY <1>1, <1>2
  <2> QED
    BY <1>2, <1>3, <1>7, <2>1, <2>2, <2>3, <2>4, MessageTaken
<1> QED
  BY <1>4, <1>5, <1>6, <1>7

\* The hub stops reading.
LEMMA Stopped ==
  ASSUME FramesInv, UNCHANGED <<kind, sent, next, answers>>, reads' \in BOOLEAN,
         buffered' \in Nat, buffered' <= Frames!Bytes(Len(sent)) - Frames!Bytes(next - 1),
         reads' \/ \E i \in DOMAIN sent : sent[i].is \in {"close", "fragment", "garbled"} \/ ~ Frames!Fits(i)
  PROVE  FramesInv'
<1>1. \A i : Frames!Fits(i)' = Frames!Fits(i)
  BY DEF Frames!Fits, Frames!Size, Frames!Header, Frames!Limit
<1>2. \A i : Frames!Bytes(i)' = Frames!Bytes(i)
  BY DEF Frames!Bytes, Frames!Size, Frames!Header
<1>3. FramesTyped'
  BY <1>2 DEF FramesInv, FramesTyped
<1>4. Frames!MessagesHeard'
  BY <1>1 DEF FramesInv, Frames!MessagesHeard
<1> QED
  BY <1>3, <1>4 DEF FramesInv

LEMMA BreakFrameStep == ASSUME FramesInv, Frames!BreakFrame PROVE FramesInv'
<1>1. next \in DOMAIN sent /\ (sent[next].is = "fragment" \/ sent[next].len > MaxMessage)
  BY DEF Frames!BreakFrame, Frames!HeaderRefused, FramesInv, FramesTyped
<1>2. sent[next].len > MaxMessage => ~ Frames!Fits(next)
  <2>1. next \in 1..Len(sent) /\ sent[next].len \in Nat /\ kind = "frames"
    BY <1>1, SizeIsNat DEF FramesInv, FramesTyped, Frames!BreakFrame
  <2> QED
    BY <2>1, FrameSizes DEF Frames!Fits
<1> QED
  BY <1>1, <1>2, Stopped DEF Frames!BreakFrame, FramesInv, FramesTyped

\* A read fills the buffer beyond its limit only when a message is too long, or
\* leaves no room for the read that brings its end.
LEMMA FrameReadStep ==
  ASSUME FramesInv, NEW n \in 1..ReadSize, Frames!Read(n)
  PROVE  FramesInv'
<1> USE DEF FramesInv
<1>1. /\ kind = "frames" /\ ~ Frames!Whole /\ n <= Frames!ToCome /\ buffered' = buffered + n
      /\ reads' = (buffered + n <= Frames!Limit) /\ UNCHANGED <<kind, sent, next, answers>>
  BY DEF Frames!Read
<1>2. next \in 1..(Len(sent) + 1) /\ Len(sent) \in Nat /\ buffered \in Nat
      /\ n \in Nat /\ n >= 1 /\ n <= ReadSize
  BY FrameSizes DEF FramesTyped
<1>3. Frames!Bytes(Len(sent)) \in Nat /\ Frames!Bytes(next - 1) \in Nat
  <2>1. Len(sent) \in 0..Len(sent) /\ next - 1 \in 0..Len(sent)
    BY <1>2
  <2> QED
    BY <2>1, BytesAreNat DEF FramesTyped
<1>4. buffered' \in Nat /\ buffered' <= Frames!Bytes(Len(sent)) - Frames!Bytes(next - 1)
  BY <1>1, <1>2, <1>3 DEF Frames!ToCome
<1>5. next \in 1..Len(sent)
  <2>1. next = Len(sent) + 1 => next - 1 = Len(sent)
    BY <1>2
  <2>2. next # Len(sent) + 1
    BY <1>2, <1>3, <1>4, <2>1, <1>1
  <2> QED
    BY <1>2, <2>2
<1>6. buffered < Frames!Size(next) /\ Frames!Size(next) \in Nat
  BY <1>1, <1>2, <1>5, SizeIsNat DEF Frames!Whole, FramesTyped
<1>7. sent[next].len <= MaxMessage => Frames!Size(next) <= Frames!Limit /\ Frames!Limit \in Nat
  BY <1>1, <1>5, SizeIsNat, FrameSizes, SMTT(30) DEF FramesTyped, Frames!Limit
<1>8. next = Len(sent) => buffered + n <= Frames!Size(next)
  <2>1. Frames!Bytes(next) = Frames!Bytes(next - 1) + Frames!Size(next)
    BY <1>5, Ahead DEF FramesTyped
  <2>2. next = Len(sent) => Frames!Bytes(next) = Frames!Bytes(Len(sent))
    OBVIOUS
  <2> QED
    BY <1>1, <1>2, <1>3, <1>4, <1>6, <2>1, <2>2
<1>9. Frames!Fits(next) => buffered + n <= Frames!Limit
  <2> SUFFICES ASSUME Frames!Fits(next)
               PROVE  buffered + n <= Frames!Limit
    OBVIOUS
  <2>1. sent[next].len <= MaxMessage /\ (next = Len(sent) \/ Frames!Size(next) + ReadSize <= Frames!Limit + 1)
    BY <1>1 DEF Frames!Fits
  <2>2. Frames!Limit \in Nat /\ ReadSize \in Nat
    BY FrameSizes DEF Frames!Limit
  <2> QED
    BY <1>2, <1>6, <1>7, <1>8, <2>1, <2>2
<1>10. reads' \in BOOLEAN /\ (buffered + n <= Frames!Limit => reads')
  <2> DEFINE b == buffered + n <= Frames!Limit
  <2>1. b \in BOOLEAN
    OBVIOUS
  <2> HIDE DEF b
  <2>2. reads' = b
    BY <1>1, Zenon DEF b
  <2>3. reads' \in BOOLEAN /\ (b => reads')
    BY <2>1, <2>2
  <2> QED
    BY <2>3 DEF b
<1>11. next \in DOMAIN sent
  BY <1>5 DEF FramesTyped
<1> QED
  BY <1>1, <1>4, <1>9, <1>10, <1>11, Stopped

LEMMA TakeLineStep == ASSUME FramesInv, Frames!TakeLine PROVE FramesInv'
<1> USE DEF FramesInv
<1>1. /\ kind = "lines" /\ reads /\ Frames!Whole /\ Frames!Takes(next) /\ UNCHANGED <<kind, sent, reads>>
      /\ IF sent[next].len = 0 THEN UNCHANGED answers
         ELSE Frames!Answer(next, sent[next].is = "ok" /\ sent[next].len <= MaxMessage)
  BY DEF Frames!TakeLine
<1>2. /\ next \in 1..Len(sent) /\ buffered >= Frames!Size(next)
      /\ next' = next + 1 /\ buffered' = buffered - Frames!Size(next)
  BY <1>1 DEF Frames!Whole, Frames!Takes, FramesTyped
<1>3. /\ buffered' \in Nat /\ buffered' <= Frames!Bytes(Len(sent)) - Frames!Bytes(next)
  <2>1. buffered \in Nat /\ buffered <= Frames!Bytes(Len(sent)) - Frames!Bytes(next - 1)
    BY DEF FramesTyped
  <2>2. /\ Frames!Bytes(next) = Frames!Bytes(next - 1) + Frames!Size(next) /\ Frames!Size(next) \in Nat
        /\ Frames!Bytes(next) \in Nat /\ Frames!Bytes(next - 1) \in Nat /\ Frames!Bytes(Len(sent)) \in Nat
    BY <1>2, Ahead DEF FramesTyped
  <2>3. \A b, s, l, p, q \in Nat : b >= s /\ b <= l - p /\ q = p + s => b - s \in Nat /\ b - s <= l - q
    OBVIOUS
  <2> QED
    BY <1>2, <2>1, <2>2, <2>3
<1>4. reads' \in BOOLEAN /\ reads'
  BY <1>1 DEF FramesTyped
<1>5. CASE sent[next].len = 0
  BY <1>1, <1>2, <1>3, <1>4, <1>5, MessageTaken
<1>6. CASE sent[next].len # 0
  <2> DEFINE ok == sent[next].is = "ok" /\ sent[next].len <= MaxMessage
  <2>1. sent[next].len \in Nat /\ MaxMessage \in Nat
    BY <1>2, SizeIsNat, FrameSizes DEF FramesTyped
  <2>2. Frames!Fits(next) => sent[next].len <= MaxMessage
    BY <1>1, <2>1 DEF Frames!Fits, Frames!Size
  <2>3. ok \in BOOLEAN /\ Frames!Answer(next, ok) /\ (ok => sent[next].is = "ok")
        /\ (sent[next].is = "ok" /\ Frames!Fits(next) => ok)
    BY <1>1, <1>6, <2>2
  <2> HIDE DEF ok
  <2> QED
    BY <1>1, <1>2, <1>3, <1>4, <2>3, MessageTaken
<1> QED
  BY <1>5, <1>6

LEMMA ReadLineStep == ASSUME FramesInv, Frames!ReadLine PROVE FramesInv'
<1> USE DEF FramesInv
<1>1. /\ kind = "lines" /\ reads /\ next \in 1..Len(sent) /\ UNCHANGED <<kind, sent, reads>>
      /\ IF Frames!Size(next) > MaxMessage
         THEN next' = next + 1 /\ buffered' = 0 /\ Frames!Answer(next, FALSE)
         ELSE buffered' = Frames!Size(next) /\ UNCHANGED <<next, answers>>
  <2>1. next <= Len(sent) /\ next \in 1..(Len(sent) + 1) /\ Len(sent) \in Nat
    BY DEF Frames!ReadLine, FramesTyped
  <2>2. next \in 1..Len(sent)
    BY <2>1
  <2> QED
    BY <2>2, Zenon DEF Frames!ReadLine
<1>2. reads' \in BOOLEAN /\ reads'
  BY <1>1 DEF FramesTyped
<1>3. CASE Frames!Size(next) > MaxMessage
  <2>1. next' = next + 1 /\ buffered' = 0 /\ Frames!Answer(next, FALSE)
    BY <1>1, <1>3
  <2>2. ~ Frames!Fits(next)
    BY <1>1, <1>3, Ahead, FrameSizes DEF Frames!Fits, FramesTyped
  <2>3. buffered' \in Nat /\ buffered' <= Frames!Bytes(Len(sent)) - Frames!Bytes(next)
    BY <1>1, <2>1, Ahead, SMTT(30) DEF FramesTyped
  <2>4. \E b \in BOOLEAN : /\ Frames!Answer(next, b) /\ (b => sent[next].is = "ok")
                           /\ sent[next].is = "ok" /\ Frames!Fits(next) => b
    BY <2>1, <2>2, Zenon
  <2>5. next <= Len(sent) /\ kind' = kind /\ sent' = sent
    BY <1>1
  <2> QED
    BY <1>2, <2>1, <2>3, <2>4, <2>5, MessageTaken
<1>4. CASE ~ (Frames!Size(next) > MaxMessage)
  <2>1. buffered' = Frames!Size(next) /\ UNCHANGED <<next, answers>>
    BY <1>1, <1>4
  <2>2. buffered' \in Nat /\ buffered' <= Frames!Bytes(Len(sent)) - Frames!Bytes(next - 1)
    BY <1>1, <2>1, Ahead, SMTT(30) DEF FramesTyped
  <2> QED
    BY <1>1, <1>2, <2>1, <2>2, Stopped
<1> QED
  BY <1>3, <1>4

LEMMA FramesStep == ASSUME FramesInv, Frames!Next PROVE FramesInv'
BY TakeFrameStep, BreakFrameStep, FrameReadStep, TakeLineStep, ReadLineStep DEF Frames!Next

LEMMA FramesStill == ASSUME FramesInv, UNCHANGED frameVars PROVE FramesInv'
<1>1. reads => reads'
  BY DEF frameVars
<1>2. ~ reads => \E i \in DOMAIN sent : sent[i].is \in {"close", "fragment", "garbled"} \/ ~ Frames!Fits(i)
  BY DEF FramesInv, Frames!MessagesHeard
<1> QED
  BY <1>1, <1>2, Stopped DEF frameVars, FramesInv, FramesTyped

LEMMA FramesMeans == FramesInv => Frames!TypeOK /\ Frames!MessagesHeard
<1> SUFFICES ASSUME FramesInv PROVE Frames!TypeOK /\ Frames!MessagesHeard
  OBVIOUS
<1> USE DEF FramesInv, FramesTyped
<1>1. sent \in UNION {[1..n -> Messages] : n \in 1..MaxMessages}
  <2>1. sent \in [1..Len(sent) -> Messages]
    OBVIOUS
  <2> QED
    BY <2>1
<1>2. Frames!ToCome >= 0
  <2>1. Len(sent) \in 0..Len(sent) /\ next - 1 \in 0..Len(sent)
    OBVIOUS
  <2>2. Frames!Bytes(Len(sent)) \in Nat /\ Frames!Bytes(next - 1) \in Nat
    BY <2>1, BytesAreNat
  <2> QED
    BY <2>2 DEF Frames!ToCome
<1>3. \A i \in DOMAIN answers : answers[i].of \in DOMAIN sent /\ answers[i].ok \in BOOLEAN
  <2>1. DOMAIN sent = 1..Len(sent) /\ Len(sent) \in Nat /\ next \in 1..(Len(sent) + 1)
    <3>1. sent \in Seq(Messages) /\ next \in 1..(Len(sent) + 1)
      OBVIOUS
    <3> HIDE DEF FramesInv
    <3> QED
      BY <3>1
  <2>2. \A n \in 1..(next - 1) : n \in DOMAIN sent
    BY <2>1
  <2>3. \A i \in DOMAIN answers : answers[i] \in [of : Nat, ok : BOOLEAN]
    <3> DEFINE R == [of : Nat, ok : BOOLEAN]
    <3>1. answers \in Seq(R)
      OBVIOUS
    <3> HIDE DEF FramesInv, R
    <3>2. \A i \in DOMAIN answers : answers[i] \in R
      BY <3>1
    <3> QED
      BY <3>2 DEF R
  <2>4. \A i \in DOMAIN answers : answers[i].of \in 1..(next - 1)
    OBVIOUS
  <2> QED
    BY <2>2, <2>3, <2>4
<1> QED
  BY <1>1, <1>2, <1>3 DEF Frames!TypeOK

-----------------------------------------------------------------------------
(* What streams out of a turn *)

LEMMA TextsAre == \A t \in AnswerTexts \cup ThinkingTexts : t \in Seq(STRING)
BY RecordsAssumption

\* The pieces of a text, and what is shown of them.
Word == STRING \cup {"[REDACTED]", "pass", "word", "=", " "}

\* One text is the beginning of another.
LEMMA BeginsAlike ==
  ASSUME NEW s \in Seq(Word), NEW t \in Seq(Word)
  PROVE  Stream!Begins(s, t) <=> Len(s) <= Len(t) /\ \A i \in 1..Len(s) : t[i] = s[i]
<1>1. CASE Len(s) <= Len(t)
  <2>1. SubSeq(t, 1, Len(s)) \in Seq(Word) /\ Len(SubSeq(t, 1, Len(s))) = Len(s)
        /\ \A i \in 1..Len(s) : SubSeq(t, 1, Len(s))[i] = t[i]
    BY <1>1
  <2>2. SubSeq(t, 1, Len(s)) = s <=> \A i \in 1..Len(s) : t[i] = s[i]
    BY <2>1, SeqEqual
  <2> QED
    BY <1>1, <2>2 DEF Stream!Begins
<1>2. CASE ~ (Len(s) <= Len(t))
  BY <1>2 DEF Stream!Begins
<1> QED
  BY <1>1, <1>2

LEMMA BeginsOn ==
  ASSUME NEW s \in Seq(Word), NEW t \in Seq(Word), NEW u \in Seq(Word),
         Stream!Begins(s, t), Stream!Begins(t, u)
  PROVE  Stream!Begins(s, u)
<1>1. Len(s) <= Len(t) /\ Len(t) <= Len(u) /\ Len(s) \in Nat /\ Len(t) \in Nat /\ Len(u) \in Nat
  BY BeginsAlike
<1>2. (\A i \in 1..Len(s) : t[i] = s[i]) /\ \A i \in 1..Len(t) : u[i] = t[i]
  BY BeginsAlike
<1>3. \A i \in 1..Len(s) : i \in 1..Len(t)
  BY <1>1
<1>4. Len(s) <= Len(u) /\ \A i \in 1..Len(s) : u[i] = s[i]
  BY <1>1, <1>2, <1>3
<1> QED
  BY <1>4, BeginsAlike

LEMMA Appended ==
  ASSUME NEW s \in Seq(Word), NEW r \in Seq(Word)
  PROVE  Stream!Begins(s, s \o r)
<1>1. s \o r \in Seq(Word) /\ Len(s \o r) = Len(s) + Len(r) /\ Len(s) \in Nat /\ Len(r) \in Nat
  OBVIOUS
<1>2. \A i \in 1..Len(s) : (s \o r)[i] = s[i]
  OBVIOUS
<1> DEFINE u == s \o r
<1>3. u \in Seq(Word) /\ Len(s) <= Len(u) /\ \A i \in 1..Len(s) : u[i] = s[i]
  BY <1>1, <1>2
<1> HIDE DEF u
<1>4. Stream!Begins(s, u)
  BY <1>3, BeginsAlike
<1> QED
  BY <1>4 DEF u

LEMMA EndsSo ==
  ASSUME NEW s \in Seq(Word), NEW x \in Word, NEW y
  PROVE  /\ Len(s) \in Nat /\ Len(s \o <<x, y>>) = Len(s) + 2
         /\ (s \o <<x, y>>)[Len(s) + 2] = y
  OBVIOUS

\* What is shown and what the display has gained make up the display.
LEMMA Gained ==
  ASSUME NEW s \in Seq(Word), NEW t \in Seq(Word), Stream!Begins(s, t)
  PROVE  s \o (IF t = s THEN <<>> ELSE Stream!Increment(s, t)) = t
<1>1. CASE t = s
  BY <1>1
<1>2. CASE t # s
  <2> DEFINE r == SubSeq(t, Len(s) + 1, Len(t))
  <2>1. Len(s) <= Len(t) /\ \A i \in 1..Len(s) : t[i] = s[i]
    BY BeginsAlike
  <2>2. r \in Seq(Word) /\ Len(r) = Len(t) - Len(s) /\ \A i \in 1..Len(r) : r[i] = t[Len(s) + i]
    BY <2>1
  <2>3. Stream!Increment(s, t) = r
    BY DEF Stream!Increment
  <2> HIDE DEF r
  <2>4. s \o r \in Seq(Word) /\ Len(s \o r) = Len(t) /\ \A i \in 1..Len(t) : (s \o r)[i] = t[i]
    BY <2>1, <2>2
  <2>5. s \o r = t
    BY <2>4, SeqEqual
  <2> QED
    BY <1>2, <2>3, <2>5
<1> QED
  BY <1>1, <1>2

\* The first pieces of a text, and what stands for one of them.
Cut(t, n) == SubSeq(t, 1, n)
Piece(t, i) ==
  IF Stream!InValue(t, i) THEN <<>>
  ELSE IF Stream!EndsLabel(t, i) THEN <<t[i], "[REDACTED]">> ELSE <<t[i]>>
UpToStep(t, f, i) == IF i = 0 THEN <<>> ELSE f[i - 1] \o Piece(t, i)
UpTo(t) == CHOOSE f : f = [i \in 0..Len(t) |-> UpToStep(t, f, i)]

LEMMA UpToUnfolds ==
  ASSUME NEW t \in Seq(Word)
  PROVE  /\ UpTo(t)[0] = <<>> /\ Stream!Labelled(t) = UpTo(t)[Len(t)]
         /\ \A i \in 1..Len(t) : UpTo(t)[i] = UpTo(t)[i - 1] \o Piece(t, i)
<1> DEFINE Good == {m \in Nat : \E f : f = [i \in 0..m |-> UpToStep(t, f, i)]}
<1>1. 0 \in Good
  <2> DEFINE f == [i \in 0..0 |-> <<>>]
  <2>1. f = [i \in 0..0 |-> UpToStep(t, f, i)]
    BY DEF UpToStep
  <2> QED
    BY <2>1
<1>2. ASSUME NEW m \in Nat, m \in Good
      PROVE  m + 1 \in Good
  <2>1. PICK f : f = [i \in 0..m |-> UpToStep(t, f, i)]
    BY <1>2
  <2> DEFINE g == [i \in 0..(m + 1) |-> IF i = m + 1 THEN UpToStep(t, f, i) ELSE f[i]]
  <2>2. ASSUME NEW i \in 0..(m + 1)
        PROVE  g[i] = UpToStep(t, g, i)
    <3>1. CASE i = 0
      BY <2>1, <3>1 DEF UpToStep
    <3>2. CASE i # 0
      <4>1. i - 1 \in 0..m /\ g[i - 1] = f[i - 1]
        BY <3>2
      <4>2. UpToStep(t, f, i) = UpToStep(t, g, i)
        <5> HIDE DEF g
        <5> QED
          BY <3>2, <4>1, Zenon DEF UpToStep
      <4>3. CASE i = m + 1
        BY <4>2, <4>3
      <4>4. CASE i # m + 1
        <5>1. i \in 0..m /\ g[i] = f[i]
          BY <4>4
        <5>2. f[i] = UpToStep(t, f, i)
          BY <2>1, <5>1
        <5> QED
          BY <4>2, <5>1, <5>2
      <4> QED
        BY <4>3, <4>4
    <3> QED
      BY <3>1, <3>2
  <2>3. g = [i \in 0..(m + 1) |-> UpToStep(t, g, i)]
    <3> HIDE DEF UpToStep
    <3> QED
      BY <2>2
  <2>4. \E h : h = [i \in 0..(m + 1) |-> UpToStep(t, h, i)]
    <3> HIDE DEF g
    <3> QED
      BY <2>3
  <2> QED
    BY <2>4
<1>3. Nat \subseteq Good
  <2> HIDE DEF Good
  <2> QED
    BY <1>1, <1>2, SetInduction
<1>4. \E f : f = [i \in 0..Len(t) |-> UpToStep(t, f, i)]
  BY <1>3
<1>5. UpTo(t) = [i \in 0..Len(t) |-> UpToStep(t, UpTo(t), i)]
  BY <1>4, Zenon DEF UpTo
<1>6. Stream!Labelled(t) = UpTo(t)[Len(t)]
  BY Zenon DEF Stream!Labelled, UpTo, UpToStep, Piece
<1>7. ASSUME NEW i \in 0..Len(t)
      PROVE  UpTo(t)[i] = UpToStep(t, UpTo(t), i)
  BY <1>5
<1>8. UpTo(t)[0] = <<>>
  <2>1. 0 \in 0..Len(t)
    OBVIOUS
  <2> QED
    BY <1>7, <2>1, Zenon DEF UpToStep
<1>9. ASSUME NEW i \in 1..Len(t)
      PROVE  UpTo(t)[i] = UpTo(t)[i - 1] \o Piece(t, i)
  <2>1. i \in 0..Len(t) /\ i # 0
    OBVIOUS
  <2> QED
    BY <1>7, <2>1, Zenon DEF UpToStep
<1> QED
  BY <1>6, <1>8, <1>9

LEMMA ShortTexts ==
  ASSUME NEW S, NEW x \in S, NEW y \in S, NEW z \in S
  PROVE  /\ <<>> \in Seq(S) /\ <<x>> \in Seq(S) /\ <<x, y>> \in Seq(S) /\ <<x, y, z>> \in Seq(S)
         /\ Len(<<x, y, z>>) = 3
  OBVIOUS

LEMMA PieceIsText ==
  ASSUME NEW t \in Seq(Word), NEW i \in 1..Len(t)
  PROVE  Piece(t, i) \in Seq(Word)
<1>1. t[i] \in Word
  OBVIOUS
<1>3. "[REDACTED]" \in Word
  BY DEF Word
<1>2. <<>> \in Seq(Word) /\ <<t[i]>> \in Seq(Word) /\ <<t[i], "[REDACTED]">> \in Seq(Word)
  BY <1>1, <1>3, ShortTexts
<1> QED
  BY <1>2, Zenon DEF Piece

LEMMA UpToIsText ==
  ASSUME NEW t \in Seq(Word)
  PROVE  \A n \in 0..Len(t) : UpTo(t)[n] \in Seq(Word)
<1> DEFINE T == {m \in Nat : m <= Len(t) => UpTo(t)[m] \in Seq(Word)}
<1>1. 0 \in T
  <2>1. <<>> \in Seq(Word)
    OBVIOUS
  <2>2. UpTo(t)[0] = <<>>
    BY UpToUnfolds
  <2>3. 0 \in Nat /\ UpTo(t)[0] \in Seq(Word)
    BY <2>1, <2>2
  <2> QED
    BY <2>3
<1>2. ASSUME NEW m \in Nat, m \in T
      PROVE  m + 1 \in T
  <2> SUFFICES ASSUME m + 1 <= Len(t)
               PROVE  UpTo(t)[m + 1] \in Seq(Word)
    OBVIOUS
  <2>1. UpTo(t)[m] \in Seq(Word) /\ m + 1 \in 1..Len(t) /\ (m + 1) - 1 = m
    BY <1>2
  <2>2. UpTo(t)[m + 1] = UpTo(t)[m] \o Piece(t, m + 1)
    BY <2>1, UpToUnfolds
  <2>3. Piece(t, m + 1) \in Seq(Word)
    BY <2>1, PieceIsText
  <2> QED
    BY <2>1, <2>2, <2>3
<1>3. Nat \subseteq T
  <2> HIDE DEF T
  <2> QED
    BY <1>1, <1>2, SetInduction
<1> QED
  BY <1>3

\* Whether a piece ends a label, or belongs to a value, shows in what is before it.
LEMMA LabelAt ==
  ASSUME NEW t \in Seq(Word), NEW i \in 1..Len(t)
  PROVE  Stream!EndsLabel(t, i) <=> i >= 3 /\ t[i - 2] = "pass" /\ t[i - 1] = "word" /\ t[i] = "="
<1>1. CASE i >= 3
  <2> DEFINE l == SubSeq(t, i - 2, i)
  <2> DEFINE e == <<"pass", "word", "=">>
  <2>0. i - 2 \in 1..Len(t) /\ i \in 1..Len(t) /\ i - (i - 2) + 1 = 3
    BY <1>1
  <2>1. l \in Seq(Word) /\ Len(l) = 3 /\ l[1] = t[i - 2] /\ l[2] = t[i - 1] /\ l[3] = t[i]
    <3>1. l \in Seq(Word) /\ Len(l) = 3
      BY <2>0
    <3>2. \A j \in 1..3 : l[j] = t[i - 2 + j - 1]
      BY <2>0
    <3>3. i - 2 + 1 - 1 = i - 2 /\ i - 2 + 2 - 1 = i - 1 /\ i - 2 + 3 - 1 = i
      BY <2>0
    <3> QED
      <4> HIDE DEF l
      <4> QED
        BY <3>1, <3>2, <3>3
  <2>2. e \in Seq(Word) /\ Len(e) = 3 /\ e[1] = "pass" /\ e[2] = "word" /\ e[3] = "="
    <3>1. "pass" \in Word /\ "word" \in Word /\ "=" \in Word
      BY DEF Word
    <3>2. e \in Seq(Word) /\ Len(e) = 3
      BY <3>1, ShortTexts
    <3> QED
      BY <3>2
  <2>3. \A j \in 1..3 : j = 1 \/ j = 2 \/ j = 3
    OBVIOUS
  <2>4. Stream!EndsLabel(t, i) <=> l = e
    BY <1>1 DEF Stream!EndsLabel, Stream!Label
  <2> HIDE DEF l, e
  <2>5. l = e <=> l[1] = e[1] /\ l[2] = e[2] /\ l[3] = e[3]
    <3>1. ASSUME l[1] = e[1], l[2] = e[2], l[3] = e[3]
          PROVE  l = e
      <4>1. \A j \in 1..3 : l[j] = e[j]
        BY <2>3, <3>1
      <4> QED
        BY <2>1, <2>2, <4>1, SeqEqual
    <3> QED
      BY <3>1
  <2> QED
    BY <1>1, <2>1, <2>2, <2>4, <2>5
<1>2. CASE ~ (i >= 3)
  BY <1>2 DEF Stream!EndsLabel
<1> QED
  BY <1>1, <1>2

LEMMA CutIs ==
  ASSUME NEW t \in Seq(Word), NEW n \in 0..Len(t)
  PROVE  /\ Cut(t, n) \in Seq(Word) /\ Len(Cut(t, n)) = n
         /\ \A i \in 1..n : Cut(t, n)[i] = t[i]
  BY DEF Cut

\* The beginning of a text without a quoted key has none, and labels are all
\* that is looked for in it.
LEMMA PlainCut ==
  ASSUME NEW t \in Seq(Word), NEW n \in 0..Len(t), Stream!Plain(t)
  PROVE  Stream!Plain(Cut(t, n))
<1> DEFINE p == Cut(t, n)
<1>1. p \in Seq(Word) /\ Len(p) = n /\ n \in Nat /\ \A i \in 1..n : p[i] = t[i]
  BY CutIs
<1> HIDE DEF p
<1>2. ASSUME NEW i \in 1..n, i + 3 <= n
      PROVE  SubSeq(p, i, i + 3) = SubSeq(t, i, i + 3)
  <2> DEFINE a == SubSeq(p, i, i + 3)
             b == SubSeq(t, i, i + 3)
  <2>1. a \in Seq(Word) /\ Len(a) = 4 /\ \A j \in 1..4 : a[j] = p[i + j - 1]
    BY <1>1, <1>2
  <2>2. b \in Seq(Word) /\ Len(b) = 4 /\ \A j \in 1..4 : b[j] = t[i + j - 1]
    BY <1>1, <1>2
  <2>3. \A j \in 1..4 : i + j - 1 \in 1..n
    BY <1>1, <1>2
  <2> HIDE DEF a, b
  <2>5. \A j \in 1..4 : a[j] = b[j]
    BY <1>1, <2>1, <2>2, <2>3
  <2>4. a = b
    BY <2>1, <2>2, <2>5, SeqEqual
  <2> QED
    BY <2>4 DEF a, b
<1>3. ASSUME NEW i \in 1..n, Stream!KeyAt(p, i)
      PROVE  FALSE
  <2>1. i + 3 <= n /\ SubSeq(p, i, i + 3) = Stream!Key
    BY <1>1, <1>3 DEF Stream!KeyAt
  <2>2. i + 3 <= Len(t) /\ i \in DOMAIN t
    BY <1>1, <2>1
  <2>3. Stream!KeyAt(t, i)
    BY <1>2, <2>1, <2>2 DEF Stream!KeyAt
  <2> QED
    BY <2>2, <2>3 DEF Stream!Plain
<1>4. DOMAIN p = 1..n
  BY <1>1
<1> QED
  BY <1>3, <1>4 DEF Stream!Plain, p

LEMMA PlainIs ==
  ASSUME NEW t \in Seq(Word), Stream!Plain(t)
  PROVE  Stream!Redacted(t) = UpTo(t)[Len(t)]
<1>1. Stream!Keyed(t) = t
  BY DEF Stream!Keyed
<1> QED
  BY <1>1, UpToUnfolds DEF Stream!Redacted

LEMMA PieceOfCut ==
  ASSUME NEW t \in Seq(Word), NEW n \in 0..Len(t), NEW i \in 1..n
  PROVE  Piece(Cut(t, n), i) = Piece(t, i)
<1> DEFINE p == Cut(t, n)
<1>1. p \in Seq(Word) /\ Len(p) = n /\ n \in Nat /\ \A j \in 1..n : p[j] = t[j]
  BY CutIs
<1> HIDE DEF p
<1>2. \A j \in 1..n : j \in 1..Len(p) /\ j \in 1..Len(t) /\ (j >= 3 => j - 2 \in 1..n /\ j - 1 \in 1..n)
  BY <1>1
<1>3. \A j \in 1..n : Stream!EndsLabel(p, j) <=> Stream!EndsLabel(t, j)
  BY <1>1, <1>2, LabelAt
<1>4. Stream!InValue(p, i) <=> Stream!InValue(t, i)
  <2>1. \A j \in 3..(i - 1) : j \in 1..n /\ \A k \in (j + 1)..i : k \in 1..n
    BY <1>1
  <2> QED
    BY <1>1, <1>3, <2>1 DEF Stream!InValue
<1>5. p[i] = t[i]
  BY <1>1
<1> QED
  BY <1>3, <1>4, <1>5, Zenon DEF Piece, p

\* What is shown of a text that is cut off is what is shown of it so far.
LEMMA RedactedCut ==
  ASSUME NEW t \in Seq(Word), NEW n \in 0..Len(t), Stream!Plain(t)
  PROVE  Stream!Redacted(Cut(t, n)) = UpTo(t)[n]
<1> DEFINE p == Cut(t, n)
<1>1. p \in Seq(Word) /\ Len(p) = n /\ n \in Nat
  <2>1. n \in Nat
    OBVIOUS
  <2> QED
    BY <2>1, CutIs
<1>2. \A i \in 1..n : Piece(p, i) = Piece(t, i)
  BY PieceOfCut
<1> HIDE DEF p
<1> DEFINE T == {m \in Nat : m <= n => UpTo(p)[m] = UpTo(t)[m]}
<1>3. 0 \in T
  BY <1>1, UpToUnfolds
<1>4. ASSUME NEW m \in Nat, m \in T
      PROVE  m + 1 \in T
  <2> SUFFICES ASSUME m + 1 <= n
               PROVE  UpTo(p)[m + 1] = UpTo(t)[m + 1]
    OBVIOUS
  <2>1. /\ UpTo(p)[m] = UpTo(t)[m] /\ (m + 1) - 1 = m
        /\ m + 1 \in 1..Len(t) /\ m + 1 \in 1..Len(p) /\ m + 1 \in 1..n
    BY <1>1, <1>4
  <2>2. /\ UpTo(p)[m + 1] = UpTo(p)[(m + 1) - 1] \o Piece(p, m + 1)
        /\ UpTo(t)[m + 1] = UpTo(t)[(m + 1) - 1] \o Piece(t, m + 1)
    BY <1>1, <2>1, UpToUnfolds
  <2>3. Piece(p, m + 1) = Piece(t, m + 1)
    BY <1>2, <2>1
  <2> HIDE DEF T
  <2> QED
    BY <2>1, <2>2, <2>3
<1>5. Nat \subseteq T
  <2> HIDE DEF T
  <2> QED
    BY <1>3, <1>4, SetInduction
<1>6. UpTo(p)[n] = UpTo(t)[n]
  BY <1>1, <1>5
<1>7. Stream!Redacted(p) = UpTo(p)[n]
  <2>1. Stream!Plain(p)
    BY PlainCut DEF p
  <2> QED
    BY <1>1, <2>1, PlainIs
<1> QED
  BY <1>6, <1>7 DEF p

\* What is shown only grows.
LEMMA RedactedGrows ==
  ASSUME NEW t \in Seq(Word), NEW m \in 0..Len(t), NEW n \in m..Len(t)
  PROVE  Stream!Begins(UpTo(t)[m], UpTo(t)[n])
<1> DEFINE T == {d \in Nat : m + d <= Len(t) => Stream!Begins(UpTo(t)[m], UpTo(t)[m + d])}
<1>1. 0 \in T
  <2>1. UpTo(t)[m] \in Seq(Word) /\ m + 0 = m
    BY UpToIsText
  <2>2. Stream!Begins(UpTo(t)[m], UpTo(t)[m])
    BY <2>1, BeginsAlike
  <2> QED
    BY <2>1, <2>2
<1>2. ASSUME NEW d \in Nat, d \in T
      PROVE  d + 1 \in T
  <2> SUFFICES ASSUME m + (d + 1) <= Len(t)
               PROVE  Stream!Begins(UpTo(t)[m], UpTo(t)[m + (d + 1)])
    OBVIOUS
  <2> DEFINE i == m + (d + 1)
  <2>1. /\ i \in 1..Len(t) /\ i - 1 = m + d /\ i - 1 \in 0..Len(t) /\ i \in 0..Len(t)
    OBVIOUS
  <2>2. Stream!Begins(UpTo(t)[m], UpTo(t)[i - 1])
    BY <1>2, <2>1
  <2> HIDE DEF T, i
  <2>3. UpTo(t)[i] = UpTo(t)[i - 1] \o Piece(t, i)
    BY <2>1, UpToUnfolds
  <2>4. UpTo(t)[i - 1] \in Seq(Word) /\ Piece(t, i) \in Seq(Word) /\ UpTo(t)[m] \in Seq(Word)
    BY <2>1, UpToIsText, PieceIsText
  <2>5. Stream!Begins(UpTo(t)[i - 1], UpTo(t)[i])
    BY <2>3, <2>4, Appended
  <2>6. UpTo(t)[i] \in Seq(Word)
    BY <2>1, UpToIsText
  <2>7. Stream!Begins(UpTo(t)[m], UpTo(t)[i])
    BY <2>2, <2>4, <2>5, <2>6, BeginsOn
  <2> QED
    BY <2>7 DEF i
<1>3. Nat \subseteq T
  <2> HIDE DEF T
  <2> QED
    BY <1>1, <1>2, SetInduction
<1>4. n - m \in Nat /\ m + (n - m) = n /\ n <= Len(t)
  OBVIOUS
<1>5. n - m \in T
  BY <1>3, <1>4
<1> HIDE DEF T
<1>6. m + (n - m) <= Len(t) => Stream!Begins(UpTo(t)[m], UpTo(t)[m + (n - m)])
  BY <1>5 DEF T
<1> QED
  BY <1>4, <1>6

\* At the end of a label and in its value, what is shown ends with the mark.
Marked(t, i) == Stream!InValue(t, i) \/ Stream!EndsLabel(t, i)
LEMMA ValueIsMark ==
  ASSUME NEW t \in Seq(Word)
  PROVE  \A i \in 1..Len(t) : Marked(t, i) =>
           Len(UpTo(t)[i]) > 0 /\ UpTo(t)[i][Len(UpTo(t)[i])] = "[REDACTED]"
<1> DEFINE Fine(i) == Marked(t, i) => Len(UpTo(t)[i]) > 0 /\ UpTo(t)[i][Len(UpTo(t)[i])] = "[REDACTED]"
<1> DEFINE T == {i \in Nat : i \in 1..Len(t) => Fine(i)}
<1>1. 0 \in T
  OBVIOUS
<1>2. ASSUME NEW m \in Nat, m \in T
      PROVE  m + 1 \in T
  <2> DEFINE i == m + 1
  <2> SUFFICES ASSUME i \in 1..Len(t), Marked(t, i)
               PROVE  Len(UpTo(t)[i]) > 0 /\ UpTo(t)[i][Len(UpTo(t)[i])] = "[REDACTED]"
    OBVIOUS
  <2>1. /\ i - 1 = m /\ i - 1 \in 0..Len(t)
    OBVIOUS
  <2>2. UpTo(t)[i] = UpTo(t)[m] \o Piece(t, i) /\ UpTo(t)[m] \in Seq(Word)
    BY <2>1, UpToUnfolds, UpToIsText
  <2>3. CASE ~ Stream!InValue(t, i)
    <3> DEFINE x == t[i]
    <3>1. Piece(t, i) = <<x, "[REDACTED]">> /\ x \in Word
      BY <2>3 DEF Piece, Marked
    <3> HIDE DEF x
    <3>2. /\ Len(UpTo(t)[m] \o <<x, "[REDACTED]">>) = Len(UpTo(t)[m]) + 2 /\ Len(UpTo(t)[m]) \in Nat
          /\ (UpTo(t)[m] \o <<x, "[REDACTED]">>)[Len(UpTo(t)[m]) + 2] = "[REDACTED]"
      BY <2>2, <3>1, EndsSo
    <3>3. UpTo(t)[i] = UpTo(t)[m] \o <<x, "[REDACTED]">>
      BY <2>2, <3>1
    <3> DEFINE w == UpTo(t)[i]
    <3>4. Len(w) = Len(UpTo(t)[m]) + 2 /\ w[Len(UpTo(t)[m]) + 2] = "[REDACTED]" /\ Len(UpTo(t)[m]) \in Nat
      BY <3>2, <3>3
    <3> HIDE DEF w
    <3>5. Len(w) > 0 /\ w[Len(w)] = "[REDACTED]"
      BY <3>4
    <3> QED
      BY <3>5 DEF w
  <2>4. CASE Stream!InValue(t, i)
    <3>1. PICK j \in 3..(i - 1) : Stream!EndsLabel(t, j) /\ \A k \in (j + 1)..i : t[k] \notin Stream!Stops
      BY <2>4 DEF Stream!InValue
    <3>2. m \in 1..Len(t) /\ j \in 3..m
      <4>1. j \in 3..m
        BY <2>1, <3>1
      <4>2. m + 1 <= Len(t) /\ Len(t) \in Nat
        OBVIOUS
      <4> QED
        BY <4>1, <4>2
    <3>3. Marked(t, m)
      <4>1. CASE j = m
        BY <3>1, <4>1 DEF Marked
      <4>2. CASE j # m
        <5>1. j \in 3..(m - 1) /\ \A k \in (j + 1)..m : k \in (j + 1)..i
          BY <3>2, <4>2
        <5> QED
          BY <3>1, <5>1 DEF Marked, Stream!InValue
      <4> QED
        BY <4>1, <4>2
    <3>4. Len(UpTo(t)[m]) > 0 /\ UpTo(t)[m][Len(UpTo(t)[m])] = "[REDACTED]"
      BY <1>2, <3>2, <3>3
    <3>5. Piece(t, i) = <<>>
      BY <2>4 DEF Piece
    <3>6. UpTo(t)[m] \o <<>> = UpTo(t)[m]
      BY <2>2
    <3> HIDE DEF i
    <3>7. UpTo(t)[i] = UpTo(t)[m]
      BY <2>2, <3>5, <3>6
    <3> QED
      BY <3>4, <3>7
  <2> QED
    BY <2>3, <2>4
<1>3. Nat \subseteq T
  <2> HIDE DEF T
  <2> QED
    BY <1>1, <1>2, SetInduction
<1>4. ASSUME NEW i \in 1..Len(t)
      PROVE  Fine(i)
  <2>1. i \in T
    BY <1>3
  <2> QED
    BY <2>1
<1> QED
  BY <1>4

\* The last pieces of a text are the beginning of a label, behind what is no letter.
Starts(t, n, h) ==
  /\ h \in 1..2 /\ h <= n /\ (h = n \/ t[n - h] \in Stream!Stops \cup {"=", ":"})
  /\ h = 1 => t[n] = "pass"
  /\ h = 2 => t[n - 1] = "pass" /\ t[n] = "word"

LEMMA EndIsStart ==
  ASSUME NEW p \in Seq(Word), NEW h \in 1..2, h <= Len(p)
  PROVE  SubSeq(p, Len(p) - h + 1, Len(p)) = SubSeq(Stream!Starter, 1, h) <=>
           /\ h = 1 => p[Len(p)] = "pass"
           /\ h = 2 => p[Len(p) - 1] = "pass" /\ p[Len(p)] = "word"
<1> DEFINE n == Len(p)
<1> DEFINE l == SubSeq(p, n - h + 1, n)
<1> DEFINE e == <<"pass", "word">>
<1> DEFINE s == SubSeq(e, 1, h)
<1>1. l \in Seq(Word) /\ Len(l) = h /\ \A j \in 1..h : l[j] = p[n - h + j]
  OBVIOUS
<1>2. e \in Seq(Word) /\ Len(e) = 2 /\ e[1] = "pass" /\ e[2] = "word"
  <2>1. "pass" \in Word /\ "word" \in Word
    BY DEF Word
  <2>2. e \in Seq(Word)
    BY <2>1, ShortTexts
  <2> QED
    BY <2>2
<1> HIDE DEF e, l
<1>3. s \in Seq(Word) /\ Len(s) = h /\ \A j \in 1..h : s[j] = e[j]
  <2>1. h \in 0..Len(e)
    BY <1>2
  <2> QED
    BY <1>2, <2>1, CutIs DEF Cut
<1>4. SubSeq(p, Len(p) - h + 1, Len(p)) = SubSeq(Stream!Starter, 1, h) <=> l = s
  BY DEF l, e, Stream!Starter
<1> HIDE DEF s
<1>5. l = s <=> \A j \in 1..h : l[j] = s[j]
  BY <1>1, <1>3, SeqEqual
<1>6. CASE h = 1
  <2>1. \A j \in 1..h : j = 1
    BY <1>6
  <2>2. 1 \in 1..h /\ n - h + 1 = n
    BY <1>6
  <2>3. l[1] = p[n] /\ s[1] = "pass"
    BY <1>1, <1>2, <1>3, <2>2
  <2> QED
    BY <1>4, <1>5, <1>6, <2>1, <2>2, <2>3
<1>7. CASE h = 2
  <2>1. \A j \in 1..h : j = 1 \/ j = 2
    BY <1>7
  <2>2. 1 \in 1..h /\ 2 \in 1..h /\ n - h + 1 = n - 1 /\ n - h + 2 = n
    BY <1>7
  <2>3. l[1] = p[n - 1] /\ l[2] = p[n] /\ s[1] = "pass" /\ s[2] = "word"
    BY <1>1, <1>2, <1>3, <2>2
  <2> QED
    BY <1>4, <1>5, <1>7, <2>1, <2>2, <2>3
<1> QED
  BY <1>6, <1>7

\* What is held is the longest of them.
LEMMA HoldIs ==
  ASSUME NEW t \in Seq(Word), NEW n \in 0..Len(t)
  PROVE  LET h == Stream!Hold(Cut(t, n))
         IN  /\ h \in 0..2 /\ h <= n
             /\ h > 0 => Starts(t, n, h)
             /\ \A m \in 1..2 : Starts(t, n, m) => m <= h
<1> DEFINE p == Cut(t, n)
<1>1. p \in Seq(Word) /\ Len(p) = n /\ n \in Nat /\ \A i \in 1..n : p[i] = t[i]
  BY CutIs
<1> HIDE DEF p
<1> DEFINE E == {m \in 1..Len(Stream!Starter) :
                   /\ m <= Len(p)
                   /\ SubSeq(p, Len(p) - m + 1, Len(p)) = SubSeq(Stream!Starter, 1, m)
                   /\ m = Len(p) \/ p[Len(p) - m] \in Stream!Stops \cup {"=", ":"}}
<1>2. Len(Stream!Starter) = 2
  BY DEF Stream!Starter
<1>3. ASSUME NEW m \in 1..2
      PROVE  m \in E <=> Starts(t, n, m)
  <2>1. CASE m <= n
    <3>1. m # n => n - m \in 1..n
      BY <1>1, <2>1
    <3>2. n \in 1..n /\ (m = 2 => n - 1 \in 1..n)
      BY <1>1, <2>1
    <3>3. SubSeq(p, Len(p) - m + 1, Len(p)) = SubSeq(Stream!Starter, 1, m) <=>
            /\ m = 1 => p[n] = "pass"
            /\ m = 2 => p[n - 1] = "pass" /\ p[n] = "word"
      BY <1>1, <2>1, EndIsStart
    <3>4. m \in E <=> /\ SubSeq(p, Len(p) - m + 1, Len(p)) = SubSeq(Stream!Starter, 1, m)
                      /\ m = n \/ p[n - m] \in Stream!Stops \cup {"=", ":"}
      BY <1>1, <1>2, <2>1
    <3> HIDE DEF E
    <3> QED
      BY <1>1, <2>1, <3>1, <3>2, <3>3, <3>4 DEF Starts
  <2>2. CASE ~ (m <= n)
    BY <1>1, <2>2 DEF Starts
  <2> QED
    BY <2>1, <2>2
<1>4. E \subseteq 1..2
  BY <1>2
<1>5. Stream!Hold(p) = IF E = {} THEN 0 ELSE CHOOSE m \in E : \A k \in E : k <= m
  BY Zenon DEF Stream!Hold
<1> HIDE DEF E
<1> DEFINE h == Stream!Hold(p)
<1>6. CASE E = {}
  BY <1>1, <1>3, <1>5, <1>6 DEF p
<1>7. CASE E # {}
  <2>1. \E m \in E : \A k \in E : k <= m
    <3>1. 2 \in E => \A k \in E : k <= 2
      BY <1>4
    <3>2. 2 \notin E => \A k \in E : k <= 1
      BY <1>4
    <3>3. 1 \in E \/ 2 \in E
      <4>1. \A k \in 1..2 : k = 1 \/ k = 2
        OBVIOUS
      <4> QED
        BY <1>4, <1>7, <4>1, Zenon
    <3> QED
      BY <3>1, <3>2, <3>3
  <2>2. h = CHOOSE m \in E : \A k \in E : k <= m
    BY <1>5, <1>7
  <2> HIDE DEF h
  <2>3. h \in E /\ \A k \in E : k <= h
    BY <2>1, <2>2, Zenon
  <2>4. h \in 1..2
    BY <1>4, <2>3
  <2>5. Starts(t, n, h)
    BY <1>3, <2>3, <2>4
  <2>6. h <= n
    BY <2>5 DEF Starts
  <2> QED
    BY <1>3, <2>3, <2>4, <2>5, <2>6 DEF h, p
<1> QED
  BY <1>6, <1>7

\* In what is held there is no value, so it would be shown as it is.
LEMMA HeldIsPlain ==
  ASSUME NEW t \in Seq(Word), NEW n \in 1..Len(t), NEW h, Starts(t, n, h), UpTo(t)[n] = Cut(t, n)
  PROVE  \A m \in (n - h)..n : UpTo(t)[m] = Cut(t, m)
<1>1. /\ h \in 1..2 /\ h <= n /\ n \in Nat /\ n <= Len(t) /\ Len(t) \in Nat
  <2>1. Len(t) \in Nat
    OBVIOUS
  <2>2. h \in 1..2 /\ h <= n
    BY DEF Starts
  <2>3. n \in Nat /\ n <= Len(t)
    BY <2>1
  <2> QED
    BY <2>1, <2>2, <2>3
<1>2. \A i \in (n - h + 1)..n : i \in 1..Len(t) /\ t[i] \in {"pass", "word"}
  <2>1. \A i \in (n - h + 1)..n : i \in 1..Len(t) /\ (i = n \/ (h = 2 /\ i = n - 1))
    BY <1>1
  <2>2. t[n] \in {"pass", "word"} /\ (h = 2 => t[n - 1] \in {"pass", "word"})
    <3>1. h = 1 \/ h = 2
      BY <1>1
    <3> QED
      BY <3>1, Zenon DEF Starts
  <2> QED
    BY <2>1, <2>2, Zenon
<1>3. ~ Stream!InValue(t, n)
  <2>1. UpTo(t)[n] = Cut(t, n) /\ Len(Cut(t, n)) = n /\ Cut(t, n)[n] = t[n]
    BY <1>1, CutIs
  <2>2. t[n] # "[REDACTED]"
    BY <1>1, <1>2
  <2> QED
    BY <2>1, <2>2, ValueIsMark DEF Marked
<1>4. ASSUME NEW i \in (n - h + 1)..n
      PROVE  ~ Stream!InValue(t, i) /\ ~ Stream!EndsLabel(t, i)
  <2>1. i \in 1..Len(t) /\ t[i] # "=" /\ t[i] \notin Stream!Stops
    BY <1>2 DEF Stream!Stops
  <2>2. ~ Stream!EndsLabel(t, i)
    BY <2>1, LabelAt
  <2>3. i = n \/ (i = n - 1 /\ t[n] \notin Stream!Stops)
    <3>1. i = n \/ i = n - 1
      BY <1>1
    <3>2. n \in (n - h + 1)..n
      BY <1>1
    <3> QED
      BY <1>2, <3>1, <3>2 DEF Stream!Stops
  <2>4. CASE i = n - 1 /\ t[n] \notin Stream!Stops /\ Stream!InValue(t, i)
    <3>1. PICK j \in 3..(i - 1) : Stream!EndsLabel(t, j) /\ \A k \in (j + 1)..i : t[k] \notin Stream!Stops
      BY <2>4 DEF Stream!InValue
    <3>2. j \in 3..(n - 1) /\ \A k \in (j + 1)..n : k \in (j + 1)..i \/ k = n
      <4>1. i = n - 1
        BY <2>4
      <4>2. j \in 3..(n - 1)
        <5>1. j \in 3..(i - 1)
          OBVIOUS
        <5>2. n \in Nat
          BY <1>1
        <5> QED
          BY <4>1, <5>1, <5>2
      <4>3. \A k \in (j + 1)..n : k \in (j + 1)..i \/ k = n
        BY <1>1, <4>1, <4>2
      <4> QED
        BY <4>2, <4>3
    <3>3. Stream!InValue(t, n)
      BY <2>4, <3>1, <3>2 DEF Stream!InValue
    <3> QED
      BY <1>3, <3>3
  <2> QED
    BY <1>3, <2>2, <2>3, <2>4
<1>5. \A i \in (n - h + 1)..n : Piece(t, i) = <<t[i]>>
  BY <1>4 DEF Piece
<1>6. ASSUME NEW i \in (n - h + 1)..n, UpTo(t)[i] = Cut(t, i)
      PROVE  UpTo(t)[i - 1] = Cut(t, i - 1)
  <2>1. i \in 1..Len(t) /\ i - 1 \in 0..Len(t) /\ i \in 0..Len(t)
    BY <1>1
  <2>2. UpTo(t)[i] = UpTo(t)[i - 1] \o <<t[i]>> /\ UpTo(t)[i - 1] \in Seq(Word)
    BY <1>5, <2>1, UpToUnfolds, UpToIsText
  <2>3. /\ Cut(t, i) \in Seq(Word) /\ Len(Cut(t, i)) = i /\ \A j \in 1..i : Cut(t, i)[j] = t[j]
        /\ Cut(t, i - 1) \in Seq(Word) /\ Len(Cut(t, i - 1)) = i - 1 /\ \A j \in 1..(i - 1) : Cut(t, i - 1)[j] = t[j]
    BY <2>1, CutIs
  <2> DEFINE u == UpTo(t)[i - 1]
  <2> DEFINE x == t[i]
  <2> HIDE DEF u, x
  <2>4. Len(u \o <<x>>) = Len(u) + 1 /\ Len(u) \in Nat /\ \A j \in 1..Len(u) : (u \o <<x>>)[j] = u[j]
    BY <2>2 DEF u
  <2>5. u \o <<x>> = Cut(t, i)
    BY <1>6, <2>2 DEF u, x
  <2>6. Len(u) = i - 1
    BY <2>1, <2>3, <2>4, <2>5
  <2>7. \A j \in 1..(i - 1) : u[j] = Cut(t, i - 1)[j]
    <3>1. \A j \in 1..(i - 1) : j \in 1..i
      BY <2>1
    <3> QED
      BY <2>3, <2>4, <2>5, <2>6, <3>1
  <2>8. u \in Seq(Word)
    BY <2>2 DEF u
  <2>9. u = Cut(t, i - 1)
    BY <2>3, <2>6, <2>7, <2>8, SeqEqual
  <2> QED
    BY <2>9 DEF u
<1>7. CASE h = 1
  <2>1. n \in (n - h + 1)..n /\ \A m \in (n - h)..n : m = n \/ m = n - 1
    BY <1>1, <1>7
  <2> QED
    BY <1>6, <2>1
<1>8. CASE h = 2
  <2>1. /\ n \in (n - h + 1)..n /\ n - 1 \in (n - h + 1)..n /\ (n - 1) - 1 = n - 2
        /\ \A m \in (n - h)..n : m = n \/ m = n - 1 \/ m = n - 2
    BY <1>1, <1>8
  <2>2. UpTo(t)[n - 1] = Cut(t, n - 1)
    BY <1>6, <2>1
  <2>3. UpTo(t)[(n - 1) - 1] = Cut(t, (n - 1) - 1)
    BY <1>6, <2>1, <2>2
  <2> QED
    BY <2>1, <2>2, <2>3
<1> QED
  BY <1>1, <1>7, <1>8

\* What a redactor shows of the first pieces while the text still streams.
Shown(t, n) == Stream!Display(Cut(t, n), FALSE)

LEMMA ShownIs ==
  ASSUME NEW t \in Seq(Word), NEW n \in 0..Len(t), Stream!Plain(t)
  PROVE  LET h == Stream!Hold(Cut(t, n))
         IN  /\ UpTo(t)[n] # Cut(t, n) => Shown(t, n) = UpTo(t)[n]
             /\ UpTo(t)[n] = Cut(t, n) => Shown(t, n) = Cut(t, n - h)
<1> DEFINE h == Stream!Hold(Cut(t, n))
<1>1. h \in 0..2 /\ h <= n
  BY HoldIs
<1>2. Len(Cut(t, n)) = n /\ n \in Nat /\ n <= Len(t)
  <2>1. n \in Nat /\ n <= Len(t)
    OBVIOUS
  <2> QED
    BY <2>1, CutIs
<1> DEFINE p == Cut(t, n)
<1>3. Stream!Redacted(p) = UpTo(t)[n]
  BY RedactedCut
<1>4. Shown(t, n) = IF Stream!Redacted(p) # p THEN Stream!Redacted(p) ELSE SubSeq(p, 1, Len(p) - h)
  BY Zenon DEF Shown, Stream!Display
<1>5. p \in Seq(Word) /\ \A i \in 1..n : p[i] = t[i]
  BY CutIs
<1> HIDE DEF h
<1>6. n - h \in 0..Len(t) /\ n - h \in 0..Len(p)
  BY <1>1, <1>2
<1>7. /\ Cut(p, n - h) \in Seq(Word) /\ Len(Cut(p, n - h)) = n - h
      /\ \A i \in 1..(n - h) : Cut(p, n - h)[i] = p[i]
  BY <1>5, <1>6, CutIs
<1>8. /\ Cut(t, n - h) \in Seq(Word) /\ Len(Cut(t, n - h)) = n - h
      /\ \A i \in 1..(n - h) : Cut(t, n - h)[i] = t[i]
  BY <1>6, CutIs
<1> HIDE DEF p
<1>9. \A i \in 1..(n - h) : i \in 1..n
  BY <1>1, <1>2
<1>10. \A i \in 1..(n - h) : Cut(p, n - h)[i] = Cut(t, n - h)[i]
  BY <1>5, <1>7, <1>8, <1>9
<1>11. Cut(p, n - h) = Cut(t, n - h)
  BY <1>7, <1>8, <1>10, SeqEqual
<1>12. SubSeq(p, 1, Len(p) - h) = Cut(t, n - h)
  BY <1>2, <1>11 DEF Cut, p
<1> QED
  BY <1>3, <1>4, <1>12 DEF h, p

\* It is the beginning of what is shown of those pieces in the end.
LEMMA ShownIsText ==
  ASSUME NEW t \in Seq(Word), NEW n \in 0..Len(t), Stream!Plain(t)
  PROVE  Shown(t, n) \in Seq(Word) /\ Stream!Begins(Shown(t, n), UpTo(t)[n])
<1> DEFINE h == Stream!Hold(Cut(t, n))
<1>1. h \in 0..2 /\ h <= n
  BY HoldIs
<1>2. UpTo(t)[n] \in Seq(Word)
  BY UpToIsText
<1>3. CASE UpTo(t)[n] # Cut(t, n)
  <2>1. Stream!Begins(UpTo(t)[n], UpTo(t)[n])
    BY <1>2, BeginsAlike
  <2> QED
    BY <1>2, <1>3, <2>1, ShownIs
<1>4. CASE UpTo(t)[n] = Cut(t, n)
  <2>1. Shown(t, n) = Cut(t, n - h)
    BY <1>4, ShownIs
  <2> HIDE DEF h
  <2>2. n - h \in 0..Len(t) /\ \A i \in 1..(n - h) : i \in 1..n
    BY <1>1
  <2>3. /\ Cut(t, n - h) \in Seq(Word) /\ Len(Cut(t, n - h)) = n - h
        /\ \A i \in 1..(n - h) : Cut(t, n - h)[i] = t[i]
    BY <2>2, CutIs
  <2>4. Cut(t, n) \in Seq(Word) /\ Len(Cut(t, n)) = n /\ \A i \in 1..n : Cut(t, n)[i] = t[i]
    BY CutIs
  <2>5. n - h <= n
    BY <1>1
  <2>6. \A i \in 1..(n - h) : Cut(t, n)[i] = Cut(t, n - h)[i]
    BY <2>2, <2>3, <2>4
  <2>7. Stream!Begins(Cut(t, n - h), Cut(t, n))
    BY <2>3, <2>4, <2>5, <2>6, BeginsAlike
  <2> QED
    BY <1>4, <2>1, <2>3, <2>7
<1> QED
  BY <1>3, <1>4

\* However the text is cut, what is shown of it only grows.
LEMMA ShownGrows ==
  ASSUME NEW t \in Seq(Word), NEW m \in 0..Len(t), NEW n \in m..Len(t), Stream!Plain(t)
  PROVE  Stream!Begins(Shown(t, m), Shown(t, n))
<1> DEFINE h == Stream!Hold(Cut(t, n))
<1>0. m \in Nat /\ n \in Nat /\ Len(t) \in Nat /\ m <= n /\ n <= Len(t) /\ n \in 0..Len(t)
  <2>1. Len(t) \in Nat
    OBVIOUS
  <2> QED
    BY <2>1
<1>1. h \in 0..2 /\ h <= n /\ (h > 0 => Starts(t, n, h))
  BY <1>0, HoldIs
<1>2. /\ Shown(t, m) \in Seq(Word) /\ Shown(t, n) \in Seq(Word)
      /\ UpTo(t)[m] \in Seq(Word) /\ UpTo(t)[n] \in Seq(Word)
      /\ Stream!Begins(Shown(t, m), UpTo(t)[m]) /\ Stream!Begins(UpTo(t)[m], UpTo(t)[n])
  BY <1>0, ShownIsText, UpToIsText, RedactedGrows
<1>3. CASE UpTo(t)[n] # Cut(t, n)
  <2>1. Shown(t, n) = UpTo(t)[n]
    BY <1>0, <1>3, ShownIs
  <2> QED
    BY <1>2, <2>1, BeginsOn
<1>4. CASE UpTo(t)[n] = Cut(t, n) /\ m <= n - h
  <2>1. Shown(t, n) = Cut(t, n - h)
    BY <1>0, <1>4, ShownIs
  <2> HIDE DEF h
  <2>2. /\ n - h \in 0..Len(t) /\ n - h \in m..Len(t) /\ (n - h) \in (n - h)..n
        /\ (h = 0 => n - h = n)
        /\ (h > 0 => n \in 1..Len(t))
    BY <1>0, <1>1, <1>4
  <2>3. UpTo(t)[n - h] = Cut(t, n - h)
    <3>1. CASE h = 0
      BY <1>4, <2>2, <3>1
    <3>2. CASE h > 0
      BY <1>1, <1>4, <2>2, <3>2, HeldIsPlain
    <3> QED
      BY <1>1, <3>1, <3>2
  <2>4. Stream!Begins(UpTo(t)[m], UpTo(t)[n - h]) /\ UpTo(t)[n - h] \in Seq(Word)
    BY <2>2, RedactedGrows, UpToIsText
  <2>5. Stream!Begins(Shown(t, m), UpTo(t)[n - h])
    BY <1>2, <2>4, BeginsOn
  <2> QED
    BY <2>1, <2>3, <2>5
<1>5. CASE UpTo(t)[n] = Cut(t, n) /\ m > n - h
  <2> DEFINE g == Stream!Hold(Cut(t, m))
  <2> DEFINE d == m - (n - h)
  <2>1. Shown(t, n) = Cut(t, n - h)
    BY <1>0, <1>5, ShownIs
  <2>2. g \in 0..2 /\ g <= m /\ \A k \in 1..2 : Starts(t, m, k) => k <= g
    BY HoldIs
  <2> HIDE DEF h, g
  <2>3. d \in 1..2 /\ d <= m /\ m \in (n - h)..n /\ n \in 1..Len(t) /\ h > 0 /\ m - d = n - h
        /\ (d = m <=> h = n)
    BY <1>0, <1>1, <1>5
  <2>4. Starts(t, n, h)
    BY <1>1, <2>3
  <2>5. UpTo(t)[m] = Cut(t, m)
    BY <1>5, <2>3, <2>4, HeldIsPlain
  <2>6. Shown(t, m) = Cut(t, m - g)
    BY <2>5, ShownIs DEF g
  <2>7. Starts(t, m, d)
    <3>1. d = m \/ t[m - d] \in Stream!Stops \cup {"=", ":"}
      BY <2>3, <2>4 DEF Starts
    <3>2. (d = 1 => t[m] = "pass") /\ (d = 2 => t[m - 1] = "pass" /\ t[m] = "word")
      <4>1. (h = 1 /\ d = 1 /\ m = n) \/ (h = 2 /\ d = 1 /\ m = n - 1) \/ (h = 2 /\ d = 2 /\ m = n)
        BY <1>0, <1>1, <1>5, <2>3
      <4> HIDE DEF d
      <4> QED
        BY <2>4, <4>1 DEF Starts
    <3> HIDE DEF d
    <3> QED
      BY <2>3, <3>1, <3>2, Zenon DEF Starts
  <2>8. d <= g
    BY <2>2, <2>3, <2>7
  <2>9. m - g \in 0..Len(t) /\ n - h \in 0..Len(t) /\ m - g <= n - h
    BY <1>0, <1>1, <2>2, <2>3, <2>8
  <2>10. /\ Cut(t, n - h) \in Seq(Word) /\ Len(Cut(t, n - h)) = n - h
         /\ \A i \in 1..(n - h) : Cut(t, n - h)[i] = t[i]
    BY <2>9, CutIs
  <2>11. /\ Cut(t, m - g) \in Seq(Word) /\ Len(Cut(t, m - g)) = m - g
         /\ \A i \in 1..(m - g) : Cut(t, m - g)[i] = t[i]
    BY <2>9, CutIs
  <2>12. \A i \in 1..(m - g) : i \in 1..(n - h)
    BY <2>9
  <2>13. \A i \in 1..(m - g) : Cut(t, n - h)[i] = Cut(t, m - g)[i]
    BY <2>10, <2>11, <2>12
  <2>14. Stream!Begins(Cut(t, m - g), Cut(t, n - h))
    BY <2>9, <2>10, <2>11, <2>13, BeginsAlike
  <2> QED
    BY <2>1, <2>6, <2>14
<1> QED
  BY <1>0, <1>1, <1>3, <1>4, <1>5

\* What the stream keeps: what was emitted is what the redactors show of what
\* has arrived, of all that has arrived once they were flushed, of a text without
\* a quoted key.
StreamTyped ==
  /\ \A k \in Stream!Kinds : text[k] \in Seq(Word) /\ fed[k] \in 0..Len(text[k])
  /\ text.answer \in AnswerTexts /\ text.thinking \in ThinkingTexts
  /\ fed \in [Stream!Kinds -> Nat]
  /\ \A k \in Stream!Kinds : Stream!Plain(text[k]) => emitted[k] \in Seq(Word) /\ shown[k] = emitted[k]
  /\ closed \in BOOLEAN /\ cancel \in BOOLEAN /\ end \in {"streams", "ok", "cancelled"}
Emitted ==
  /\ \A k \in Stream!Kinds : Stream!Plain(text[k]) =>
       emitted[k] \in {Shown(text[k], fed[k]), UpTo(text[k])[fed[k]]}
  /\ ~ closed /\ Stream!Plain(text["thinking"]) =>
       emitted["thinking"] = Shown(text["thinking"], fed["thinking"])
  /\ end = "streams" /\ Stream!Plain(text["answer"]) =>
       emitted["answer"] = Shown(text["answer"], fed["answer"])
  /\ end = "ok" /\ Stream!Plain(text["answer"]) =>
       emitted["answer"] = UpTo(text["answer"])[fed["answer"]] /\ fed["answer"] = Len(text["answer"])
Silent(s) == \A i \in DOMAIN s : s[i] # "answer"
Ordered(s) == \A i, j \in DOMAIN s : s[i] = "answer" /\ i < j => s[j] = "answer"
Said ==
  /\ said \in Seq(STRING \cup {"answer", "thinking", "thinking done"})
  /\ Ordered(said) /\ (~ closed => Silent(said))
  /\ end # "streams" => closed \/ end = "cancelled"
StreamInv == StreamTyped /\ Emitted /\ Said

NowShown(n, flushed, k) ==
  IF k \in flushed \/ n[k] # fed[k] THEN Stream!Display(Cut(text[k], n[k]), k \in flushed) ELSE emitted[k]
Gain(n, flushed, k) ==
  IF NowShown(n, flushed, k) = emitted[k] THEN <<>> ELSE Stream!Increment(emitted[k], NowShown(n, flushed, k))
Thought(n, flushed) ==
  IF Gain(n, flushed, "thinking") # <<>> THEN Stream!Note(said, "thinking") ELSE said
ThoughtOut(n, flushed) ==
  IF "thinking" \in flushed /\ ~ closed /\ n.thinking > 0
    THEN Append(Thought(n, flushed), "thinking done") ELSE Thought(n, flushed)
NowSaid(n, flushed) ==
  IF Gain(n, flushed, "answer") # <<>> THEN Stream!Note(ThoughtOut(n, flushed), "answer") ELSE ThoughtOut(n, flushed)

LEMMA ShowsIs ==
  ASSUME NEW n, NEW flushed, Stream!Shows(n, flushed)
  PROVE  /\ fed' = n
         /\ emitted' = [k \in Stream!Kinds |-> NowShown(n, flushed, k)]
         /\ shown' = [k \in Stream!Kinds |-> shown[k] \o Gain(n, flushed, k)]
         /\ said' = NowSaid(n, flushed)
<1> DEFINE display == [k \in Stream!Kinds |-> NowShown(n, flushed, k)]
<1> DEFINE delta == [k \in Stream!Kinds |-> Gain(n, flushed, k)]
<1>1. "answer" \in Stream!Kinds /\ "thinking" \in Stream!Kinds
  BY DEF Stream!Kinds
<1>2. display = [k \in Stream!Kinds |->
                   IF k \in flushed \/ n[k] # fed[k]
                     THEN Stream!Display(SubSeq(text[k], 1, n[k]), k \in flushed) ELSE emitted[k]]
  BY Zenon DEF NowShown, Cut
<1>3. delta = [k \in Stream!Kinds |-> IF display[k] = emitted[k] THEN <<>>
                                     ELSE Stream!Increment(emitted[k], display[k])]
  BY Zenon DEF Gain
<1>4. delta["answer"] = Gain(n, flushed, "answer") /\ delta["thinking"] = Gain(n, flushed, "thinking")
  BY <1>1
<1> HIDE DEF display, delta
<1>5. /\ fed' = n /\ emitted' = display
      /\ shown' = [k \in Stream!Kinds |-> shown[k] \o delta[k]]
      /\ said' = NowSaid(n, flushed)
  BY <1>2, <1>3, <1>4, Zenon DEF Stream!Shows, NowSaid, ThoughtOut, Thought
<1> QED
  BY <1>5, Zenon DEF display, delta

\* Every redactor that moves goes on from what it has shown.
LEMMA ShowsMore ==
  ASSUME StreamTyped, NEW n \in [Stream!Kinds -> Nat], NEW flushed, Stream!Shows(n, flushed),
         \A k \in Stream!Kinds : n[k] \in fed[k]..Len(text[k]),
         \A k \in Stream!Kinds : Stream!Plain(text[k]) /\ (k \in flushed \/ n[k] # fed[k]) =>
           emitted[k] = Shown(text[k], fed[k])
  PROVE  /\ fed' = n
         /\ \A k \in Stream!Kinds : Stream!Plain(text[k]) =>
              /\ emitted'[k] \in Seq(Word) /\ shown'[k] = emitted'[k]
              /\ k \in flushed => emitted'[k] = UpTo(text[k])[n[k]]
              /\ k \notin flushed /\ n[k] # fed[k] => emitted'[k] = Shown(text[k], n[k])
              /\ k \notin flushed /\ n[k] = fed[k] => emitted'[k] = emitted[k]
<1>1. ASSUME NEW k \in Stream!Kinds, Stream!Plain(text[k])
      PROVE  /\ NowShown(n, flushed, k) \in Seq(Word) /\ Stream!Begins(emitted[k], NowShown(n, flushed, k))
             /\ k \in flushed => NowShown(n, flushed, k) = UpTo(text[k])[n[k]]
             /\ k \notin flushed /\ n[k] # fed[k] => NowShown(n, flushed, k) = Shown(text[k], n[k])
             /\ k \notin flushed /\ n[k] = fed[k] => NowShown(n, flushed, k) = emitted[k]
  <2> DEFINE t == text[k]
  <2> DEFINE f == fed[k]
  <2> DEFINE m == n[k]
  <2>1. t \in Seq(Word) /\ f \in 0..Len(t) /\ m \in f..Len(t) /\ emitted[k] \in Seq(Word) /\ Stream!Plain(t)
    BY <1>1 DEF StreamTyped
  <2>2. m \in 0..Len(t) /\ f \in 0..Len(t)
    BY <2>1
  <2>3. CASE k \in flushed
    <3>1. NowShown(n, flushed, k) = Stream!Redacted(Cut(t, m))
      BY <2>3, Zenon DEF NowShown, Stream!Display
    <3> HIDE DEF t, f, m
    <3>2. NowShown(n, flushed, k) = UpTo(t)[m] /\ UpTo(t)[m] \in Seq(Word)
      BY <2>1, <2>2, <3>1, RedactedCut, UpToIsText
    <3>3. emitted[k] = Shown(t, f)
      BY <1>1, <2>3 DEF t, f
    <3>4. /\ Shown(t, f) \in Seq(Word) /\ Stream!Begins(Shown(t, f), UpTo(t)[f])
          /\ UpTo(t)[f] \in Seq(Word) /\ Stream!Begins(UpTo(t)[f], UpTo(t)[m])
      BY <2>1, <2>2, ShownIsText, UpToIsText, RedactedGrows
    <3>5. Stream!Begins(Shown(t, f), UpTo(t)[m])
      BY <3>2, <3>4, BeginsOn
    <3> QED
      BY <2>3, <3>2, <3>3, <3>5, Zenon DEF t, m
  <2>4. CASE k \notin flushed /\ m # f
    <3>1. (k \in flushed) = FALSE
      BY <2>4
    <3>2. NowShown(n, flushed, k) = Stream!Display(Cut(t, m), k \in flushed)
      BY <2>4, Zenon DEF NowShown
    <3>3. NowShown(n, flushed, k) = Shown(t, m)
      BY <3>1, <3>2 DEF Shown
    <3>4. emitted[k] = Shown(t, f)
      BY <1>1, <2>4
    <3> HIDE DEF t, f, m
    <3>5. Shown(t, m) \in Seq(Word) /\ Stream!Begins(Shown(t, f), Shown(t, m))
      BY <2>1, <2>2, ShownIsText, ShownGrows
    <3> QED
      BY <2>4, <3>3, <3>4, <3>5, Zenon DEF t, m, f
  <2>5. CASE k \notin flushed /\ m = f
    <3>1. NowShown(n, flushed, k) = emitted[k]
      BY <2>5, Zenon DEF NowShown
    <3>2. Stream!Begins(emitted[k], emitted[k])
      BY <2>1, BeginsAlike
    <3> QED
      BY <2>1, <2>5, <3>1, <3>2, Zenon
  <2> QED
    BY <2>3, <2>4, <2>5, Zenon
<1>2. ASSUME NEW k \in Stream!Kinds, Stream!Plain(text[k])
      PROVE  emitted[k] \o Gain(n, flushed, k) = NowShown(n, flushed, k)
  <2>1. emitted[k] \in Seq(Word)
    BY <1>2 DEF StreamTyped
  <2> QED
    BY <1>1, <1>2, <2>1, Gained DEF Gain
<1>3. /\ fed' = n
      /\ emitted' = [k \in Stream!Kinds |-> NowShown(n, flushed, k)]
      /\ shown' = [k \in Stream!Kinds |-> shown[k] \o Gain(n, flushed, k)]
  BY ShowsIs
<1>4. \A k \in Stream!Kinds : emitted'[k] = NowShown(n, flushed, k) /\ shown'[k] = shown[k] \o Gain(n, flushed, k)
  BY <1>3, Zenon
<1>5. \A k \in Stream!Kinds : Stream!Plain(text[k]) => shown[k] = emitted[k]
  BY DEF StreamTyped
<1>6. \A k \in Stream!Kinds : Stream!Plain(text[k]) => shown'[k] = emitted'[k]
  BY <1>2, <1>4, <1>5, Zenon
<1> QED
  BY <1>1, <1>3, <1>4, <1>6, Zenon

\* The last word of a kind is not repeated.
SaidSo == STRING \cup {"answer", "thinking", "thinking done"}
LEMMA Noted ==
  ASSUME NEW s \in Seq(SaidSo), NEW k \in SaidSo
  PROVE  /\ Append(s, k) \in Seq(SaidSo) /\ Stream!Note(s, k) \in Seq(SaidSo)
         /\ k # "answer" /\ Silent(s) => Silent(Append(s, k)) /\ Silent(Stream!Note(s, k))
         /\ Ordered(s) => Ordered(Stream!Note(s, "answer"))
         /\ Silent(s) => Ordered(s)
<1> DEFINE a == Append(s, k)
<1>1. /\ a \in Seq(SaidSo) /\ DOMAIN s = 1..Len(s) /\ Len(s) \in Nat
      /\ DOMAIN a = 1..(Len(s) + 1) /\ a[Len(s) + 1] = k /\ \A i \in 1..Len(s) : a[i] = s[i]
  OBVIOUS
<1> HIDE DEF a
<1>2. \A i \in DOMAIN a : i \in DOMAIN s \/ i = Len(s) + 1
  BY <1>1
<1>3. k # "answer" /\ Silent(s) => Silent(a)
  BY <1>1, <1>2, Zenon DEF Silent
<1>4. Stream!Note(s, k) = s \/ Stream!Note(s, k) = a
  BY Zenon DEF Stream!Note, a
<1>5. Ordered(s) => Ordered(Stream!Note(s, "answer"))
  <2> DEFINE b == Append(s, "answer")
  <2>1. /\ DOMAIN b = 1..(Len(s) + 1) /\ b[Len(s) + 1] = "answer" /\ \A i \in 1..Len(s) : b[i] = s[i]
    OBVIOUS
  <2>2. Stream!Note(s, "answer") = s \/ Stream!Note(s, "answer") = b
    BY Zenon DEF Stream!Note
  <2> HIDE DEF b
  <2>3. Ordered(s) => Ordered(b)
    <3> SUFFICES ASSUME Ordered(s), NEW i \in DOMAIN b, NEW j \in DOMAIN b, b[i] = "answer", i < j
                 PROVE  b[j] = "answer"
      BY DEF Ordered
    <3>1. CASE j = Len(s) + 1
      BY <2>1, <3>1
    <3>2. CASE j # Len(s) + 1
      <4>1. i \in DOMAIN s /\ j \in DOMAIN s
        BY <1>1, <2>1, <3>2
      <4> QED
        BY <1>1, <2>1, <4>1 DEF Ordered
    <3> QED
      BY <3>1, <3>2
  <2> QED
    BY <2>2, <2>3
<1>6. Silent(s) => Ordered(s)
  BY Zenon DEF Silent, Ordered
<1> QED
  BY <1>1, <1>3, <1>4, <1>5, <1>6 DEF a

LEMMA SaysInOrder ==
  ASSUME Said, NEW n, NEW flushed, Stream!Shows(n, flushed),
         closed => n["thinking"] = fed["thinking"] /\ "thinking" \notin flushed
  PROVE  /\ said' \in Seq(SaidSo) /\ Ordered(said')
         /\ ~ closed /\ n["answer"] = fed["answer"] /\ "answer" \notin flushed => Silent(said')
<1>1. said' = NowSaid(n, flushed)
  BY ShowsIs
<1>2. said \in Seq(SaidSo) /\ Ordered(said) /\ (~ closed => Silent(said))
  BY DEF Said, SaidSo
<1>3. "thinking" \in SaidSo /\ "thinking done" \in SaidSo /\ "answer" \in SaidSo
      /\ "thinking" # "answer" /\ "thinking done" # "answer"
  BY DEF SaidSo
<1>4. \A k : n[k] = fed[k] /\ k \notin flushed => Gain(n, flushed, k) = <<>>
  BY Zenon DEF Gain, NowShown
<1> DEFINE u == Thought(n, flushed)
<1> DEFINE v == ThoughtOut(n, flushed)
<1>5. CASE closed
  <2>1. u = said
    BY <1>4, <1>5, Zenon DEF Thought
  <2>2. v = said
    BY <1>5, <2>1, Zenon DEF ThoughtOut
  <2>3. said' = said \/ said' = Stream!Note(said, "answer")
    BY <1>1, <2>2, Zenon DEF NowSaid
  <2> QED
    BY <1>2, <1>3, <1>5, <2>3, Noted
<1>6. CASE ~ closed
  <2>1. u \in Seq(SaidSo) /\ Silent(u)
    <3>1. u = said \/ u = Stream!Note(said, "thinking")
      BY Zenon DEF Thought
    <3> QED
      BY <1>2, <1>3, <1>6, <3>1, Noted
  <2>2. v \in Seq(SaidSo) /\ Silent(v)
    <3>1. v = u \/ v = Append(u, "thinking done")
      BY Zenon DEF ThoughtOut
    <3> HIDE DEF u, v
    <3> QED
      BY <1>3, <2>1, <3>1, Noted
  <2>3. said' = v \/ said' = Stream!Note(v, "answer")
    BY <1>1, Zenon DEF NowSaid
  <2>4. n["answer"] = fed["answer"] /\ "answer" \notin flushed => said' = v
    BY <1>1, <1>4, Zenon DEF NowSaid
  <2> HIDE DEF u, v
  <2>5. Ordered(v) /\ Ordered(Stream!Note(v, "answer")) /\ Stream!Note(v, "answer") \in Seq(SaidSo)
    BY <1>3, <2>2, Noted
  <2> QED
    BY <2>2, <2>3, <2>4, <2>5
<1> QED
  BY <1>5, <1>6

LEMMA Worded ==
  ASSUME NEW t \in Seq(STRING)
  PROVE  t \in Seq(Word)
<1>1. t \in [1..Len(t) -> STRING] /\ Len(t) \in Nat
  OBVIOUS
<1>2. t \in [1..Len(t) -> Word]
  BY <1>1 DEF Word
<1> HIDE DEF Word
<1> QED
  BY <1>1, <1>2

LEMMA StreamInit == Stream!Init => StreamInv
<1> SUFFICES ASSUME Stream!Init
             PROVE  StreamInv
  OBVIOUS
<1>1. /\ text \in [answer : AnswerTexts, thinking : ThinkingTexts]
      /\ fed = [k \in Stream!Kinds |-> 0]
      /\ emitted = [k \in Stream!Kinds |-> <<>>] /\ shown = [k \in Stream!Kinds |-> <<>>]
      /\ closed = FALSE /\ said = <<>> /\ cancel = FALSE /\ end = "streams"
  BY DEF Stream!Init
<1>2. text.answer \in AnswerTexts /\ text.thinking \in ThinkingTexts
  BY <1>1
<1>3. \A k \in Stream!Kinds : k = "answer" \/ k = "thinking"
  BY DEF Stream!Kinds
<1>4. \A k \in Stream!Kinds : text[k] \in Seq(Word) /\ Len(text[k]) \in Nat
  <2>1. text.answer \in Seq(STRING) /\ text.thinking \in Seq(STRING)
    BY <1>2, TextsAre
  <2>2. text["answer"] \in Seq(Word) /\ text["thinking"] \in Seq(Word)
    BY <2>1, Worded
  <2>3. \A k \in Stream!Kinds : text[k] \in Seq(Word)
    BY <1>3, <2>2, Zenon
  <2>4. \A t \in Seq(Word) : Len(t) \in Nat
    OBVIOUS
  <2> QED
    BY <2>3, <2>4
<1>5. <<>> \in Seq(Word) /\ \A k \in Stream!Kinds : emitted[k] = <<>> /\ shown[k] = <<>>
  BY <1>1
<1>6. StreamTyped
  <2>1. fed \in [Stream!Kinds -> Nat] /\ \A k \in Stream!Kinds : fed[k] \in 0..Len(text[k])
    BY <1>1, <1>4
  <2> QED
    BY <1>1, <1>2, <1>4, <1>5, <2>1 DEF StreamTyped
<1>7. \A k \in Stream!Kinds : Stream!Plain(text[k]) => emitted[k] = Shown(text[k], fed[k])
  <2> SUFFICES ASSUME NEW k \in Stream!Kinds, Stream!Plain(text[k])
               PROVE  emitted[k] = Shown(text[k], fed[k])
    OBVIOUS
  <2> DEFINE t == text[k]
  <2>1. t \in Seq(Word) /\ 0 \in 0..Len(t) /\ Stream!Plain(t)
    BY <1>4
  <2>2. fed[k] = 0 /\ emitted[k] = <<>>
    BY <1>1
  <2> HIDE DEF t
  <2>3. UpTo(t)[0] = <<>> /\ Shown(t, 0) \in Seq(Word) /\ Stream!Begins(Shown(t, 0), UpTo(t)[0])
    BY <2>1, UpToUnfolds, ShownIsText
  <2>4. Len(Shown(t, 0)) <= 0
    BY <2>3 DEF Stream!Begins
  <2>5. Shown(t, 0) = <<>>
    BY <2>3, <2>4
  <2> QED
    BY <2>2, <2>5 DEF t
<1>8. Emitted
  BY <1>1, <1>7 DEF Emitted, Stream!Kinds
<1>9. Said
  BY <1>1 DEF Said, Ordered, Silent
<1> QED
  BY <1>6, <1>8, <1>9 DEF StreamInv

\* The redactors go on: the end of a part of what they keep.
LEMMA RedactorsStep ==
  ASSUME StreamInv, NEW n \in [Stream!Kinds -> Nat], NEW flushed, Stream!Shows(n, flushed), end = "streams",
         UNCHANGED text, \A k \in Stream!Kinds : n[k] \in fed[k]..Len(text[k]),
         closed => n["thinking"] = fed["thinking"] /\ "thinking" \notin flushed,
         closed' \in BOOLEAN, cancel' \in BOOLEAN, end' \in {"streams", "ok", "cancelled"},
         closed => closed',
         n["answer"] # fed["answer"] \/ "thinking" \in flushed \/ "answer" \in flushed => closed',
         end' = "streams" => "answer" \notin flushed,
         end' = "ok" => "answer" \in flushed /\ n["answer"] = Len(text["answer"]),
         end' = "ok" => closed'
  PROVE  StreamInv'
<1>1. StreamTyped /\ Emitted /\ Said
  BY DEF StreamInv
<1>2. "answer" \in Stream!Kinds /\ "thinking" \in Stream!Kinds
      /\ \A k \in Stream!Kinds : k = "answer" \/ k = "thinking"
  BY DEF Stream!Kinds
<1>3. \A k \in Stream!Kinds : Stream!Plain(text[k]) /\ (k \in flushed \/ n[k] # fed[k]) =>
        emitted[k] = Shown(text[k], fed[k])
  <2>1. Stream!Plain(text["answer"]) => emitted["answer"] = Shown(text["answer"], fed["answer"])
    BY <1>1 DEF Emitted
  <2>2. ~ closed /\ Stream!Plain(text["thinking"]) =>
        emitted["thinking"] = Shown(text["thinking"], fed["thinking"])
    BY <1>1 DEF Emitted
  <2> QED
    BY <1>2, <2>1, <2>2, Zenon
<1>4. /\ fed' = n
      /\ \A k \in Stream!Kinds : Stream!Plain(text[k]) =>
           /\ emitted'[k] \in Seq(Word) /\ shown'[k] = emitted'[k]
           /\ k \in flushed => emitted'[k] = UpTo(text[k])[n[k]]
           /\ k \notin flushed /\ n[k] # fed[k] => emitted'[k] = Shown(text[k], n[k])
           /\ k \notin flushed /\ n[k] = fed[k] => emitted'[k] = emitted[k]
  BY <1>1, <1>3, ShowsMore
<1>5. StreamTyped'
  <2>1. \A k \in Stream!Kinds : text[k] \in Seq(Word) /\ n[k] \in 0..Len(text[k])
    <3> SUFFICES ASSUME NEW k \in Stream!Kinds
                 PROVE  text[k] \in Seq(Word) /\ n[k] \in 0..Len(text[k])
      OBVIOUS
    <3> DEFINE t == text[k]
    <3> DEFINE f == fed[k]
    <3> DEFINE m == n[k]
    <3>1. t \in Seq(Word) /\ f \in 0..Len(t) /\ m \in f..Len(t)
      BY <1>1 DEF StreamTyped
    <3> HIDE DEF t, f, m
    <3>2. m \in 0..Len(t)
      BY <3>1
    <3> QED
      BY <3>1, <3>2 DEF t, m
  <2> QED
    BY <1>1, <1>4, <2>1 DEF StreamTyped
<1>6. Emitted'
  <2>1. \A k \in Stream!Kinds : Stream!Plain(text[k]) =>
          emitted'[k] \in {Shown(text[k], n[k]), UpTo(text[k])[n[k]]}
    BY <1>1, <1>4, Zenon DEF Emitted
  <2>2. ~ closed' /\ Stream!Plain(text["thinking"]) =>
          emitted'["thinking"] = Shown(text["thinking"], n["thinking"])
    BY <1>1, <1>2, <1>4, Zenon DEF Emitted
  <2>3. end' = "streams" /\ Stream!Plain(text["answer"]) =>
          emitted'["answer"] = Shown(text["answer"], n["answer"])
    BY <1>1, <1>2, <1>4, Zenon DEF Emitted
  <2>4. end' = "ok" /\ Stream!Plain(text["answer"]) =>
          emitted'["answer"] = UpTo(text["answer"])[n["answer"]] /\ n["answer"] = Len(text["answer"])
    BY <1>2, <1>4, Zenon
  <2>5. text' = text /\ fed' = n
    BY <1>4
  <2> QED
    BY <2>1, <2>2, <2>3, <2>4, <2>5 DEF Emitted
<1>7. Said'
  <2>1. /\ said' \in Seq(SaidSo) /\ Ordered(said')
        /\ ~ closed /\ n["answer"] = fed["answer"] /\ "answer" \notin flushed => Silent(said')
    BY <1>1, SaysInOrder
  <2>2. ~ closed' => Silent(said')
    BY <2>1
  <2>3. end' # "streams" => closed' \/ end' = "cancelled"
    OBVIOUS
  <2> QED
    BY <2>1, <2>2, <2>3 DEF Said, SaidSo, Ordered, Silent
<1> QED
  BY <1>5, <1>6, <1>7 DEF StreamInv

LEMMA StreamStill == ASSUME StreamInv, UNCHANGED streamVars PROVE StreamInv'
<1>1. /\ text' = text /\ fed' = fed /\ emitted' = emitted /\ shown' = shown /\ closed' = closed
      /\ said' = said /\ cancel' = cancel /\ end' = end
  BY DEF streamVars
<1>2. StreamTyped' /\ Emitted'
  BY <1>1 DEF StreamInv, StreamTyped, Emitted
<1>3. Said'
  BY <1>1 DEF StreamInv, Said, Ordered, Silent
<1> QED
  BY <1>2, <1>3 DEF StreamInv

LEMMA StreamStep == ASSUME StreamInv, Stream!Next PROVE StreamInv'
<1>1. /\ "answer" \in Stream!Kinds /\ "thinking" \in Stream!Kinds /\ "answer" # "thinking"
      /\ \A k \in Stream!Kinds : k = "answer" \/ k = "thinking"
  BY DEF Stream!Kinds
<1>2. /\ fed \in [Stream!Kinds -> Nat] /\ closed \in BOOLEAN /\ cancel \in BOOLEAN
      /\ \A k \in Stream!Kinds : fed[k] \in 0..Len(text[k]) /\ Len(text[k]) \in Nat
  <2>1. \A t \in Seq(Word) : Len(t) \in Nat
    OBVIOUS
  <2> QED
    BY <2>1 DEF StreamInv, StreamTyped
<1>3. \A k \in Stream!Kinds : fed[k] \in fed[k]..Len(text[k])
  BY <1>2
<1>4. ASSUME NEW i \in 1..3, Stream!Reasoning(i)
      PROVE  StreamInv'
  <2> DEFINE n == [fed EXCEPT !.thinking = fed.thinking + i]
  <2>1. /\ end = "streams" /\ ~ closed /\ fed.thinking + i <= Len(text.thinking)
        /\ Stream!Shows(n, {}) /\ UNCHANGED <<text, closed, cancel, end>>
    BY <1>4, Zenon DEF Stream!Reasoning
  <2>2. /\ n \in [Stream!Kinds -> Nat] /\ n["answer"] = fed["answer"]
        /\ n["thinking"] = fed["thinking"] + i
    BY <1>1, <1>2
  <2>3. \A k \in Stream!Kinds : n[k] \in fed[k]..Len(text[k])
    <3>1. n["thinking"] \in fed["thinking"]..Len(text["thinking"])
      BY <1>1, <1>2, <2>1, <2>2
    <3> HIDE DEF n
    <3> QED
      BY <1>1, <1>3, <2>2, <3>1
  <2> HIDE DEF n
  <2> QED
    BY <1>2, <2>1, <2>2, <2>3, RedactorsStep
<1>5. ASSUME NEW i \in 1..3, Stream!Content(i)
      PROVE  StreamInv'
  <2> DEFINE n == [fed EXCEPT !.answer = fed.answer + i]
  <2> DEFINE flushed == IF closed THEN {} ELSE {"thinking"}
  <2>1. /\ end = "streams" /\ fed.answer + i <= Len(text.answer)
        /\ Stream!Shows(n, flushed) /\ closed' = TRUE /\ UNCHANGED <<text, cancel, end>>
    BY <1>5, Zenon DEF Stream!Content
  <2>2. /\ n \in [Stream!Kinds -> Nat] /\ n["thinking"] = fed["thinking"]
        /\ n["answer"] = fed["answer"] + i
    BY <1>1, <1>2
  <2>3. \A k \in Stream!Kinds : n[k] \in fed[k]..Len(text[k])
    <3>1. n["answer"] \in fed["answer"]..Len(text["answer"])
      BY <1>1, <1>2, <2>1, <2>2
    <3> HIDE DEF n
    <3> QED
      BY <1>1, <1>3, <2>2, <3>1
  <2>4. "answer" \notin flushed /\ (closed => "thinking" \notin flushed)
    BY <1>1
  <2> HIDE DEF n, flushed
  <2> QED
    BY <1>2, <2>1, <2>2, <2>3, <2>4, RedactorsStep
<1>6. CASE Stream!Cancel
  <2>1. end = "streams" /\ cancel' = TRUE /\ UNCHANGED <<text, fed, emitted, shown, closed, said, end>>
    BY <1>6 DEF Stream!Cancel
  <2>2. StreamTyped' /\ Emitted'
    BY <2>1 DEF StreamInv, StreamTyped, Emitted
  <2>3. Said'
    BY <2>1 DEF StreamInv, Said, Ordered, Silent
  <2> QED
    BY <2>2, <2>3 DEF StreamInv
<1> DEFINE all == IF closed THEN {"answer"} ELSE Stream!Kinds
<1>7. "answer" \in all /\ (closed => "thinking" \notin all)
  BY <1>1
<1>8. CASE Stream!Finish
  <2>1. /\ end = "streams" /\ fed["answer"] = Len(text["answer"])
        /\ Stream!Shows(fed, all) /\ closed' = TRUE /\ end' = "ok" /\ UNCHANGED <<text, cancel>>
    BY <1>8 DEF Stream!Finish
  <2> HIDE DEF all
  <2> QED
    BY <1>2, <1>3, <1>7, <2>1, RedactorsStep
<1>9. CASE Stream!Cancelled
  <2>1. /\ end = "streams" /\ end' = "cancelled" /\ UNCHANGED <<text, cancel>>
        /\ \/ Stream!Shows(fed, all) /\ closed' = TRUE
           \/ UNCHANGED <<fed, emitted, shown, said, closed>>
    BY <1>9 DEF Stream!Cancelled
  <2> HIDE DEF all
  <2>2. CASE Stream!Shows(fed, all) /\ closed' = TRUE
    BY <1>2, <1>3, <1>7, <2>1, <2>2, RedactorsStep
  <2>3. CASE UNCHANGED <<fed, emitted, shown, said, closed>>
    <3>1. StreamTyped' /\ Emitted'
      BY <2>1, <2>3 DEF StreamInv, StreamTyped, Emitted
    <3>2. Said'
      BY <2>1, <2>3 DEF StreamInv, Said, Ordered, Silent
    <3> QED
      BY <3>1, <3>2 DEF StreamInv
  <2> QED
    BY <2>1, <2>2, <2>3
<1> QED
  BY <1>4, <1>5, <1>6, <1>8, <1>9 DEF Stream!Next

LEMMA StreamMeans == StreamInv => Stream!TypeOK /\ Stream!StreamIsRedacted
<1> SUFFICES ASSUME StreamInv
             PROVE  Stream!TypeOK /\ Stream!StreamIsRedacted
  OBVIOUS
<1>1. StreamTyped /\ Emitted /\ Said
  BY DEF StreamInv
<1>2. ASSUME NEW k \in Stream!Kinds, Stream!Plain(text[k])
      PROVE  Stream!Begins(shown[k], Stream!Redacted(text[k]))
  <2> DEFINE t == text[k]
  <2> DEFINE f == fed[k]
  <2>1. t \in Seq(Word) /\ f \in 0..Len(t) /\ shown[k] = emitted[k] /\ Stream!Plain(t)
    BY <1>1, <1>2 DEF StreamTyped
  <2>2. emitted[k] = Shown(t, f) \/ emitted[k] = UpTo(t)[f]
    BY <1>1, <1>2, Zenon DEF Emitted
  <2> HIDE DEF t, f
  <2> DEFINE z == Len(t)
  <2>3. z \in 0..Len(t) /\ z \in f..Len(t)
    BY <2>1
  <2>4. Stream!Redacted(t) = UpTo(t)[z]
    BY <2>1, PlainIs
  <2> HIDE DEF z
  <2>5. /\ Shown(t, f) \in Seq(Word) /\ UpTo(t)[f] \in Seq(Word) /\ UpTo(t)[z] \in Seq(Word)
        /\ Stream!Begins(Shown(t, f), UpTo(t)[f]) /\ Stream!Begins(UpTo(t)[f], UpTo(t)[z])
    BY <2>1, <2>3, ShownIsText, UpToIsText, RedactedGrows
  <2>6. Stream!Begins(Shown(t, f), UpTo(t)[z])
    BY <2>5, BeginsOn
  <2>7. Stream!Begins(shown[k], UpTo(t)[z])
    BY <2>1, <2>2, <2>5, <2>6, Zenon
  <2> QED
    BY <2>4, <2>7 DEF t
<1>3. end = "ok" /\ Stream!Plain(text["answer"]) => shown["answer"] = Stream!Redacted(text["answer"])
  <2> SUFFICES ASSUME end = "ok", Stream!Plain(text["answer"])
               PROVE  shown["answer"] = Stream!Redacted(text["answer"])
    OBVIOUS
  <2>1. text["answer"] \in Seq(Word) /\ shown["answer"] = emitted["answer"]
    BY <1>1 DEF StreamTyped, Stream!Kinds
  <2>2. Stream!Redacted(text["answer"]) = UpTo(text["answer"])[Len(text["answer"])]
    BY <2>1, PlainIs
  <2> QED
    BY <1>1, <2>1, <2>2, Zenon DEF Emitted
<1>4. \A i, j \in DOMAIN said : said[i] = "answer" /\ i < j => said[j] = "answer"
  BY <1>1 DEF Said, Ordered
<1>5. Stream!TypeOK
  BY <1>1 DEF StreamTyped, Stream!TypeOK
<1> QED
  BY <1>2, <1>3, <1>4, <1>5, Zenon DEF Stream!StreamIsRedacted

-----------------------------------------------------------------------------
(* The files of a profile *)

\* What a command does by where it is, and what it relies on: no profile is
\* made while one is deleted, and a command that met no other finds what it
\* found when it began.
Doing(p) ==
  /\ importer[p].op = "none" <=> importer[p].at = "idle"
  /\ importer[p].op = "delete" <=> importer[p].at \in {"emptying", "flat"}
  /\ importer[p].at = "torn" => importer[p].op \in {"create", "update"}
  /\ made => importer[p].op # "delete" /\ (importer[p].at \in {"copying", "copied"} => disk.json # "none")
  /\ ~mixed => /\ importer[p].op # "none" => \A q \in Procs \ {p} : importer[q].op = "none"
               /\ importer[p].op \in {"update", "import", "clear", "open"} => Profile!Exists
               /\ importer[p].at \in {"copying", "copied"} => disk.json # "none"
               /\ importer[p].at = "flat" => disk.cookie = 0
Housed == ~disk.dir => disk.json = "none" /\ disk.cookie = 0

ProfileInv ==
  /\ Profile!TypeOK /\ Housed /\ \A p \in Procs : Doing(p)
  /\ Profile!MadeStays /\ Profile!CookiesGoWithProfile

LEMMA ProfileSizes == MaxImports \in Nat /\ MaxCuts \in Nat
BY RecordsAssumption

LEMMA ProfileInit == Profile!Init => ProfileInv
<1> SUFFICES ASSUME Profile!Init PROVE ProfileInv
  OBVIOUS
<1>1. \A p \in Procs : importer[p].op = "none" /\ importer[p].at = "idle"
  BY DEF Profile!Init, Profile!Quiet
<1>2. /\ disk.dir = FALSE /\ disk.json = "none" /\ disk.cookie = 0 /\ made = (disk.flat = "whole")
      /\ disk \in [dir : BOOLEAN, json : {"none", "torn", "whole"}, flat : {"none", "whole"}, cookie : 0..MaxImports]
  <2>1. 0 \in 0..MaxImports
    BY ProfileSizes
  <2>2. PICK f \in {"none", "whole"} : disk = [dir |-> FALSE, json |-> "none", flat |-> f, cookie |-> 0]
    BY DEF Profile!Init
  <2>3. made = (disk.flat = "whole")
    BY DEF Profile!Init
  <2> QED
    BY <2>1, <2>2, <2>3
<1>3. Profile!TypeOK
  <2>1. 0 \in 0..MaxImports /\ 0 \in 0..MaxCuts
    BY ProfileSizes
  <2>2. importer \in [Procs -> [op : Profile!Ops \cup {"none"}, cookie : 0..MaxImports,
                     at : {"idle", "layout", "copying", "copied", "ready", "torn", "emptying", "flat"}]]
    BY <2>1 DEF Profile!Init, Profile!Quiet
  <2> QED
    BY <1>2, <2>1, <2>2, Zenon DEF Profile!Init, Profile!TypeOK
<1>4. \A p \in Procs : Doing(p)
  BY <1>1, <1>2, SMTT(30) DEF Doing
<1> QED
  BY <1>2, <1>3, <1>4 DEF ProfileInv, Housed, Profile!MadeStays, Profile!Exists, Profile!CookiesGoWithProfile

\* The others go on as they were.
LEMMA ProfileStep ==
  ASSUME ProfileInv, Profile!Next
  PROVE  ProfileInv'
<1>i. /\ Profile!TypeOK /\ Housed /\ \A q \in Procs : Doing(q)
      /\ Profile!MadeStays /\ Profile!CookiesGoWithProfile
  BY DEF ProfileInv
<1>0. PICK p \in Procs :
        \/ Profile!Create(p) \/ Profile!Update(p) \/ Profile!Import(p) \/ Profile!Clear(p)
        \/ Profile!Open(p) \/ Profile!Delete(p) \/ Profile!LayoutFound(p) \/ Profile!Migrate(p)
        \/ Profile!Copy(p) \/ Profile!Copied(p) \/ Profile!Remove(p) \/ Profile!MakeDir(p)
        \/ Profile!Truncate(p)
        \/ Profile!Write(p) \/ Profile!WriteCookie(p) \/ Profile!RemoveCookie(p)
        \/ Profile!ReadCookie(p) \/ Profile!Empty(p) \/ Profile!RemoveFlat(p) \/ Profile!Cut(p)
  BY DEF Profile!Next
<1> DEFINE c == importer[p]
           d == importer'[p]
<1> USE DEF Profile!Exists, Profile!Goto, Profile!Leaves, Profile!Keep, Profile!Begins, Profile!Others,
            Profile!Readable, Profile!AtLayout
<1>1. /\ importer' = [importer EXCEPT ![p] = d]
      /\ d \in [op : Profile!Ops \cup {"none"}, cookie : 0..MaxImports,
                at : {"idle", "layout", "copying", "copied", "ready", "torn", "emptying", "flat"}]
  BY <1>0, <1>i, ProfileSizes
  DEF Profile!TypeOK, Profile!Create, Profile!Update, Profile!Import, Profile!Clear, Profile!Open,
      Profile!Delete, Profile!LayoutFound, Profile!Migrate, Profile!Copy, Profile!Copied, Profile!Remove, Profile!MakeDir,
      Profile!Truncate, Profile!Write, Profile!WriteCookie, Profile!RemoveCookie, Profile!ReadCookie,
      Profile!Empty, Profile!RemoveFlat, Profile!Cut, Profile!Quiet, Profile!Ops
<1>2. /\ disk' \in [dir : BOOLEAN, json : {"none", "torn", "whole"}, flat : {"none", "whole"}, cookie : 0..MaxImports]
      /\ imports' \in 0..MaxImports /\ cuts' \in 0..MaxCuts /\ made' \in BOOLEAN /\ mixed' \in BOOLEAN
  <2> DEFINE Files == [dir : BOOLEAN, json : {"none", "torn", "whole"}, flat : {"none", "whole"}, cookie : 0..MaxImports]
  <2>1. disk \in Files /\ c.cookie \in 0..MaxImports /\ 0 \in 0..MaxImports
    BY <1>i, ProfileSizes DEF Profile!TypeOK
  <2>3. disk' \in Files
    <3>0. CASE Profile!Migrate(p) \/ Profile!Copy(p) \/ Profile!Copied(p)
      BY <2>1, <3>0 DEF Profile!Migrate, Profile!Copy, Profile!Copied
    <3>1. CASE Profile!Remove(p)
      BY <2>1, <3>1 DEF Profile!Remove
    <3>2. CASE Profile!MakeDir(p)
      BY <2>1, <3>2 DEF Profile!MakeDir
    <3>3. CASE Profile!Truncate(p)
      BY <2>1, <3>3 DEF Profile!Truncate
    <3>4. CASE Profile!Write(p)
      BY <2>1, <3>4 DEF Profile!Write
    <3>5. CASE Profile!WriteCookie(p)
      BY <2>1, <3>5 DEF Profile!WriteCookie
    <3>6. CASE Profile!RemoveCookie(p)
      BY <2>1, <3>6 DEF Profile!RemoveCookie
    <3>7. CASE Profile!Empty(p)
      BY <2>1, <3>7 DEF Profile!Empty
    <3>8. CASE Profile!RemoveFlat(p)
      BY <2>1, <3>8 DEF Profile!RemoveFlat
    <3>9. CASE UNCHANGED disk
      BY <2>1, <3>9
    <3> QED
      BY <1>0, <3>0, <3>1, <3>2, <3>3, <3>4, <3>5, <3>6, <3>7, <3>8, <3>9
      DEF Profile!Create, Profile!Update, Profile!Import, Profile!Clear, Profile!Open,
          Profile!Delete, Profile!LayoutFound, Profile!ReadCookie, Profile!Cut
  <2>4. imports' \in 0..MaxImports /\ cuts' \in 0..MaxCuts
    BY <1>0, <1>i, ProfileSizes
    DEF Profile!TypeOK, Profile!Create, Profile!Update, Profile!Import, Profile!Clear, Profile!Open,
      Profile!Delete, Profile!LayoutFound, Profile!Migrate, Profile!Copy, Profile!Copied, Profile!Remove, Profile!MakeDir,
      Profile!Truncate, Profile!Write, Profile!WriteCookie, Profile!RemoveCookie, Profile!ReadCookie,
      Profile!Empty, Profile!RemoveFlat, Profile!Cut
  <2>5. made' \in BOOLEAN /\ mixed' \in BOOLEAN
    BY <1>0, <1>i
    DEF Profile!TypeOK, Profile!Create, Profile!Update, Profile!Import, Profile!Clear, Profile!Open,
      Profile!Delete, Profile!LayoutFound, Profile!Migrate, Profile!Copy, Profile!Copied, Profile!Remove, Profile!MakeDir,
      Profile!Truncate, Profile!Write, Profile!WriteCookie, Profile!RemoveCookie, Profile!ReadCookie,
      Profile!Empty, Profile!RemoveFlat, Profile!Cut
  <2> QED
    BY <2>3, <2>4, <2>5
<1>3. Profile!TypeOK'
  BY <1>1, <1>2, <1>i DEF Profile!TypeOK
<1>4. (\A q \in Procs \ {p} : importer'[q] = importer[q]) /\ importer' = [importer' EXCEPT ![p] = d]
  BY <1>1, <1>i DEF Profile!TypeOK
<1>5. /\ disk.dir \in BOOLEAN /\ disk.json \in {"none", "torn", "whole"} /\ disk.flat \in {"none", "whole"}
      /\ c.op \in Profile!Ops \cup {"none"}
  BY <1>i DEF Profile!TypeOK
<1> DEFINE Fine == (Housed /\ (\A q \in Procs : Doing(q)) /\ Profile!MadeStays /\ Profile!CookiesGoWithProfile)'
<1> SUFFICES Fine
  BY <1>3 DEF ProfileInv
<1>6. ASSUME /\ d.op \in {"create", "update", "import", "clear", "open"} /\ d.at = "layout" /\ c.op = "none"
             /\ disk' = disk /\ made' = made /\ mixed' = (mixed \/ \E q \in Procs \ {p} : importer[q].op # "none")
             /\ d.op # "create" => Profile!Exists
      PROVE  Fine
  <2>1. \A q \in Procs \ {p} : importer'[q] = importer[q] /\ (~mixed' => importer[q].op = "none" /\ ~mixed)
    BY <1>4, <1>6
  <2>2. Housed' /\ Profile!Exists' = Profile!Exists
    BY <1>i, <1>6 DEF Housed
  <2>3. Profile!MadeStays'
    BY <1>i, <1>6, <2>1, <2>2 DEF Profile!MadeStays, Doing
  <2>4. Profile!CookiesGoWithProfile'
    BY <1>i, <1>6, <2>1, <2>2 DEF Profile!CookiesGoWithProfile, Doing
  <2>5. Doing(p)'
    BY <1>6, <2>1, <2>2 DEF Doing
  <2>6. \A q \in Procs \ {p} : Doing(q)'
    BY <1>i, <1>6, <2>1, <2>2 DEF Doing
  <2> QED
    BY <2>2, <2>3, <2>4, <2>5, <2>6
<1>7. CASE Profile!Create(p) \/ Profile!Update(p) \/ Profile!Import(p) \/ Profile!Clear(p) \/ Profile!Open(p)
  BY <1>i, <1>5, <1>6, <1>7
  DEF Profile!Create, Profile!Update, Profile!Import, Profile!Clear, Profile!Open, Profile!TypeOK
<1>8. CASE Profile!Delete(p)
  <2>1. /\ c.op = "none" /\ d.op = "delete" /\ d.at = (IF disk.dir THEN "emptying" ELSE "flat")
        /\ disk' = disk /\ ~made' /\ mixed' = (mixed \/ \E q \in Procs \ {p} : importer[q].op # "none")
    BY <1>i, <1>8 DEF Profile!Delete, Profile!Quiet, Profile!TypeOK
  <2>2. \A q \in Procs \ {p} : importer'[q] = importer[q] /\ (~mixed' => importer[q].op = "none" /\ ~mixed)
    BY <1>4, <2>1
  <2>3. Housed' /\ Profile!Exists' = Profile!Exists
    BY <1>i, <2>1 DEF Housed
  <2>4. Profile!MadeStays' /\ Profile!CookiesGoWithProfile'
    <3>1. c.at \notin {"torn", "copying"} /\ c.op # "delete"
      BY <1>i, <2>1 DEF Doing
    <3>2. Profile!MadeStays'
      BY <1>i, <2>1, <2>2, <2>3, <3>1 DEF Profile!MadeStays
    <3>3. Profile!CookiesGoWithProfile'
      BY <1>i, <2>1, <2>2, <2>3, <3>1 DEF Profile!CookiesGoWithProfile
    <3> QED
      BY <3>2, <3>3
  <2>5. Doing(p)'
    BY <1>i, <1>5, <2>1, <2>2 DEF Doing, Housed
  <2>6. \A q \in Procs \ {p} : Doing(q)'
    BY <1>i, <2>1, <2>2, <2>3 DEF Doing
  <2> QED
    BY <2>3, <2>4, <2>5, <2>6
<1> USE DEF Housed, Doing, Profile!MadeStays, Profile!CookiesGoWithProfile
<1>9. CASE Profile!LayoutFound(p)
  BY <1>i, <1>4, <1>5, <1>9 DEF Profile!LayoutFound, Profile!Quiet, Profile!TypeOK
<1>10. CASE Profile!Migrate(p)
  BY <1>i, <1>4, <1>5, <1>10 DEF Profile!Migrate, Profile!Quiet, Profile!TypeOK
<1>11. CASE Profile!Copy(p)
  BY <1>i, <1>4, <1>5, <1>11 DEF Profile!Copy, Profile!Quiet, Profile!TypeOK
<1>22. CASE Profile!Copied(p)
  BY <1>i, <1>4, <1>5, <1>22 DEF Profile!Copied, Profile!Quiet, Profile!TypeOK
<1>12. CASE Profile!Remove(p)
  BY <1>i, <1>4, <1>5, <1>12 DEF Profile!Remove, Profile!Quiet, Profile!TypeOK
<1>13. CASE Profile!MakeDir(p)
  BY <1>i, <1>4, <1>5, <1>13 DEF Profile!MakeDir, Profile!Quiet, Profile!TypeOK
<1>14. CASE Profile!Truncate(p)
  BY <1>i, <1>4, <1>5, <1>14 DEF Profile!Truncate, Profile!Quiet, Profile!TypeOK
<1>15. CASE Profile!Write(p)
  BY <1>i, <1>4, <1>5, <1>15 DEF Profile!Write, Profile!Quiet, Profile!TypeOK
<1>16. CASE Profile!WriteCookie(p)
  BY <1>i, <1>4, <1>5, <1>16 DEF Profile!WriteCookie, Profile!Quiet, Profile!TypeOK
<1>17. CASE Profile!RemoveCookie(p)
  BY <1>i, <1>4, <1>5, <1>17 DEF Profile!RemoveCookie, Profile!Quiet, Profile!TypeOK
<1>18. CASE Profile!ReadCookie(p)
  BY <1>i, <1>4, <1>5, <1>18 DEF Profile!ReadCookie, Profile!Quiet, Profile!TypeOK
<1>19. CASE Profile!Empty(p)
  BY <1>i, <1>4, <1>5, <1>19 DEF Profile!Empty, Profile!Quiet, Profile!TypeOK
<1>20. CASE Profile!RemoveFlat(p)
  BY <1>i, <1>4, <1>5, <1>20 DEF Profile!RemoveFlat, Profile!Quiet, Profile!TypeOK
<1>21. CASE Profile!Cut(p)
  BY <1>i, <1>4, <1>5, <1>21 DEF Profile!Cut, Profile!Quiet, Profile!TypeOK
<1> QED
  BY <1>0, <1>7, <1>8, <1>9, <1>10, <1>11, <1>12, <1>13, <1>14, <1>15, <1>16, <1>17, <1>18, <1>19, <1>20, <1>21, <1>22

LEMMA ProfileStill == ASSUME ProfileInv, UNCHANGED profileVars PROVE ProfileInv'
<1>1. /\ disk' = disk /\ importer' = importer /\ imports' = imports /\ cuts' = cuts
      /\ made' = made /\ mixed' = mixed
  BY DEF profileVars
<1> QED
  BY <1>1 DEF ProfileInv, Housed, Doing, Profile!TypeOK, Profile!MadeStays, Profile!CookiesGoWithProfile, Profile!Exists

\* A profile is in its directory or in the old file, wherever it is looked for.
LEMMA ProfileMeans ==
  ASSUME ProfileInv
  PROVE  Profile!TypeOK /\ Profile!MadeStays /\ Profile!CookiesGoWithProfile /\ Profile!ListedAlike
<1>1. /\ disk.dir \in BOOLEAN /\ (~ disk.dir => disk.json = "none")
      /\ (disk.flat = "whole") \in BOOLEAN /\ (disk.json = "whole") \in BOOLEAN
  BY DEF ProfileInv, Housed, Profile!TypeOK
<1>2. Profile!ListedAlike
  BY <1>1 DEF Profile!ListedAlike, Profile!Listed, Profile!DesktopLists
<1> QED
  BY <1>2 DEF ProfileInv

-----------------------------------------------------------------------------
(* The choice of a model *)

LEMMA ChoiceNames == Default \in BaseUrls /\ Nil \notin BaseUrls /\ Nil \notin Models
BY RecordsAssumption

\* A list is what a provider has listed; a configuration in use has a model of
\* such a list, or had its provider changed without one.
Given(l) == l \in Choice!Lists /\ \A m \in l.ids : <<l.base, m>> \in served
InUse(c) == c \in Choice!Configs /\ (c = Choice!NoConfig \/ c.alone \/ <<c.base, c.model>> \in served)

Change  == [at : {"idle", "list", "cached", "load", "save"}, cfg : Choice!Configs,
            base : BaseUrls \cup {Nil}, model : Models \cup {Nil}]
Console == [draft : BaseUrls, picker : Choice!Lists, err : BOOLEAN, asks : BaseUrls \cup {Nil}]
ChoiceTyped ==
  /\ writer \in [{"tui", "cli"} -> Change] /\ tui \in Console
  /\ served \subseteq BaseUrls \X Models /\ failed \in BOOLEAN
AsListed ==
  /\ Given(cache) /\ Given(listed) /\ Given(tui.picker)
  /\ InUse(config) /\ \A w \in {"tui", "cli"} : InUse(writer[w].cfg)
\* After a failed fetch the console has no list, and takes none from the file.
Forgotten == failed => tui.picker = Choice!Empty /\ (tui.err \/ tui.asks # Nil)
ChoiceInv == ChoiceTyped /\ AsListed /\ Forgotten

LEMMA NothingChosen ==
  /\ Given(Choice!Empty) /\ InUse(Choice!NoConfig) /\ Choice!Quiet \in Change /\ Choice!Quiet.cfg = Choice!NoConfig
  /\ Choice!NoConfig \in Choice!Configs /\ Choice!Empty \in Choice!Lists
BY DEF Given, InUse, Change, Choice!Empty, Choice!NoConfig, Choice!Quiet, Choice!Lists, Choice!Configs

\* The list of the file is one a provider has given.
LEMMA RevivedIs ==
  ASSUME NEW t \in Console, Given(t.picker), Given(cache)
  PROVE  /\ Choice!Revived(t) \in Console /\ Given(Choice!Revived(t).picker)
         /\ t.err => Choice!Revived(t) = t
         /\ Choice!Revived(t).asks = t.asks /\ Choice!Revived(t).err = t.err
BY DEF Console, Given, Choice!Revived

LEMMA FreshIs ==
  ASSUME InUse(config), Given(cache)
  PROVE  Choice!Fresh \in Console /\ Given(Choice!Fresh.picker)
<1> DEFINE t == [draft |-> IF config.base = Nil THEN Default ELSE config.base,
                 picker |-> Choice!Empty, err |-> FALSE, asks |-> Nil]
<1>1. t \in Console /\ t.picker = Choice!Empty
  BY ChoiceNames, NothingChosen DEF InUse, Choice!Configs, Console
<1>2. Choice!Fresh = Choice!Revived(t)
  BY DEF Choice!Fresh
<1> HIDE DEF t
<1> QED
  BY <1>1, <1>2, NothingChosen, RevivedIs

LEMMA ChoiceInit == Choice!Init => ChoiceInv
<1> SUFFICES ASSUME Choice!Init PROVE ChoiceInv
  OBVIOUS
<1>1. Given(cache) /\ Given(listed) /\ InUse(config)
  BY NothingChosen DEF Choice!Init
<1>2. tui \in Console /\ Given(tui.picker)
  BY <1>1, FreshIs DEF Choice!Init
<1>3. \A w \in {"tui", "cli"} : writer[w] = Choice!Quiet
  BY DEF Choice!Init
<1>4. writer \in [{"tui", "cli"} -> Change]
  BY NothingChosen DEF Choice!Init
<1> QED
  BY <1>1, <1>2, <1>3, <1>4, NothingChosen DEF Choice!Init, ChoiceInv, ChoiceTyped, AsListed, Forgotten

\* What is set was listed, as far as it was checked.
LEMMA SetIs ==
  ASSUME ChoiceInv, NEW c, InUse(c), NEW base \in BaseUrls \cup {Nil}, NEW model \in Models \cup {Nil},
         LET new == Choice!Set(c, base, model)
         IN  new.base # Nil /\ new.model # Nil /\ (model # Nil => Choice!Valid(new.base, new.model))
  PROVE  InUse(Choice!Set(c, base, model))
<1> DEFINE new == Choice!Set(c, base, model)
<1>0. c \in Choice!Configs
  BY DEF InUse
<1>1. /\ new.base = (IF base = Nil THEN c.base ELSE base)
      /\ new.model = (IF model = Nil THEN c.model ELSE model)
      /\ new.alone = (IF model # Nil THEN FALSE ELSE base \notin {Nil, c.base} \/ c.alone)
  BY DEF Choice!Set
<1>2. new \in Choice!Configs
  BY <1>0, Zenon DEF Choice!Set, Choice!Configs
<1>3. CASE model # Nil
  BY <1>1, <1>2, <1>3 DEF InUse, Choice!Valid, ChoiceInv, AsListed, Given
<1>4. CASE model = Nil
  <2>1. CASE new.alone
    BY <1>2, <2>1 DEF InUse
  <2>2. CASE ~ new.alone
    <3>1. new.base = c.base /\ new.model = c.model /\ ~ c.alone /\ c.base # Nil
      BY <1>1, <1>4, <2>2
    <3>2. Choice!NoConfig.base = Nil
      BY DEF Choice!NoConfig
    <3>3. <<c.base, c.model>> \in served
      BY <3>1, <3>2 DEF InUse
    <3> QED
      BY <1>2, <3>1, <3>3 DEF InUse
  <2> QED
    BY <2>1, <2>2
<1> QED
  BY <1>3, <1>4

\* A writer's turn: the others' files and lists stay.
LEMMA WriterGoes ==
  ASSUME ChoiceInv, NEW w \in {"tui", "cli"}, NEW x \in Change, InUse(x.cfg), writer' = [writer EXCEPT ![w] = x],
         InUse(config'), UNCHANGED <<cache, listed, tui, served, failed>>
  PROVE  ChoiceInv'
<1>1. writer' \in [{"tui", "cli"} -> Change] /\ \A v \in {"tui", "cli"} : InUse(writer'[v].cfg)
  BY DEF ChoiceInv, ChoiceTyped, AsListed
<1> QED
  BY <1>1 DEF ChoiceInv, ChoiceTyped, AsListed, Forgotten, Given, InUse

LEMMA ChoiceStep ==
  ASSUME ChoiceInv, Choice!Next
  PROVE  ChoiceInv'
<1>i. ChoiceTyped /\ AsListed /\ Forgotten
  BY DEF ChoiceInv
<1>e. /\ InUse(Choice!NoConfig) /\ Given(Choice!Empty) /\ Given(Choice!Empty)'
      /\ Choice!Quiet \in Change /\ Choice!Quiet.cfg = Choice!NoConfig
  BY NothingChosen DEF Given, Choice!Empty, Choice!Lists
<1>w. \A w \in {"tui", "cli"} : writer[w] \in Change /\ InUse(writer[w].cfg)
  BY <1>i DEF ChoiceTyped, AsListed
\* A change begins.
<1>1. ASSUME NEW w \in {"tui", "cli"}, NEW b \in BaseUrls \cup {Nil}, NEW m \in Models \cup {Nil},
             Choice!Begin(w, b, m), UNCHANGED <<config, cache, listed, tui, served, failed>>
      PROVE  ChoiceInv'
  <2> DEFINE x == [Choice!Quiet EXCEPT !.at = "load", !.base = b, !.model = m]
  <2>1. x \in Change /\ x.cfg = Choice!NoConfig
    BY <1>e DEF Change, Choice!Quiet
  <2>2. writer' = [writer EXCEPT ![w] = x] /\ InUse(config')
    BY <1>1, <1>i DEF Choice!Begin, AsListed, InUse
  <2> HIDE DEF x
  <2> QED
    BY <1>1, <1>e, <2>1, <2>2, WriterGoes
<1>2. ASSUME NEW w \in {"tui", "cli"}, Choice!Load(w) PROVE ChoiceInv'
  <2> DEFINE x == [writer[w] EXCEPT !.at = "save", !.cfg = config]
  <2>1. x \in Change /\ x.cfg = config /\ InUse(config) /\ config' = config
    BY <1>2, <1>i, <1>w DEF Change, InUse, Choice!Load, AsListed
  <2>2. writer' = [writer EXCEPT ![w] = x] /\ UNCHANGED <<cache, listed, tui, served, failed>>
    BY <1>2, <1>i DEF Choice!Load, ChoiceTyped
  <2> HIDE DEF x
  <2> QED
    BY <2>1, <2>2, WriterGoes
<1>3. ASSUME NEW w \in {"tui", "cli"}, Choice!Save(w) PROVE ChoiceInv'
  <2>1. writer' = [writer EXCEPT ![w] = Choice!Quiet] /\ UNCHANGED <<cache, listed, tui, served, failed>>
    BY <1>3 DEF Choice!Save
  <2>2. writer[w].base \in BaseUrls \cup {Nil} /\ writer[w].model \in Models \cup {Nil} /\ InUse(writer[w].cfg)
    BY <1>w DEF Change
  <2>3. InUse(config')
    <3> DEFINE new == Choice!Set(writer[w].cfg, writer[w].base, writer[w].model)
    <3>1. CASE config' = config
      BY <3>1, <1>i DEF AsListed
    <3>2. CASE /\ config' = new /\ new.base # Nil /\ new.model # Nil
               /\ writer[w].model # Nil => Choice!Valid(new.base, new.model)
      BY <3>2, <2>2, SetIs
    <3> QED
      BY <1>3, <3>1, <3>2 DEF Choice!Save
  <2> QED
    BY <1>e, <2>1, <2>3, WriterGoes
\* The lists, and the console.
<1>4. ASSUME tui' \in Console, Given(tui'.picker), failed' => tui'.picker = Choice!Empty /\ (tui'.err \/ tui'.asks # Nil),
             failed' \in BOOLEAN, UNCHANGED <<config, cache, writer, listed, served>>
      PROVE  ChoiceInv'
  BY <1>4, <1>i DEF ChoiceInv, ChoiceTyped, AsListed, Forgotten, Given, InUse
<1>5. ASSUME NEW b \in BaseUrls, NEW ms \in SUBSET Models, Choice!CliFetch(b, ms) PROVE ChoiceInv'
  <2>1. served' = served \cup ({b} \X ms) /\ listed' = [base |-> b, ids |-> ms]
    BY <1>5 DEF Choice!CliFetch, Choice!Serves
  <2>2. served \subseteq served' /\ served' \subseteq BaseUrls \X Models /\ Given(listed)'
    BY <1>i, <2>1 DEF Given, Choice!Lists, ChoiceTyped
  <2>3. writer' = [writer EXCEPT !["cli"].at = "list"] /\ UNCHANGED <<config, cache, tui, failed>>
    BY <1>5 DEF Choice!CliFetch
  <2>4. \A w \in {"tui", "cli"} : writer'[w] \in Change /\ writer'[w].cfg = writer[w].cfg
    BY <1>w, <1>i, <2>3 DEF Change, ChoiceTyped
  <2>5. writer' \in [{"tui", "cli"} -> Change]
    BY <1>i, <2>3, <2>4 DEF ChoiceTyped
  <2>6. Given(cache)' /\ Given(tui.picker)' /\ InUse(config)' /\ \A w \in {"tui", "cli"} : InUse(writer[w].cfg)'
    BY <1>i, <1>w, <2>2, <2>3, <2>4 DEF AsListed, Given, InUse
  <2> QED
    BY <1>i, <2>2, <2>3, <2>5, <2>6 DEF ChoiceInv, ChoiceTyped, AsListed, Forgotten
<1>6. CASE Choice!CliCache
  <2>1. writer' = [writer EXCEPT !["cli"].at = "cached"] /\ cache' = listed
        /\ UNCHANGED <<config, listed, tui, served, failed>>
    BY <1>6 DEF Choice!CliCache
  <2>2. \A w \in {"tui", "cli"} : writer'[w] \in Change /\ writer'[w].cfg = writer[w].cfg
    BY <1>w, <1>i, <2>1 DEF Change, ChoiceTyped
  <2>3. writer' \in [{"tui", "cli"} -> Change]
    BY <1>i, <2>1, <2>2 DEF ChoiceTyped
  <2> QED
    BY <1>i, <1>w, <2>1, <2>2, <2>3 DEF ChoiceInv, ChoiceTyped, AsListed, Forgotten, Given, InUse
<1>7. ASSUME NEW m \in Models, Choice!CliPick(m) PROVE ChoiceInv'
  <2> DEFINE x == [Choice!Quiet EXCEPT !.at = "load", !.base = listed.base, !.model = m]
  <2>1. x \in Change /\ x.cfg = Choice!NoConfig
    BY <1>e, <1>i DEF Change, Choice!Quiet, AsListed, Given, Choice!Lists
  <2>2. /\ writer' = [writer EXCEPT !["cli"] = Choice!Quiet] \/ writer' = [writer EXCEPT !["cli"] = x]
        /\ listed' = Choice!Empty /\ UNCHANGED <<config, cache, tui, served, failed>>
    BY <1>7 DEF Choice!CliPick
  <2> HIDE DEF x
  <2>3. writer' \in [{"tui", "cli"} -> Change] /\ \A w \in {"tui", "cli"} : InUse(writer'[w].cfg)
    BY <1>i, <1>w, <1>e, <2>1, <2>2 DEF ChoiceTyped
  <2> QED
    BY <1>i, <1>e, <2>2, <2>3 DEF ChoiceInv, ChoiceTyped, AsListed, Forgotten, Given, InUse
<1>8. CASE Choice!Reload \/ Choice!Restart
  <2>1. UNCHANGED <<config, cache, writer, listed, served>>
    BY <1>8 DEF Choice!Reload, Choice!Restart
  <2>2. tui \in Console /\ Given(tui.picker) /\ Given(cache) /\ InUse(config)
    BY <1>i DEF ChoiceTyped, AsListed
  <2>3. CASE Choice!Restart
    BY <1>4, <2>1, <2>2, <2>3, FreshIs DEF Choice!Restart, Given
  <2>4. CASE Choice!Reload
    <3>1. tui' = Choice!Revived(tui) /\ tui.asks = Nil /\ failed' = failed
      BY <2>4 DEF Choice!Reload, Choice!Free
    <3>2. Given(tui'.picker)
      BY <2>2, <3>1, RevivedIs
    <3>3. failed => tui.err /\ tui.picker = Choice!Empty
      BY <1>i, <3>1 DEF Forgotten
    <3> QED
      BY <1>4, <1>i, <2>1, <2>2, <3>1, <3>2, <3>3, RevivedIs DEF ChoiceTyped
  <2> QED
    BY <1>8, <2>3, <2>4
<1>9. ASSUME NEW b \in BaseUrls, Choice!CommitBase(b) PROVE ChoiceInv'
  <2>1. tui' = [tui EXCEPT !.draft = b, !.picker = IF @.base = b THEN @ ELSE Choice!Empty]
        /\ UNCHANGED <<config, cache, writer, listed, served, failed>>
    BY <1>9 DEF Choice!CommitBase
  <2>2. tui \in Console /\ Given(tui.picker) /\ Choice!Empty \in Choice!Lists
    BY <1>i, NothingChosen DEF ChoiceTyped, AsListed
  <2>3. /\ tui' \in Console /\ tui'.err = tui.err /\ tui'.asks = tui.asks
        /\ tui'.picker = tui.picker \/ tui'.picker = Choice!Empty
    BY <2>1, <2>2 DEF Console
  <2> QED
    BY <1>4, <1>e, <1>i, <2>1, <2>2, <2>3 DEF Forgotten, ChoiceTyped
<1>10. CASE Choice!Fetch \/ Choice!FetchFails
  <2>1. UNCHANGED <<config, cache, writer, listed, served>>
    BY <1>10 DEF Choice!Fetch, Choice!FetchFails
  <2>2. tui \in Console /\ Given(tui.picker) /\ Choice!Empty \in Choice!Lists /\ failed \in BOOLEAN
    BY <1>i, NothingChosen DEF ChoiceTyped, AsListed
  <2>3. CASE Choice!FetchFails
    <3>1. tui' = [tui EXCEPT !.picker = Choice!Empty, !.err = TRUE, !.asks = Nil] /\ failed' = TRUE
      BY <2>3 DEF Choice!FetchFails
    <3>2. tui' \in Console /\ tui'.picker = Choice!Empty /\ tui'.err
      BY <2>2, <3>1 DEF Console
    <3> QED
      BY <1>4, <1>e, <2>1, <3>1, <3>2
  <2>4. CASE Choice!Fetch
    <3>1. /\ \/ tui' = [tui EXCEPT !.err = TRUE]
             \/ tui' = [tui EXCEPT !.picker = Choice!Empty, !.err = FALSE, !.asks = tui.draft]
          /\ failed' = failed
      BY <2>4 DEF Choice!Fetch
    <3>2. CASE tui' = [tui EXCEPT !.err = TRUE]
      <4>1. tui' \in Console /\ tui'.picker = tui.picker /\ tui'.err
        BY <2>2, <3>2 DEF Console
      <4> QED
        BY <1>4, <1>i, <2>1, <2>2, <3>1, <4>1 DEF Forgotten
    <3>3. CASE tui' = [tui EXCEPT !.picker = Choice!Empty, !.err = FALSE, !.asks = tui.draft]
      <4>1. tui' \in Console /\ tui'.picker = Choice!Empty /\ tui'.asks # Nil
        BY <2>2, <3>3, ChoiceNames DEF Console
      <4> QED
        BY <1>4, <1>e, <2>1, <2>2, <3>1, <4>1
    <3> QED
      BY <3>1, <3>2, <3>3
  <2> QED
    BY <1>10, <2>3, <2>4
<1>11. ASSUME NEW ms \in SUBSET Models, Choice!Fetched(ms) PROVE ChoiceInv'
  <2>1. tui \in Console /\ tui.asks \in BaseUrls
    BY <1>i, <1>11 DEF ChoiceTyped, Choice!Fetched, Console
  <2> PICK b \in BaseUrls : b = tui.asks
    BY <2>1
  <2> DEFINE l == [base |-> b, ids |-> ms]
  <2>2. served' = served \cup ({b} \X ms)
    BY <1>11 DEF Choice!Fetched, Choice!Serves
  <2>3. served \subseteq served' /\ served' \subseteq BaseUrls \X Models /\ Given(l)'
    BY <1>i, <2>1, <2>2 DEF Given, Choice!Lists, ChoiceTyped
  <2>4. /\ tui' = [tui EXCEPT !.picker = IF tui.asks = tui.draft THEN l ELSE Choice!Empty, !.asks = Nil, !.err = FALSE]
        /\ cache' = (IF tui.asks = tui.draft THEN l ELSE cache)
        /\ failed' = FALSE /\ UNCHANGED <<config, writer, listed>>
    BY <1>11 DEF Choice!Fetched
  <2>5. l \in Choice!Lists
    BY <2>1 DEF Choice!Lists
  <2>6. tui' \in Console /\ tui'.picker \in {l, Choice!Empty}
    <3> HIDE DEF l
    <3> QED
      BY <2>1, <2>4, <2>5, NothingChosen DEF Console
  <2>7. Given(tui.picker)'
    BY <1>e, <2>3, <2>6 DEF Given
  <2>8. Given(cache)' /\ Given(listed)' /\ InUse(config)' /\ \A w \in {"tui", "cli"} : InUse(writer[w].cfg)'
    BY <1>i, <1>w, <2>3, <2>4 DEF AsListed, Given, InUse
  <2> QED
    BY <1>i, <2>3, <2>4, <2>6, <2>7, <2>8 DEF ChoiceInv, ChoiceTyped, AsListed, Forgotten
<1>12. ASSUME NEW w \in {"tui", "cli"}, Choice!Touch(w) PROVE ChoiceInv'
  BY <1>1, <1>12 DEF Choice!Touch
<1>13. ASSUME NEW b \in BaseUrls \cup {Nil}, NEW m \in Models \cup {Nil}, Choice!CliSet(b, m) PROVE ChoiceInv'
  BY <1>1, <1>13 DEF Choice!CliSet
<1>14. ASSUME NEW m \in Models, Choice!Enter(m) PROVE ChoiceInv'
  <2>1. tui.draft \in BaseUrls
    BY <1>i DEF ChoiceTyped, Console
  <2> QED
    BY <1>1, <1>14, <2>1 DEF Choice!Enter
<1> QED
  BY <1>2, <1>3, <1>5, <1>6, <1>7, <1>8, <1>9, <1>10, <1>11, <1>12, <1>13, <1>14 DEF Choice!Next

LEMMA ChoiceStill == ASSUME ChoiceInv, UNCHANGED choiceVars PROVE ChoiceInv'
BY DEF choiceVars, ChoiceInv, ChoiceTyped, AsListed, Forgotten, Given, InUse

LEMMA ChoiceMeans ==
  ASSUME ChoiceInv
  PROVE  Choice!TypeOK /\ Choice!ChosenIsListed /\ Choice!FailedFetchForgets
BY DEF ChoiceInv, ChoiceTyped, AsListed, Forgotten, Given, InUse, Console, Change,
       Choice!TypeOK, Choice!ChosenIsListed, Choice!FailedFetchForgets

-----------------------------------------------------------------------------
(* The list of a provider's models *)

LEMMA ListSizes ==
  /\ MaxIds \in Nat /\ MaxPages \in Nat /\ MaxItems \in Nat
  /\ "long" \notin Ids /\ "junk" \notin Ids /\ "key" \notin Ids /\ "none" \notin Links /\ "off" \notin Links
BY RecordsAssumption

\* The elements of A among the first of a sequence, each once.
OnceStep(s, A, f, i) ==
  IF i = 0 THEN <<>>
  ELSE IF s[i] \in A \ List!Range(f[i - 1]) THEN Append(f[i - 1], s[i]) ELSE f[i - 1]
OnceUpTo(s, A) == CHOOSE f : f = [i \in 0..Len(s) |-> OnceStep(s, A, f, i)]

LEMMA OnceUnfolds ==
  ASSUME NEW s, NEW A, Len(s) \in Nat
  PROVE  /\ List!Once(s, A) = OnceUpTo(s, A)[Len(s)]
         /\ \A i \in 0..Len(s) : OnceUpTo(s, A)[i] = OnceStep(s, A, OnceUpTo(s, A), i)
<1> DEFINE Good == {m \in Nat : \E f : f = [i \in 0..m |-> OnceStep(s, A, f, i)]}
<1>1. 0 \in Good
  <2> DEFINE f == [i \in 0..0 |-> <<>>]
  <2>1. f = [i \in 0..0 |-> OnceStep(s, A, f, i)]
    BY DEF OnceStep
  <2> QED
    BY <2>1
<1>2. ASSUME NEW m \in Nat, m \in Good
      PROVE  m + 1 \in Good
  <2>1. PICK f : f = [i \in 0..m |-> OnceStep(s, A, f, i)]
    BY <1>2
  <2> DEFINE g == [i \in 0..(m + 1) |-> IF i = m + 1 THEN OnceStep(s, A, f, i) ELSE f[i]]
  <2>2. ASSUME NEW i \in 0..(m + 1)
        PROVE  g[i] = OnceStep(s, A, g, i)
    <3>1. OnceStep(s, A, f, i) = OnceStep(s, A, g, i)
      <4>1. CASE i = 0
        BY <4>1, Zenon DEF OnceStep
      <4>2. CASE i # 0
        <5>1. i - 1 \in 0..m /\ g[i - 1] = f[i - 1]
          BY <4>2
        <5> HIDE DEF g
        <5> QED
          BY <4>2, <5>1, Zenon DEF OnceStep
      <4> QED
        BY <4>1, <4>2
    <3>2. CASE i = m + 1
      BY <3>1, <3>2
    <3>3. CASE i # m + 1
      <4>1. i \in 0..m /\ g[i] = f[i]
        BY <3>3
      <4>2. f[i] = OnceStep(s, A, f, i)
        BY <2>1, <4>1
      <4> QED
        BY <3>1, <4>1, <4>2
    <3> QED
      BY <3>2, <3>3
  <2>3. g = [i \in 0..(m + 1) |-> OnceStep(s, A, g, i)]
    <3> HIDE DEF OnceStep
    <3> QED
      BY <2>2
  <2>4. \E h : h = [i \in 0..(m + 1) |-> OnceStep(s, A, h, i)]
    <3> HIDE DEF g
    <3> QED
      BY <2>3
  <2> QED
    BY <2>4
<1>3. Nat \subseteq Good
  <2> HIDE DEF Good
  <2> QED
    BY <1>1, <1>2, SetInduction
<1>4. \E f : f = [i \in 0..Len(s) |-> OnceStep(s, A, f, i)]
  BY <1>3
<1>5. OnceUpTo(s, A) = [i \in 0..Len(s) |-> OnceStep(s, A, OnceUpTo(s, A), i)]
  BY <1>4, Zenon DEF OnceUpTo
<1>6. List!Once(s, A) = OnceUpTo(s, A)[Len(s)]
  BY Zenon DEF List!Once, OnceUpTo, OnceStep
<1> QED
  <2> HIDE DEF OnceStep
  <2> QED
    BY <1>5, <1>6

LEMMA RangeIs ==
  ASSUME NEW S, NEW s \in Seq(S)
  PROVE  List!Range(s) = {s[i] : i \in 1..Len(s)} /\ List!Range(s) \subseteq S
BY DEF List!Range

LEMMA OnceIs ==
  ASSUME NEW S, NEW s \in Seq(S), NEW A, NEW i \in 0..Len(s)
  PROVE  LET l == OnceUpTo(s, A)[i]
         IN  /\ l \in Seq(A) /\ \A j, k \in 1..Len(l) : l[j] = l[k] => j = k
             /\ \A x : (\E k \in 1..Len(l) : l[k] = x) <=> x \in A /\ \E k \in 1..i : s[k] = x
<1> DEFINE u == OnceUpTo(s, A)
           Fine(n) == /\ u[n] \in Seq(A) /\ \A j, k \in 1..Len(u[n]) : u[n][j] = u[n][k] => j = k
                      /\ \A x : (\E k \in 1..Len(u[n]) : u[n][k] = x) <=> x \in A /\ \E k \in 1..n : s[k] = x
           Good == {n \in Nat : n <= Len(s) => Fine(n)}
<1>0. Len(s) \in Nat
  OBVIOUS
<1>1. 0 \in Good
  <2>1. u[0] = <<>>
    BY <1>0, OnceUnfolds DEF OnceStep
  <2> HIDE DEF u
  <2>2. u[0] \in Seq(A) /\ Len(u[0]) = 0
    BY <2>1
  <2>3. 1..0 = {} /\ 0 \in Nat
    OBVIOUS
  <2> QED
    BY <2>2, <2>3
<1>2. ASSUME NEW n \in Nat, n \in Good
      PROVE  n + 1 \in Good
  <2> SUFFICES ASSUME n + 1 <= Len(s) PROVE Fine(n + 1)
    OBVIOUS
  <2>1. Fine(n)
    BY <1>0, <1>2
  <2>2. u[n + 1] = IF s[n + 1] \in A \ List!Range(u[n]) THEN Append(u[n], s[n + 1]) ELSE u[n]
    <3>1. n + 1 \in 0..Len(s) /\ n + 1 # 0 /\ (n + 1) - 1 = n
      BY <1>0
    <3>2. u[n + 1] = OnceStep(s, A, u, n + 1)
      BY <1>0, <3>1, OnceUnfolds
    <3> HIDE DEF u
    <3> QED
      BY <3>1, <3>2, Zenon DEF OnceStep
  <2> HIDE DEF u
  <2>3. List!Range(u[n]) = {u[n][k] : k \in 1..Len(u[n])}
    BY <2>1, RangeIs
  <2>4. \A x : (\E k \in 1..(n + 1) : s[k] = x) <=> (\E k \in 1..n : s[k] = x) \/ x = s[n + 1]
    OBVIOUS
  <2>5. CASE s[n + 1] \in A \ List!Range(u[n])
    <3> DEFINE y == s[n + 1]
    <3>1. u[n + 1] = Append(u[n], y) /\ y \in A /\ \A k \in 1..Len(u[n]) : u[n][k] # y
      BY <2>2, <2>3, <2>5
    <3> HIDE DEF y
    <3>2. u[n + 1] \in Seq(A) /\ Len(u[n + 1]) = Len(u[n]) + 1 /\ Len(u[n]) \in Nat
          /\ u[n + 1][Len(u[n]) + 1] = y /\ \A k \in 1..Len(u[n]) : u[n + 1][k] = u[n][k]
      BY <2>1, <3>1
    <3>3. \A k \in 1..Len(u[n + 1]) : k = Len(u[n]) + 1 \/ k \in 1..Len(u[n])
      BY <3>2
    <3>4. \A j, k \in 1..Len(u[n + 1]) : u[n + 1][j] = u[n + 1][k] => j = k
      BY <2>1, <3>1, <3>2, <3>3
    <3>5. \A x : (\E k \in 1..Len(u[n + 1]) : u[n + 1][k] = x) <=> (\E k \in 1..Len(u[n]) : u[n][k] = x) \/ x = y
      <4>1. Len(u[n]) + 1 \in 1..Len(u[n + 1]) /\ \A k \in 1..Len(u[n]) : k \in 1..Len(u[n + 1])
        BY <3>2
      <4> QED
        BY <3>2, <3>3, <4>1, Zenon
    <3>6. \A x : (\E k \in 1..Len(u[n + 1]) : u[n + 1][k] = x) <=> x \in A /\ \E k \in 1..(n + 1) : s[k] = x
      BY <2>1, <2>4, <3>1, <3>5, Zenon DEF y
    <3> QED
      BY <3>2, <3>4, <3>6
  <2>6. CASE ~ (s[n + 1] \in A \ List!Range(u[n]))
    <3>1. u[n + 1] = u[n] /\ (s[n + 1] \in A => \E k \in 1..Len(u[n]) : u[n][k] = s[n + 1])
      BY <2>2, <2>3, <2>6
    <3>2. \A x : (\E k \in 1..Len(u[n + 1]) : u[n + 1][k] = x) <=> x \in A /\ \E k \in 1..(n + 1) : s[k] = x
      BY <2>1, <2>4, <3>1, ZenonT(40)
    <3> QED
      BY <2>1, <3>1, <3>2
  <2> QED
    BY <2>5, <2>6
<1>3. Nat \subseteq Good
  <2> HIDE DEF Good
  <2> QED
    BY <1>1, <1>2, SetInduction
<1>4. i \in Nat /\ i <= Len(s)
  BY <1>0
<1> QED
  BY <1>3, <1>4

\* Of the first of a sequence it is what it is of the whole up to there.
LEMMA OnceOfFirst ==
  ASSUME NEW S, NEW s \in Seq(S), NEW A, NEW n \in 0..Len(s)
  PROVE  List!Once(SubSeq(s, 1, n), A) = OnceUpTo(s, A)[n]
<1> DEFINE t == SubSeq(s, 1, n)
           Good == {i \in Nat : i <= n => OnceUpTo(t, A)[i] = OnceUpTo(s, A)[i]}
<1>0. Len(s) \in Nat /\ n \in Nat /\ t \in Seq(S) /\ Len(t) = n /\ \A i \in 1..n : t[i] = s[i]
  OBVIOUS
<1> HIDE DEF t
<1>1. 0 \in Good
  BY <1>0, OnceUnfolds DEF OnceStep
<1>2. ASSUME NEW i \in Nat, i \in Good
      PROVE  i + 1 \in Good
  <2> SUFFICES ASSUME i + 1 <= n PROVE OnceUpTo(t, A)[i + 1] = OnceUpTo(s, A)[i + 1]
    OBVIOUS
  <2>1. OnceUpTo(t, A)[i] = OnceUpTo(s, A)[i] /\ t[i + 1] = s[i + 1]
    BY <1>0, <1>2
  <2>2. i + 1 \in 0..Len(s) /\ i + 1 \in 0..Len(t) /\ i + 1 # 0 /\ (i + 1) - 1 = i
    BY <1>0
  <2>3. /\ OnceUpTo(t, A)[i + 1] = OnceStep(t, A, OnceUpTo(t, A), i + 1)
        /\ OnceUpTo(s, A)[i + 1] = OnceStep(s, A, OnceUpTo(s, A), i + 1)
    BY <1>0, <2>2, OnceUnfolds
  <2> DEFINE f == OnceUpTo(t, A)
             g == OnceUpTo(s, A)
  <2> HIDE DEF f, g
  <2>4. OnceStep(t, A, f, i + 1) =
          IF t[i + 1] \in A \ List!Range(f[i]) THEN Append(f[i], t[i + 1]) ELSE f[i]
    BY <2>2, Zenon DEF OnceStep
  <2>5. OnceStep(s, A, g, i + 1) =
          IF s[i + 1] \in A \ List!Range(g[i]) THEN Append(g[i], s[i + 1]) ELSE g[i]
    BY <2>2, Zenon DEF OnceStep
  <2> QED
    BY <2>1, <2>3, <2>4, <2>5, Zenon DEF f, g
<1>3. Nat \subseteq Good
  <2> HIDE DEF Good
  <2> QED
    BY <1>1, <1>2, SetInduction
<1>4. List!Once(t, A) = OnceUpTo(t, A)[n]
  BY <1>0, OnceUnfolds
<1> QED
  BY <1>0, <1>3, <1>4 DEF t

\* What there is room for.
LEMMA RoomIs ==
  ASSUME NEW A, NEW s \in Seq(A), \A j, k \in 1..Len(s) : s[j] = s[k] => j = k
  PROVE  /\ List!Room(s) \in Seq(A) /\ Len(List!Room(s)) <= MaxIds
         /\ \A j, k \in 1..Len(List!Room(s)) : List!Room(s)[j] = List!Room(s)[k] => j = k
         /\ Len(List!Room(s)) < MaxIds => Len(s) < MaxIds
         /\ Len(s) <= MaxIds => List!Room(s) = s
<1> DEFINE m == IF Len(s) < MaxIds THEN Len(s) ELSE MaxIds
           r == SubSeq(s, 1, m)
<1>1. m \in 0..Len(s) /\ m \in Nat /\ Len(s) \in Nat /\ m <= MaxIds /\ (m < MaxIds => Len(s) < MaxIds)
      /\ (Len(s) <= MaxIds => m = Len(s))
  BY ListSizes
<1> HIDE DEF m
<1>2. r \in Seq(A) /\ Len(r) = m /\ \A i \in 1..m : r[i] = s[i]
  BY <1>1
<1>3. Len(s) <= MaxIds => r = s
  BY <1>1, <1>2, SeqEqual
<1>4. List!Room(s) = r
  BY DEF List!Room, m
<1> HIDE DEF r
<1>5. \A j, k \in 1..Len(r) : r[j] = r[k] => j = k
  BY <1>1, <1>2
<1> QED
  BY <1>1, <1>2, <1>3, <1>4, <1>5

\* A page of which nothing is told gives all its ids.
LEMMA PageIsWhole ==
  ASSUME NEW p \in List!Page
  PROVE  /\ p.items \in Seq(Ids \cup List!Odd) /\ List!PageIds(p.items) \in Seq(List!Parsed)
         /\ ~ List!PageTold(p) =>
              /\ ~ p.clipped /\ "long" \notin List!Range(p.items)
              /\ \A k \in 1..Len(p.items) :
                   p.items[k] \in Ids => \E j \in 1..Len(List!PageIds(p.items)) : List!PageIds(p.items)[j] = p.items[k]
<1> DEFINE s == p.items
           S == Ids \cup List!Odd
           A == List!Parsed
           u == OnceUpTo(s, A)
<1>1. s \in Seq(S)
  <2>1. s \in List!Items
    BY DEF List!Page
  <2>2. PICK n \in 0..MaxItems : s \in [1..n -> S]
    BY <2>1 DEF List!Items
  <2> QED
    BY <2>2, ListSizes
<1>2. Len(s) \in Nat /\ DOMAIN s = 1..Len(s)
  BY <1>1
<1> HIDE DEF s, S, A
<1>3. \A n \in 0..Len(s) : /\ u[n] \in Seq(A) /\ \A j, k \in 1..Len(u[n]) : u[n][j] = u[n][k] => j = k
                           /\ \A x : (\E k \in 1..Len(u[n]) : u[n][k] = x) <=> x \in A /\ \E k \in 1..n : s[k] = x
  BY <1>1, OnceIs
<1>4. \A n \in 0..Len(s) : List!Once(SubSeq(s, 1, n), A) = u[n]
  BY <1>1, OnceOfFirst
<1>5. List!Once(s, A) = u[Len(s)]
  BY <1>2, OnceUnfolds
<1>6. \A n \in 1..Len(s) : u[n] = OnceStep(s, A, u, n)
  BY <1>2, OnceUnfolds
<1> HIDE DEF u
<1>7. List!PageIds(s) = List!Room(u[Len(s)]) /\ \A n \in 0..Len(s) : List!PageIds(SubSeq(s, 1, n)) = List!Room(u[n])
  BY <1>4, <1>5 DEF List!PageIds, A
<1>8. List!PageIds(s) \in Seq(A)
  BY <1>2, <1>3, <1>7, RoomIs
<1>9. ASSUME ~ List!PageTold(p)
      PROVE  /\ ~ p.clipped /\ "long" \notin List!Range(s)
             /\ \A k \in 1..Len(s) : s[k] \in Ids => \E j \in 1..Len(List!PageIds(s)) : List!PageIds(s)[j] = s[k]
  <2>1. ~ p.clipped /\ "long" \notin List!Range(s)
        /\ \A n \in 1..Len(s) : s[n] \in A => ~ (Len(List!PageIds(SubSeq(s, 1, n - 1))) >= MaxIds)
    BY <1>2, <1>9, Zenon DEF List!PageTold, s, A
  <2> DEFINE Good == {n \in Nat : n <= Len(s) => Len(u[n]) <= MaxIds}
  <2>2. 0 \in Good
    <3>1. u[0] \in Seq(A) /\ \A k \in 1..Len(u[0]) : \E j \in 1..0 : s[j] = u[0][k]
      BY <1>2, <1>3
    <3>2. Len(u[0]) = 0
      BY <3>1
    <3> QED
      BY <3>2, ListSizes
  <2>3. ASSUME NEW n \in Nat, n \in Good
        PROVE  n + 1 \in Good
    <3> SUFFICES ASSUME n + 1 <= Len(s) PROVE Len(u[n + 1]) <= MaxIds
      OBVIOUS
    <3>1. n \in 0..Len(s) /\ n + 1 \in 1..Len(s) /\ n + 1 # 0 /\ (n + 1) - 1 = n
      BY <1>2
    <3>2. Len(u[n]) <= MaxIds /\ u[n] \in Seq(A) /\ Len(u[n]) \in Nat
      BY <1>3, <2>3, <3>1
    <3>3. u[n + 1] = (IF s[n + 1] \in A \ List!Range(u[n]) THEN Append(u[n], s[n + 1]) ELSE u[n])
      BY <1>6, <3>1, Zenon DEF OnceStep
    <3>4. CASE s[n + 1] \in A
      <4>1. ~ (Len(List!Room(u[n])) >= MaxIds)
        BY <1>7, <2>1, <3>1, <3>4
      <4>2. Len(List!Room(u[n])) \in Nat
        BY <1>3, <3>1, RoomIs
      <4>3. Len(u[n]) < MaxIds
        <5>1. \A j, k \in 1..Len(u[n]) : u[n][j] = u[n][k] => j = k
          BY <1>3, <3>1
        <5>2. Len(List!Room(u[n])) < MaxIds => Len(u[n]) < MaxIds
          BY <3>2, <5>1, RoomIs
        <5> QED
          BY <4>1, <4>2, <5>2, ListSizes
      <4>4. Len(Append(u[n], s[n + 1])) = Len(u[n]) + 1
        BY <3>2
      <4> QED
        BY <3>2, <3>3, <4>3, <4>4, ListSizes
    <3>5. CASE s[n + 1] \notin A
      BY <3>2, <3>3, <3>5
    <3> QED
      BY <3>4, <3>5
  <2>4. Nat \subseteq Good
    <3> HIDE DEF Good
    <3> QED
      BY <2>2, <2>3, SetInduction
  <2>5. Len(u[Len(s)]) <= MaxIds
    BY <1>2, <2>4
  <2>6. List!PageIds(s) = u[Len(s)]
    BY <1>2, <1>3, <1>7, <2>5, RoomIs
  <2>7. \A x : x \in Ids => x \in A
    BY DEF A, List!Parsed
  <2>8. Len(s) \in 0..Len(s)
    BY <1>2
  <2>9. ASSUME NEW k \in 1..Len(s), s[k] \in Ids
        PROVE  \E j \in 1..Len(u[Len(s)]) : u[Len(s)][j] = s[k]
    BY <1>3, <2>7, <2>8, <2>9
  <2> QED
    BY <2>1, <2>6, <2>9
<1> QED
  BY <1>1, <1>8, <1>9 DEF s, S, A

\* What is listed after a page, and that it is all there is unless it is full.
LEMMA ListedIs ==
  ASSUME NEW p \in List!Page, ids \in Seq(Ids)
  PROVE  LET l == List!Listed(p)
         IN  /\ l \in Seq(Ids) /\ Len(l) <= MaxIds /\ \A j, k \in 1..Len(l) : l[j] = l[k] => j = k
             /\ Len(l) < MaxIds =>
                  /\ \A i \in 1..Len(ids) : \E k \in 1..Len(l) : l[k] = ids[i]
                  /\ \A i \in 1..Len(List!PageIds(p.items)) :
                       List!PageIds(p.items)[i] \in Ids => \E k \in 1..Len(l) : l[k] = List!PageIds(p.items)[i]
<1> PICK d \in Seq(Ids) : d = ids
  OBVIOUS
<1> DEFINE q == List!PageIds(p.items)
           s == d \o q
           S == Ids \cup List!Parsed
           u == OnceUpTo(s, Ids)[Len(s)]
           l == List!Listed(p)
<1>1. q \in Seq(List!Parsed)
  BY PageIsWhole
<1> HIDE DEF q
<1>2. s \in Seq(S) /\ Len(s) = Len(d) + Len(q) /\ Len(d) \in Nat /\ Len(q) \in Nat
      /\ (\A i \in 1..Len(d) : s[i] = d[i]) /\ \A i \in 1..Len(q) : s[Len(d) + i] = q[i]
  BY <1>1 DEF List!Parsed
<1> HIDE DEF s, S
<1>3. Len(s) \in 0..Len(s) /\ Len(s) \in Nat
  BY <1>2
<1>4. /\ u \in Seq(Ids) /\ \A j, k \in 1..Len(u) : u[j] = u[k] => j = k
      /\ \A x : (\E k \in 1..Len(u) : u[k] = x) <=> x \in Ids /\ \E k \in 1..Len(s) : s[k] = x
  <2> DEFINE f == OnceUpTo(s, Ids)
  <2>1. \A n \in 0..Len(s) : /\ f[n] \in Seq(Ids) /\ \A j, k \in 1..Len(f[n]) : f[n][j] = f[n][k] => j = k
                             /\ \A x : (\E k \in 1..Len(f[n]) : f[n][k] = x) <=> x \in Ids /\ \E k \in 1..n : s[k] = x
    <3>1. s \in Seq(S)
      BY <1>2
    <3> QED
      BY <3>1, OnceIs
  <2> HIDE DEF f
  <2> QED
    BY <1>3, <2>1 DEF f
<1>5. l = List!Room(u)
  <2>1. List!Once(s, Ids) = u
    BY <1>2, <1>3, OnceUnfolds
  <2> QED
    BY <2>1, Zenon DEF List!Listed, List!Accepted, s, q
<1> HIDE DEF u
<1>6. /\ l \in Seq(Ids) /\ Len(l) <= MaxIds /\ \A j, k \in 1..Len(l) : l[j] = l[k] => j = k
      /\ Len(l) < MaxIds => l = u
  BY <1>4, <1>5, RoomIs, ListSizes
<1> HIDE DEF l
<1>7. ASSUME Len(l) < MaxIds
      PROVE  /\ \A i \in 1..Len(d) : \E k \in 1..Len(l) : l[k] = d[i]
             /\ \A i \in 1..Len(q) : q[i] \in Ids => \E k \in 1..Len(l) : l[k] = q[i]
  <2>1. ASSUME NEW i \in 1..Len(d) PROVE \E k \in 1..Len(l) : l[k] = d[i]
    <3>1. i \in 1..Len(s) /\ s[i] = d[i] /\ d[i] \in Ids
      BY <1>2
    <3> QED
      BY <1>4, <1>6, <1>7, <3>1
  <2>2. ASSUME NEW i \in 1..Len(q), q[i] \in Ids PROVE \E k \in 1..Len(l) : l[k] = q[i]
    <3>1. s[Len(d) + i] = q[i]
      BY <1>2
    <3>2. Len(d) + i \in 1..Len(s)
      <4>1. Len(s) = Len(d) + Len(q) /\ Len(d) \in Nat /\ Len(q) \in Nat
        BY <1>2
      <4> QED
        BY <4>1
    <3> QED
      BY <1>4, <1>6, <1>7, <2>2, <3>1, <3>2
  <2> QED
    BY <2>1, <2>2
<1> QED
  BY <1>6, <1>7 DEF l, q

ListTyped ==
  /\ url \in {<<"first">>} \cup ({"link"} \X Links) \cup ({"after"} \X Ids)
  /\ ids \in Seq(Ids) /\ Len(ids) <= MaxIds /\ \A j, k \in 1..Len(ids) : ids[j] = ids[k] => j = k
  /\ truncated \in BOOLEAN /\ hid \in BOOLEAN /\ more \in BOOLEAN /\ pages \in 0..MaxPages
  /\ seenAfter \subseteq Ids /\ offered \subseteq Ids /\ outcome \in {"asking", "list", "error"}
\* While nothing is told there is nothing that is not listed.
AllListed == ~ truncated => ~hid /\ \A x \in offered : \E k \in 1..Len(ids) : ids[k] = x
LastSeen  == outcome = "list" /\ ~ truncated /\ more => ids[Len(ids)] \in seenAfter
ListInv == ListTyped /\ (outcome \in {"asking", "list"} => AllListed) /\ LastSeen

LEMMA ListInit == List!Init => ListInv
<1> SUFFICES ASSUME List!Init PROVE ListInv
  OBVIOUS
<1>1. /\ ids \in Seq(Ids) /\ Len(ids) = 0 /\ 0 \in 0..MaxPages /\ Len(ids) <= MaxIds
      /\ \A j, k \in 1..Len(ids) : ids[j] = ids[k] => j = k
  BY ListSizes DEF List!Init
<1> QED
  BY <1>1 DEF List!Init, ListInv, ListTyped, AllListed, LastSeen

LEMMA ListStep ==
  ASSUME ListInv, List!Next
  PROVE  ListInv'
<1>i. ListTyped /\ (outcome \in {"asking", "list"} => AllListed) /\ LastSeen
  BY DEF ListInv
<1>1. CASE List!Fails
  <2>1. pages' \in 0..MaxPages
    BY <1>i, <1>1, ListSizes DEF List!Fails, ListTyped
  <2> QED
    BY <1>i, <1>1, <2>1 DEF List!Fails, List!Ends, ListInv, ListTyped, AllListed, LastSeen
<1>2. CASE List!PagesOut
  BY <1>i, <1>2 DEF List!PagesOut, List!Stops, List!Ends, ListInv, ListTyped, AllListed, LastSeen
<1>3. ASSUME NEW p \in List!Page, List!Answered(p) PROVE ListInv'
  <2> DEFINE l == List!Listed(p)
             full == Len(l) >= MaxIds
             same == p.more /\ url = <<"link", p.next>>
  <2>1. /\ l \in Seq(Ids) /\ Len(l) <= MaxIds /\ \A j, k \in 1..Len(l) : l[j] = l[k] => j = k
        /\ Len(l) < MaxIds =>
             /\ \A i \in 1..Len(ids) : \E k \in 1..Len(l) : l[k] = ids[i]
             /\ \A i \in 1..Len(List!PageIds(p.items)) :
                  List!PageIds(p.items)[i] \in Ids => \E k \in 1..Len(l) : l[k] = List!PageIds(p.items)[i]
    BY <1>i, ListedIs DEF ListTyped
  <2>2. /\ outcome = "asking" /\ pages < MaxPages /\ pages' = pages + 1
        /\ ids' = l /\ offered' = offered \cup (List!Range(p.items) \ List!Odd)
        /\ truncated' = (truncated \/ List!PageTold(p) \/ full \/ same)
        /\ hid' = (hid \/ p.clipped \/ "long" \in List!Range(p.items)) /\ more' = p.more
        /\ IF full \/ ~ p.more THEN List!Stops(l) ELSE List!Goes(p, l)
    BY <1>3 DEF List!Answered
  <2> HIDE DEF l
  <2>3. p.items \in Seq(Ids \cup List!Odd) /\ p.more \in BOOLEAN /\ p.clipped \in BOOLEAN
        /\ p.next \in Links \cup {"none", "off"}
    BY PageIsWhole DEF List!Page
  <2>4. List!Range(p.items) = {p.items[k] : k \in 1..Len(p.items)} /\ List!Range(p.items) \subseteq Ids \cup List!Odd
    BY <2>3, RangeIs
  <2>5. Len(l) \in Nat
    BY <2>1
  <2>6. AllListed'
    <3> SUFFICES ASSUME ~ truncated' PROVE ~ hid' /\ \A x \in offered' : \E k \in 1..Len(l) : l[k] = x
      BY <2>2, Zenon DEF AllListed
    <3>1. ~ truncated /\ ~ List!PageTold(p) /\ Len(l) < MaxIds
      <4>1. ~ truncated /\ ~ List!PageTold(p) /\ ~ (Len(l) >= MaxIds)
        BY <2>2, Zenon
      <4> QED
        BY <2>5, <4>1, ListSizes
    <3>2. /\ ~ p.clipped /\ "long" \notin List!Range(p.items)
          /\ \A k \in 1..Len(p.items) :
               p.items[k] \in Ids => \E j \in 1..Len(List!PageIds(p.items)) : List!PageIds(p.items)[j] = p.items[k]
      BY <3>1, PageIsWhole
    <3>3. ~ hid /\ \A x \in offered : \E k \in 1..Len(ids) : ids[k] = x
      BY <1>i, <2>2, <3>1 DEF AllListed
    <3>4. ASSUME NEW x \in offered PROVE \E k \in 1..Len(l) : l[k] = x
      BY <2>1, <3>1, <3>3, <3>4
    <3>5. ASSUME NEW x \in List!Range(p.items) \ List!Odd PROVE \E k \in 1..Len(l) : l[k] = x
      <4>1. PICK k \in 1..Len(p.items) : p.items[k] = x
        BY <2>4
      <4>2. x \in Ids
        BY <2>4
      <4> QED
        BY <2>1, <3>1, <3>2, <4>1, <4>2
    <3> QED
      BY <2>2, <3>2, <3>3, <3>4, <3>5
  <2>7. pages' \in 0..MaxPages
    BY <1>i, <2>2, ListSizes DEF ListTyped
  <2>8. offered' \subseteq Ids /\ truncated' \in BOOLEAN /\ hid' \in BOOLEAN /\ more' \in BOOLEAN
    <3>1. List!Range(p.items) \ List!Odd \subseteq Ids
      BY <2>4
    <3> QED
      BY <1>i, <2>2, <2>3, <3>1 DEF ListTyped
  <2>9. CASE List!Stops(l)
    <3>1. /\ outcome' = (IF l = <<>> THEN "error" ELSE "list") /\ UNCHANGED <<url, seenAfter>>
      BY <2>9 DEF List!Stops, List!Ends
    <3>2. full \/ ~ p.more => LastSeen'
      BY <2>2 DEF LastSeen
    <3>3. CASE full \/ ~ p.more
      BY <1>i, <2>1, <2>2, <2>6, <2>7, <2>8, <3>1, <3>2, <3>3 DEF ListInv, ListTyped
    <3>4. CASE ~ (full \/ ~ p.more)
      <4>1. List!Goes(p, l)
        BY <2>2, <3>4
      <4>2. CASE p.next \in Links
        <5>1. url = <<"link", p.next>> \/ outcome' = outcome
          BY <4>1, <4>2, ListSizes DEF List!Goes
        <5>2. truncated'
          BY <2>2, <3>1, <3>4, <5>1
        <5> QED
          BY <1>i, <2>1, <2>2, <2>6, <2>7, <2>8, <3>1, <5>2 DEF ListInv, ListTyped, LastSeen
      <4>3. CASE p.next = "none"
        <5>1. l = <<>> \/ l[Len(l)] \in seenAfter
          BY <2>2, <3>1, <4>1, <4>3, ListSizes DEF List!Goes
        <5>2. LastSeen'
          BY <2>2, <3>1, <5>1 DEF LastSeen
        <5> QED
          BY <1>i, <2>1, <2>2, <2>6, <2>7, <2>8, <3>1, <5>2 DEF ListInv, ListTyped
      <4>4. CASE p.next = "off"
        <5>1. outcome' = "error"
          BY <4>1, <4>4, ListSizes DEF List!Goes, List!Ends
        <5> QED
          BY <1>i, <2>1, <2>2, <2>6, <2>7, <2>8, <3>1, <5>1 DEF ListInv, ListTyped, LastSeen
      <4> QED
        BY <2>3, <4>2, <4>3, <4>4
    <3> QED
      BY <3>3, <3>4
  <2>10. CASE ~ List!Stops(l)
    <3>1. List!Goes(p, l) /\ ~ full /\ p.more
      BY <2>2, <2>10
    <3>2. /\ outcome' \in {"asking", "error"} /\ seenAfter' \subseteq Ids
          /\ url' \in {<<"first">>} \cup ({"link"} \X Links) \cup ({"after"} \X Ids)
      <4>1. CASE p.next \in Links
        <5>1. p.next # "off" /\ p.next # "none"
          BY <4>1, ListSizes
        <5>2. url' = <<"link", p.next>> /\ outcome' = outcome /\ seenAfter' = seenAfter
          BY <2>10, <3>1, <4>1, <5>1 DEF List!Goes
        <5> QED
          BY <1>i, <2>2, <4>1, <5>2 DEF ListTyped
      <4>2. CASE p.next = "off"
        BY <1>i, <3>1, <4>2, ListSizes DEF List!Goes, List!Ends, ListTyped
      <4>3. CASE p.next = "none"
        <5>1. l # <<>> /\ seenAfter' = seenAfter \cup {l[Len(l)]} /\ url' = <<"after", l[Len(l)]>>
              /\ outcome' = outcome
          BY <2>10, <3>1, <4>3, ListSizes DEF List!Goes
        <5>2. l[Len(l)] \in Ids
          BY <2>1, <5>1
        <5> QED
          BY <1>i, <2>2, <5>1, <5>2 DEF ListTyped
      <4> QED
        BY <2>3, <4>1, <4>2, <4>3
    <3> QED
      BY <1>i, <2>1, <2>2, <2>6, <2>7, <2>8, <3>2 DEF ListInv, ListTyped, LastSeen
  <2> QED
    BY <2>9, <2>10
<1> QED
  BY <1>1, <1>2, <1>3 DEF List!Next

LEMMA ListStill == ASSUME ListInv, UNCHANGED listVars PROVE ListInv'
BY DEF listVars, ListInv, ListTyped, AllListed, LastSeen

LEMMA ListMeans == ListInv => List!TypeOK /\ List!WholeUnlessTold
<1> SUFFICES ASSUME ListInv PROVE List!TypeOK /\ List!WholeUnlessTold
  OBVIOUS
<1>1. List!Range(ids) = {ids[k] : k \in 1..Len(ids)} /\ DOMAIN ids = 1..Len(ids)
  BY RangeIs DEF ListInv, ListTyped
<1>2. List!TypeOK
  BY <1>1, Zenon DEF ListInv, ListTyped, List!TypeOK, List!IsInjective
<1> QED
  BY <1>1, <1>2 DEF ListInv, AllListed, LastSeen, List!WholeUnlessTold

-----------------------------------------------------------------------------
(* A cookie file *)

\* What was imported opens, and is imported again from its export; the
\* desktop counts a file as the commands do (cookies.rs:225, catalog.rs:342).
THEOREM CookiesAreKept ==
  ASSUME NEW t, NEW f \in Cookie!Formats,
         \A i \in DOMAIN t.cookies.of : t.cookies.of[i].expires.at \in Int
  PROVE  Cookie!ImportedOpens(t, f) /\ Cookie!CountsAgree(t)
<1> DEFINE s == Cookie!Imported(t, f)
           w == Cookie!Written(s)
<1>1. ASSUME s.ok
      PROVE  Cookie!Loaded(w) = s /\ Cookie!Imported(w, "auto") = s /\ Cookie!Imported(w, "storage-state") = s
  <2>1. s = Cookie!Good(s.cookies, s.origins) /\ Cookie!ValidImport(s)
    <3>1. s = Cookie!ParseImport(t, f) /\ Cookie!ValidImport(s)
      BY <1>1 DEF Cookie!Imported, Cookie!Bad
    <3>2. \E c, o : Cookie!ParseImport(t, f) = Cookie!Good(c, o)
      <4>1. Cookie!ParseImport(t, f).ok
        BY <1>1, <3>1
      <4> QED
        BY <4>1 DEF Cookie!ParseImport, Cookie!Detect, Cookie!ParseStorage, Cookie!ParseCookies, Cookie!Bad, Cookie!Formats
    <3> HIDE DEF s
    <3>3. PICK c, o : s = Cookie!Good(c, o)
      BY <3>1, <3>2
    <3>4. s.cookies = c /\ s.origins = o
      BY <3>3 DEF Cookie!Good
    <3> QED
      BY <3>1, <3>3, <3>4
  <2> HIDE DEF s
  <2>2. /\ w.shape = "object" /\ w.cookies = Cookie!List(s.cookies) /\ w.origins = Cookie!List(s.origins)
        /\ w.cookies.is = "list" /\ w.origins.is = "list" /\ w.cookies # Cookie!Absent
        /\ w.cookies.of = s.cookies /\ w.origins.of = s.origins
    BY DEF Cookie!Written, Cookie!List, Cookie!Absent
  <2> HIDE DEF w
  <2>3. Cookie!ParseStorage(w) = s
    BY <2>1, <2>2 DEF Cookie!ParseStorage
  <2>4. Cookie!ParseImport(w, "auto") = s /\ Cookie!ParseImport(w, "storage-state") = s
    BY <2>2, <2>3 DEF Cookie!ParseImport, Cookie!Detect
  <2> QED
    BY <1>1, <2>1, <2>2, <2>3, <2>4 DEF Cookie!Loaded, Cookie!Imported, Cookie!ValidImport
<1>2. Cookie!ImportedOpens(t, f)
  BY <1>1 DEF Cookie!ImportedOpens
<1>3. ASSUME Cookie!Loaded(t).ok PROVE Cookie!DesktopCounts(t) = Cookie!Status(t)
  <2> DEFINE c == t.cookies.of
  <2>1. t.shape = "object" /\ Cookie!Loaded(t).cookies = c
    BY <1>3 DEF Cookie!Loaded, Cookie!ParseStorage, Cookie!Good, Cookie!Bad
  <2>2. \A i \in DOMAIN c : Cookie!Expired(c[i]) <=> Cookie!DesktopExpired(c[i])
    BY DEF Cookie!Expired, Cookie!DesktopExpired
  <2> HIDE DEF c
  <2>3. {i \in DOMAIN c : Cookie!Expired(c[i])} = {i \in DOMAIN c : Cookie!DesktopExpired(c[i])}
    BY <2>2
  <2>4. Cookie!Status(t) = Cookie!Counts(c, {i \in DOMAIN c : Cookie!Expired(c[i])})
    BY <2>1, Zenon DEF Cookie!Status
  <2>5. Cookie!DesktopCounts(t) = Cookie!Counts(c, {i \in DOMAIN c : Cookie!DesktopExpired(c[i])})
    BY <2>1, Zenon DEF Cookie!DesktopCounts, c
  <2> QED
    BY <2>3, <2>4, <2>5, Zenon
<1> QED
  BY <1>2, <1>3 DEF Cookie!CountsAgree

-----------------------------------------------------------------------------
(* A patch of a recorded skill *)

LEMMA OptimizeCount == \A S : Optimize!Cardinality(S) = Cardinality(S)
BY DEF Optimize!Cardinality, Cardinality

\* How many of a set of numbers are no greater.
KeysUpTo(K, i) == {j \in K : j <= i}
Kth(K, k)  == CHOOSE i \in K : Cardinality(KeysUpTo(K, i)) = k

LEMMA UpToCounts ==
  ASSUME NEW N \in Nat, NEW K \in SUBSET (1..N)
  PROVE  /\ IsFiniteSet(K) /\ Cardinality(K) \in Nat
         /\ \A i \in Nat : IsFiniteSet(KeysUpTo(K, i)) /\ Cardinality(KeysUpTo(K, i)) \in Nat
         /\ Cardinality(KeysUpTo(K, 0)) = 0 /\ KeysUpTo(K, N) = K
         /\ \A i \in Nat : Cardinality(KeysUpTo(K, i + 1)) =
                             Cardinality(KeysUpTo(K, i)) + IF i + 1 \in K THEN 1 ELSE 0
<1>1. IsFiniteSet(1..N)
  BY FS_Interval
<1>2. IsFiniteSet(K)
  BY <1>1, FS_Subset
<1>3. \A i \in Nat : KeysUpTo(K, i) \subseteq K
  BY DEF KeysUpTo
<1>4. \A i \in Nat : IsFiniteSet(KeysUpTo(K, i)) /\ Cardinality(KeysUpTo(K, i)) \in Nat
  BY <1>2, <1>3, FS_Subset, FS_CardinalityType
<1>0. \A i, j \in Nat : j <= i + 1 <=> j <= i \/ j = i + 1
  OBVIOUS
<1>5. KeysUpTo(K, 0) = {} /\ KeysUpTo(K, N) = K
  <2>1. \A j \in K : ~(j <= 0) /\ j <= N
    OBVIOUS
  <2> QED
    BY <2>1, Zenon DEF KeysUpTo
<1>6. ASSUME NEW i \in Nat
      PROVE  Cardinality(KeysUpTo(K, i + 1)) = Cardinality(KeysUpTo(K, i)) + IF i + 1 \in K THEN 1 ELSE 0
  <2>1. CASE i + 1 \in K
    <3>1. KeysUpTo(K, i + 1) = KeysUpTo(K, i) \cup {i + 1} /\ i + 1 \notin KeysUpTo(K, i)
      <4>1. \A j \in K : j <= i + 1 <=> j <= i \/ j = i + 1
        BY <1>0
      <4>2. ~(i + 1 <= i)
        OBVIOUS
      <4> QED
        BY <2>1, <4>1, <4>2, Zenon DEF KeysUpTo
    <3>2. Cardinality(KeysUpTo(K, i) \cup {i + 1}) = Cardinality(KeysUpTo(K, i)) + 1
      BY <1>4, <3>1, FS_AddElement
    <3> QED
      BY <2>1, <3>1, <3>2
  <2>2. CASE i + 1 \notin K
    <3>1. KeysUpTo(K, i + 1) = KeysUpTo(K, i)
      <4>1. \A j \in K : j <= i + 1 <=> j <= i \/ j = i + 1
        BY <1>0
      <4> QED
        BY <2>2, <4>1, Zenon DEF KeysUpTo
    <3> QED
      BY <1>4, <2>2, <3>1
  <2> QED
    BY <2>1, <2>2
<1>7. Cardinality(K) \in Nat /\ Cardinality(KeysUpTo(K, 0)) = 0
  BY <1>2, <1>5, FS_CardinalityType, FS_EmptySet
<1> QED
  BY <1>2, <1>4, <1>5, <1>6, <1>7

\* The k-th of a set of numbers: there is one, and it is later than the ones
\* before it.
LEMMA KthIs ==
  ASSUME NEW N \in Nat, NEW K \in SUBSET (1..N)
  PROVE  /\ \A k \in 1..Cardinality(K) : Kth(K, k) \in K /\ Cardinality(KeysUpTo(K, Kth(K, k))) = k
         /\ \A i \in K : Cardinality(KeysUpTo(K, i)) \in 1..Cardinality(K)
         /\ \A i, j \in K : Cardinality(KeysUpTo(K, i)) < Cardinality(KeysUpTo(K, j)) => i < j
         /\ \A i, j \in K : Cardinality(KeysUpTo(K, i)) = Cardinality(KeysUpTo(K, j)) => i = j
<1> DEFINE c(i) == Cardinality(KeysUpTo(K, i))
<1>1. /\ IsFiniteSet(K) /\ Cardinality(K) \in Nat /\ c(0) = 0 /\ c(N) = Cardinality(K)
      /\ \A i \in Nat : c(i) \in Nat /\ c(i + 1) = c(i) + IF i + 1 \in K THEN 1 ELSE 0
  BY UpToCounts
<1> HIDE DEF c
<1>2. ASSUME NEW k \in 1..Cardinality(K) PROVE \E i \in K : c(i) = k
  <2> DEFINE T == {n \in Nat : c(n) >= k}
  <2>1. N \in T /\ T \subseteq Nat
    BY <1>1
  <2>2. PICK n \in T : \A m \in T : ~(m < n)
    <3>1. T # {}
      BY <2>1
    <3> HIDE DEF T
    <3> QED
      BY <2>1, <3>1, Least
  <2>3. n # 0
    BY <1>1, <2>2
  <2>4. n - 1 \in Nat /\ n - 1 < n /\ (n - 1) + 1 = n
    BY <2>2, <2>3
  <2>5. c(n - 1) < k
    BY <1>1, <2>2, <2>4
  <2>6. c(n) = c(n - 1) + IF n \in K THEN 1 ELSE 0
    BY <1>1, <2>4
  <2> QED
    BY <1>1, <2>2, <2>4, <2>5, <2>6
<1>3. \A i, j \in Nat : i <= j => c(i) <= c(j)
  <2> SUFFICES ASSUME NEW i \in Nat PROVE \A j \in Nat : i <= j => c(i) <= c(j)
    OBVIOUS
  <2> DEFINE G == {n \in Nat : c(i) <= c(i + n)}
  <2>1. 0 \in G
    BY <1>1
  <2>2. \A n \in Nat : n \in G => n + 1 \in G
    <3> SUFFICES ASSUME NEW n \in Nat, c(i) <= c(i + n) PROVE c(i) <= c(i + (n + 1))
      OBVIOUS
    <3>1. i + (n + 1) = (i + n) + 1 /\ i + n \in Nat
      OBVIOUS
    <3>2. c((i + n) + 1) = c(i + n) + IF (i + n) + 1 \in K THEN 1 ELSE 0
      BY <1>1, <3>1
    <3>3. c(i) \in Nat /\ c(i + n) \in Nat
      BY <1>1, <3>1
    <3> QED
      BY <3>1, <3>2, <3>3
  <2>3. Nat \subseteq G
    <3> HIDE DEF G
    <3> QED
      BY <2>1, <2>2, SetInduction
  <2> QED
    <3> SUFFICES ASSUME NEW j \in Nat, i <= j PROVE c(i) <= c(j)
      OBVIOUS
    <3>1. j - i \in Nat /\ i + (j - i) = j
      OBVIOUS
    <3> QED
      BY <2>3, <3>1
<1>4. \A i \in K, j \in Nat : j < i => c(j) < c(i)
  <2> SUFFICES ASSUME NEW i \in K, NEW j \in Nat, j < i PROVE c(j) < c(i)
    OBVIOUS
  <2>1. i \in Nat /\ i - 1 \in Nat /\ j <= i - 1 /\ (i - 1) + 1 = i
    OBVIOUS
  <2>2. c(j) <= c(i - 1) /\ c(i) = c(i - 1) + 1
    BY <1>1, <1>3, <2>1
  <2> QED
    BY <1>1, <2>1, <2>2
<1>5. \A i \in K : i \in Nat /\ i <= N /\ 0 < i
  OBVIOUS
<1>6. \A i \in K : c(i) \in 1..Cardinality(K)
  <2> SUFFICES ASSUME NEW i \in K PROVE c(i) \in 1..Cardinality(K)
    OBVIOUS
  <2>1. c(0) < c(i) /\ c(i) <= c(N) /\ c(i) \in Nat
    BY <1>1, <1>3, <1>4, <1>5
  <2> QED
    BY <1>1, <2>1
<1>7. \A i, j \in K : (c(i) < c(j) => i < j) /\ (c(i) = c(j) => i = j)
  <2> SUFFICES ASSUME NEW i \in K, NEW j \in K PROVE (c(i) < c(j) => i < j) /\ (c(i) = c(j) => i = j)
    OBVIOUS
  <2>1. c(i) \in Nat /\ c(j) \in Nat /\ i \in Nat /\ j \in Nat
    BY <1>1, <1>5
  <2>2. (j < i => c(j) < c(i)) /\ (i < j => c(i) < c(j))
    BY <1>4, <2>1
  <2> QED
    BY <2>1, <2>2
<1>8. \A k \in 1..Cardinality(K) : Kth(K, k) \in K /\ c(Kth(K, k)) = k
  BY <1>2, Zenon DEF Kth, c
<1> QED
  BY <1>6, <1>7, <1>8 DEF c

\* The skill after the first selectors and names of a patch, and steps that
\* differ from those recorded in these only.
ChosenStep(steps, patch, f, n) ==
  IF n = 0 THEN steps ELSE Optimize!Selected(f[n - 1], patch.selectors[n])
ChosenOf(steps, patch) ==
  CHOOSE f : f = [n \in 0..Len(patch.selectors) |-> ChosenStep(steps, patch, f, n)]
NamedStep(t, patch, f, n) ==
  IF n = 0 THEN t ELSE Optimize!Named(f[n - 1], patch.names[n])
NamedOf(t, patch) == CHOOSE f : f = [n \in 0..Len(patch.names) |-> NamedStep(t, patch, f, n)]

Fields == {"action", "selector", "selectors", "text", "vars", "url", "name"}
Kin(steps, t) ==
  /\ DOMAIN t = 1..Len(steps) /\ t = [i \in 1..Len(steps) |-> t[i]]
  /\ \A i \in 1..Len(steps) : DOMAIN t[i] = Fields /\ t[i] = [x \in Fields |-> t[i][x]] /\ Optimize!Same(t[i], steps[i])

LEMMA ChosenUnfolds ==
  ASSUME NEW steps, NEW patch, Len(patch.selectors) \in Nat
  PROVE  \A n \in 0..Len(patch.selectors) :
           ChosenOf(steps, patch)[n] = ChosenStep(steps, patch, ChosenOf(steps, patch), n)
<1> DEFINE N == Len(patch.selectors)
           Good == {m \in Nat : \E f : f = [i \in 0..m |-> ChosenStep(steps, patch, f, i)]}
<1>1. 0 \in Good
  <2> DEFINE f == [i \in 0..0 |-> steps]
  <2>1. f = [i \in 0..0 |-> ChosenStep(steps, patch, f, i)]
    BY DEF ChosenStep
  <2> QED
    BY <2>1
<1>2. ASSUME NEW m \in Nat, m \in Good
      PROVE  m + 1 \in Good
  <2>1. PICK f : f = [i \in 0..m |-> ChosenStep(steps, patch, f, i)]
    BY <1>2
  <2> DEFINE g == [i \in 0..(m + 1) |-> IF i = m + 1 THEN ChosenStep(steps, patch, f, i) ELSE f[i]]
  <2>2. ASSUME NEW i \in 0..(m + 1)
        PROVE  g[i] = ChosenStep(steps, patch, g, i)
    <3>1. ChosenStep(steps, patch, f, i) = ChosenStep(steps, patch, g, i)
      <4>1. CASE i = 0
        BY <4>1, Zenon DEF ChosenStep
      <4>2. CASE i # 0
        <5>1. i - 1 \in 0..m /\ g[i - 1] = f[i - 1]
          BY <4>2
        <5> HIDE DEF g
        <5> QED
          BY <4>2, <5>1, Zenon DEF ChosenStep
      <4> QED
        BY <4>1, <4>2
    <3> HIDE DEF ChosenStep
    <3>2. CASE i = m + 1
      BY <3>1, <3>2
    <3>3. CASE i # m + 1
      <4>1. i \in 0..m /\ g[i] = f[i]
        BY <3>3
      <4>2. f[i] = ChosenStep(steps, patch, f, i)
        BY <2>1, <4>1
      <4> QED
        BY <3>1, <4>1, <4>2
    <3> QED
      BY <3>2, <3>3
  <2>3. g = [i \in 0..(m + 1) |-> ChosenStep(steps, patch, g, i)]
    <3> HIDE DEF ChosenStep
    <3> QED
      BY <2>2
  <2> HIDE DEF g
  <2> QED
    BY <2>3
<1>3. Nat \subseteq Good
  <2> HIDE DEF Good
  <2> QED
    BY <1>1, <1>2, SetInduction
<1>4. \E f : f = [i \in 0..N |-> ChosenStep(steps, patch, f, i)]
  BY <1>3
<1>5. ChosenOf(steps, patch) = [i \in 0..N |-> ChosenStep(steps, patch, ChosenOf(steps, patch), i)]
  BY <1>4, Zenon DEF ChosenOf
<1> QED
  <2> HIDE DEF ChosenStep
  <2> QED
    BY <1>5

LEMMA NamedUnfolds ==
  ASSUME NEW t, NEW patch, Len(patch.names) \in Nat
  PROVE  \A n \in 0..Len(patch.names) :
           NamedOf(t, patch)[n] = NamedStep(t, patch, NamedOf(t, patch), n)
<1> DEFINE N == Len(patch.names)
           Good == {m \in Nat : \E f : f = [i \in 0..m |-> NamedStep(t, patch, f, i)]}
<1>1. 0 \in Good
  <2> DEFINE f == [i \in 0..0 |-> t]
  <2>1. f = [i \in 0..0 |-> NamedStep(t, patch, f, i)]
    BY DEF NamedStep
  <2> QED
    BY <2>1
<1>2. ASSUME NEW m \in Nat, m \in Good
      PROVE  m + 1 \in Good
  <2>1. PICK f : f = [i \in 0..m |-> NamedStep(t, patch, f, i)]
    BY <1>2
  <2> DEFINE g == [i \in 0..(m + 1) |-> IF i = m + 1 THEN NamedStep(t, patch, f, i) ELSE f[i]]
  <2>2. ASSUME NEW i \in 0..(m + 1)
        PROVE  g[i] = NamedStep(t, patch, g, i)
    <3>1. NamedStep(t, patch, f, i) = NamedStep(t, patch, g, i)
      <4>1. CASE i = 0
        BY <4>1, Zenon DEF NamedStep
      <4>2. CASE i # 0
        <5>1. i - 1 \in 0..m /\ g[i - 1] = f[i - 1]
          BY <4>2
        <5> HIDE DEF g
        <5> QED
          BY <4>2, <5>1, Zenon DEF NamedStep
      <4> QED
        BY <4>1, <4>2
    <3> HIDE DEF NamedStep
    <3>2. CASE i = m + 1
      BY <3>1, <3>2
    <3>3. CASE i # m + 1
      <4>1. i \in 0..m /\ g[i] = f[i]
        BY <3>3
      <4>2. f[i] = NamedStep(t, patch, f, i)
        BY <2>1, <4>1
      <4> QED
        BY <3>1, <4>1, <4>2
    <3> QED
      BY <3>2, <3>3
  <2>3. g = [i \in 0..(m + 1) |-> NamedStep(t, patch, g, i)]
    <3> HIDE DEF NamedStep
    <3> QED
      BY <2>2
  <2> HIDE DEF g
  <2> QED
    BY <2>3
<1>3. Nat \subseteq Good
  <2> HIDE DEF Good
  <2> QED
    BY <1>1, <1>2, SetInduction
<1>4. \E f : f = [i \in 0..N |-> NamedStep(t, patch, f, i)]
  BY <1>3
<1>5. NamedOf(t, patch) = [i \in 0..N |-> NamedStep(t, patch, NamedOf(t, patch), i)]
  BY <1>4, Zenon DEF NamedOf
<1> QED
  <2> HIDE DEF NamedStep
  <2> QED
    BY <1>5

\* A selector or a name changes no action, text or address.
LEMMA KinStays ==
  ASSUME NEW steps, NEW t, Kin(steps, t), NEW i \in 1..Len(steps), NEW x, NEW y, NEW z
  PROVE  /\ Kin(steps, [t EXCEPT ![i].selector = x, ![i].selectors = y])
         /\ Kin(steps, [t EXCEPT ![i].name = z])
<1>1. DOMAIN t = 1..Len(steps) /\ t = [j \in 1..Len(steps) |-> t[j]]
  BY DEF Kin
<1>2. \A j \in 1..Len(steps) :
        DOMAIN t[j] = Fields /\ t[j] = [f \in Fields |-> t[j][f]] /\ Optimize!Same(t[j], steps[j])
  BY DEF Kin
<1> DEFINE r == t[i]
           a == [r EXCEPT !.selector = x, !.selectors = y]
           b == [r EXCEPT !.name = z]
<1>3. /\ [t EXCEPT ![i].selector = x, ![i].selectors = y] = [t EXCEPT ![i] = a]
      /\ [t EXCEPT ![i].name = z] = [t EXCEPT ![i] = b]
  BY <1>1, Zenon
<1>4. DOMAIN r = Fields /\ r = [f \in Fields |-> r[f]] /\ Optimize!Same(r, steps[i])
  BY <1>2
<1> HIDE DEF r
<1>5. /\ DOMAIN a = Fields /\ a = [f \in Fields |-> a[f]] /\ Optimize!Same(a, steps[i])
      /\ DOMAIN b = Fields /\ b = [f \in Fields |-> b[f]] /\ Optimize!Same(b, steps[i])
  BY <1>4 DEF Fields, Optimize!Same
<1> HIDE DEF a, b
<1>6. Kin(steps, [t EXCEPT ![i] = a])
  BY <1>1, <1>2, <1>5 DEF Kin
<1>7. Kin(steps, [t EXCEPT ![i] = b])
  BY <1>1, <1>2, <1>5 DEF Kin
<1> QED
  BY <1>3, <1>6, <1>7

LEMMA SelectedStays ==
  ASSUME NEW steps, NEW t, Kin(steps, t), NEW p, p.index \in 1..Len(steps)
  PROVE  Kin(steps, Optimize!Selected(t, p)) /\ Kin(steps, Optimize!Named(t, p))
<1> DEFINE i == p.index
<1>1. \E x, y : Optimize!Selected(t, p) = [t EXCEPT ![i].selector = x, ![i].selectors = y]
  <2> DEFINE primary == IF p.selector = "none" THEN t[i].selector ELSE p.selector
             clean   == Optimize!Unique(SelectSeq(p.selectors, Optimize!AcceptsSelector))
             chain   == IF \E k \in DOMAIN clean : clean[k] = primary THEN clean ELSE <<primary>> \o clean
             whole   == p.selectors # <<>> /\ Len(chain) > 1
             y       == IF whole THEN chain ELSE t[i].selectors
  <2>1. Optimize!Selected(t, p) =
          [t EXCEPT ![i].selector = primary, ![i].selectors = IF whole THEN chain ELSE @]
    BY Zenon DEF Optimize!Selected
  <2> HIDE DEF primary, chain, whole
  <2>2. DOMAIN t[i] = Fields /\ i \in DOMAIN t
    BY DEF Kin
  <2>3. Optimize!Selected(t, p) = [t EXCEPT ![i].selector = primary, ![i].selectors = y]
    <3>1. CASE whole
      BY <2>1, <3>1
    <3>2. CASE ~whole
      BY <2>1, <2>2, <3>2 DEF Fields
    <3> QED
      BY <3>1, <3>2
  <2> QED
    BY <2>3
<1>2. Kin(steps, Optimize!Selected(t, p))
  <2>1. PICK x, y : Optimize!Selected(t, p) = [t EXCEPT ![i].selector = x, ![i].selectors = y]
    BY <1>1
  <2>2. Kin(steps, [t EXCEPT ![i].selector = x, ![i].selectors = y])
    BY KinStays
  <2> QED
    BY <2>1, <2>2, Zenon
<1>3. Kin(steps, Optimize!Named(t, p))
  BY KinStays DEF Optimize!Named
<1> QED
  BY <1>2, <1>3

\* What a patch that is not refused makes of a skill.
LEMMA AppliedIs ==
  ASSUME NEW S, NEW steps \in Seq(RecordedStep(S)), NEW patch \in PatchOf(S), Optimize!Applied(steps, patch).ok
  PROVE  /\ Optimize!InRange(steps, patch)
         /\ \E t : /\ Kin(steps, t)
                   /\ Optimize!Applied(steps, patch).steps = Optimize!Kept(t, Optimize!Dropped(steps, patch))
         /\ Optimize!Applied(steps, patch).steps # <<>>
         /\ \A i \in DOMAIN Optimize!Applied(steps, patch).steps :
              Optimize!ValidStep(Optimize!Applied(steps, patch).steps[i])
         /\ \A m \in patch.merges : Optimize!Mergeable(steps, m)
<1> DEFINE N == Len(patch.selectors)
           M == Len(patch.names)
           u == ChosenOf(steps, patch)
           v == NamedOf(u[N], patch)
           kept == Optimize!Kept(v[M], Optimize!Dropped(steps, patch))
<1>0. N \in Nat /\ M \in Nat
  BY DEF PatchOf
<1>1. /\ Optimize!InRange(steps, patch)
      /\ \A m \in patch.merges : Optimize!Mergeable(steps, m)
      /\ Optimize!Applied(steps, patch) =
           IF kept = <<>> \/ \E i \in DOMAIN kept : ~Optimize!ValidStep(kept[i]) THEN Optimize!Refused
           ELSE [ok |-> TRUE, steps |-> kept]
  <2>1. ~Optimize!Refused.ok
    BY DEF Optimize!Refused
  <2> DEFINE refused == ~patch.json \/ patch.version \notin {0, 1} \/ steps = <<>> \/ ~Optimize!InRange(steps, patch)
             denied  == ~Optimize!SelectorsOk(steps, patch) \/ \E m \in patch.merges : ~Optimize!Mergeable(steps, m)
             result    == IF kept = <<>> \/ \E i \in DOMAIN kept : ~Optimize!ValidStep(kept[i]) THEN Optimize!Refused
                        ELSE [ok |-> TRUE, steps |-> kept]
  <2>2. Optimize!Applied(steps, patch) = IF refused THEN Optimize!Refused ELSE IF denied THEN Optimize!Refused ELSE result
    BY Zenon DEF Optimize!Applied, ChosenOf, ChosenStep, NamedOf, NamedStep
  <2> HIDE DEF result, denied
  <2>3. ~refused /\ ~denied
    BY <2>1, <2>2
  <2>4. \A m \in patch.merges : Optimize!Mergeable(steps, m)
    BY <2>3, Zenon DEF denied
  <2> QED
    BY <2>2, <2>3, <2>4, Zenon DEF result
<1>2. /\ kept # <<>> /\ Optimize!Applied(steps, patch).steps = kept
      /\ \A i \in DOMAIN kept : Optimize!ValidStep(kept[i])
  <2> HIDE DEF kept
  <2> QED
    BY <1>1 DEF Optimize!Refused
<1>3. Kin(steps, steps)
  <2>1. \A r \in RecordedStep(S) : DOMAIN r = Fields /\ r = [x \in Fields |-> r[x]]
    BY DEF Fields, RecordedStep
  <2>2. DOMAIN steps = 1..Len(steps) /\ steps = [i \in 1..Len(steps) |-> steps[i]]
        /\ \A i \in 1..Len(steps) : steps[i] \in RecordedStep(S)
    OBVIOUS
  <2> QED
    BY <2>1, <2>2, Zenon DEF Kin, Optimize!Same
<1>4. \A n \in 0..N : Kin(steps, u[n])
  <2> DEFINE G == {n \in Nat : n <= N => Kin(steps, u[n])}
  <2>0. \A n \in 0..N : u[n] = IF n = 0 THEN steps ELSE Optimize!Selected(u[n - 1], patch.selectors[n])
    <3>1. \A n \in 0..N : u[n] = ChosenStep(steps, patch, u, n)
      BY <1>0, ChosenUnfolds
    <3> QED
      BY <3>1, Zenon DEF ChosenStep
  <2> HIDE DEF u
  <2>1. 0 \in G
    BY <1>0, <1>3, <2>0
  <2>2. ASSUME NEW n \in Nat, n \in G PROVE n + 1 \in G
    <3> SUFFICES ASSUME n + 1 <= N PROVE Kin(steps, u[n + 1])
      OBVIOUS
    <3>1. Kin(steps, u[n]) /\ n + 1 \in 1..N /\ n + 1 \in 0..N /\ n + 1 # 0 /\ (n + 1) - 1 = n
      BY <1>0, <2>2
    <3>2. patch.selectors[n + 1].index \in 1..Len(steps)
      <4>1. n + 1 \in DOMAIN patch.selectors /\ patch.selectors[n + 1].index \in Nat \ {0} /\ Len(steps) \in Nat
        <5> DEFINE q == patch.selectors
                   X == [index : Nat \ {0}, selector : S, selectors : Seq(S)]
        <5>1. q \in Seq(X) /\ n + 1 \in 1..Len(q)
          BY <3>1 DEF PatchOf
        <5> HIDE DEF q, X
        <5>2. n + 1 \in DOMAIN q /\ q[n + 1] \in X
          BY <5>1
        <5>3. q[n + 1].index \in Nat \ {0}
          BY <5>2 DEF X
        <5> QED
          BY <5>2, <5>3 DEF q
      <4>2. patch.selectors[n + 1].index <= Len(steps)
        BY <1>1, <4>1 DEF Optimize!InRange
      <4> QED
        BY <4>1, <4>2
    <3>3. u[n + 1] = Optimize!Selected(u[n], patch.selectors[n + 1])
      BY <2>0, <3>1
    <3> QED
      BY <3>1, <3>2, <3>3, SelectedStays
  <2>3. Nat \subseteq G
    <3> HIDE DEF G
    <3> QED
      BY <2>1, <2>2, SetInduction
  <2> QED
    BY <1>0, <2>3
<1>5. \A n \in 0..M : Kin(steps, v[n])
  <2> DEFINE G == {n \in Nat : n <= M => Kin(steps, v[n])}
  <2>0. \A n \in 0..M : v[n] = IF n = 0 THEN u[N] ELSE Optimize!Named(v[n - 1], patch.names[n])
    <3>1. \A n \in 0..M : v[n] = NamedStep(u[N], patch, v, n)
      BY <1>0, NamedUnfolds
    <3> QED
      BY <3>1, Zenon DEF NamedStep
  <2> HIDE DEF v
  <2>1. 0 \in G
    <3>1. Kin(steps, u[N]) /\ v[0] = u[N]
      BY <1>0, <1>4, <2>0
    <3> QED
      BY <3>1
  <2>2. ASSUME NEW n \in Nat, n \in G PROVE n + 1 \in G
    <3> SUFFICES ASSUME n + 1 <= M PROVE Kin(steps, v[n + 1])
      OBVIOUS
    <3>1. Kin(steps, v[n]) /\ n + 1 \in 1..M /\ n + 1 \in 0..M /\ n + 1 # 0 /\ (n + 1) - 1 = n
      BY <1>0, <2>2
    <3>2. patch.names[n + 1].index \in 1..Len(steps)
      <4>1. n + 1 \in DOMAIN patch.names /\ patch.names[n + 1].index \in Nat \ {0} /\ Len(steps) \in Nat
        <5> DEFINE q == patch.names
                   X == [index : Nat \ {0}, name : S]
        <5>1. q \in Seq(X) /\ n + 1 \in 1..Len(q)
          BY <3>1 DEF PatchOf
        <5> HIDE DEF q, X
        <5>2. n + 1 \in DOMAIN q /\ q[n + 1] \in X
          BY <5>1
        <5>3. q[n + 1].index \in Nat \ {0}
          BY <5>2 DEF X
        <5> QED
          BY <5>2, <5>3 DEF q
      <4>2. patch.names[n + 1].index <= Len(steps)
        BY <1>1, <4>1 DEF Optimize!InRange
      <4> QED
        BY <4>1, <4>2
    <3>3. v[n + 1] = Optimize!Named(v[n], patch.names[n + 1])
      BY <2>0, <3>1
    <3> QED
      BY <3>1, <3>2, <3>3, SelectedStays
  <2>3. Nat \subseteq G
    <3> HIDE DEF G
    <3> QED
      BY <2>1, <2>2, SetInduction
  <2> QED
    BY <1>0, <2>3
<1>6. Kin(steps, v[M])
  BY <1>0, <1>5
<1> QED
  <2> HIDE DEF v
  <2> QED
    BY <1>1, <1>2, <1>6, Zenon DEF kept

\* Whatever a model answers, the skill that is saved has recorded steps in
\* their order, with their texts and addresses, and each variable of them
\* unless it was merged into a neighbour that has one; each step of a patch that
\* was taken passes the checks (teach_optimize.rs:188).
THEOREM PatchTrims ==
  ASSUME NEW S, NEW steps \in Seq(RecordedStep(S)), steps # <<>>,
         \A i \in 1..Len(steps) : steps[i].vars => steps[i].action = "fill",
         NEW on \in BOOLEAN, NEW patch \in PatchOf(S)
  PROVE  Optimize!OptimizeOnlyTrims(steps, on, patch)
<1> DEFINE N == Len(steps)
           out == Optimize!Optimized(steps, on, patch)
           Trims(at) == /\ at \in [DOMAIN out -> DOMAIN steps]
                        /\ \A i \in DOMAIN out : Optimize!Same(out[i], steps[at[i]])
                        /\ \A i, j \in DOMAIN out : i < j => at[i] < at[j]
                        /\ \A i \in DOMAIN steps : steps[i].vars =>
                             \/ \E k \in DOMAIN out : at[k] = i
                             \/ \E m \in patch.merges : /\ m.from = i /\ m.from - m.into \in {-1, 1}
                                                        /\ steps[m.into].vars
<1>1. SUFFICES /\ out # <<>> /\ (out # steps => \A i \in DOMAIN out : Optimize!ValidStep(out[i]))
               /\ \E at : Trims(at)
  BY Zenon DEF Optimize!OptimizeOnlyTrims
<1>2. N \in Nat /\ DOMAIN steps = 1..N
  OBVIOUS
<1>3. CASE ~(on /\ Optimize!Applied(steps, patch).ok)
  <2>1. out = steps
    BY <1>3 DEF Optimize!Optimized
  <2> HIDE DEF out
  <2> DEFINE at == [i \in 1..N |-> i]
  <2>2. Trims(at)
    BY <1>2, <2>1 DEF Optimize!Same
  <2> HIDE DEF Trims
  <2> QED
    BY <2>1, <2>2
<1>4. CASE on /\ Optimize!Applied(steps, patch).ok
  <2> DEFINE gone == Optimize!Dropped(steps, patch)
             K == (1..N) \ gone
             c(i) == Cardinality(KeysUpTo(K, i))
  <2>1. out = Optimize!Applied(steps, patch).steps
    BY <1>4 DEF Optimize!Optimized
  <2>2. Optimize!InRange(steps, patch) /\ out # <<>>
    BY <1>4, <2>1, AppliedIs
  <2>2a. (\A i \in DOMAIN out : Optimize!ValidStep(out[i])) /\ \A m \in patch.merges : Optimize!Mergeable(steps, m)
    <3> HIDE DEF out
    <3> QED
      BY <1>4, <2>1, AppliedIs
  <2>3. PICK t : Kin(steps, t) /\ out = Optimize!Kept(t, gone)
    BY <1>4, <2>1, AppliedIs
  <2> HIDE DEF out
  <2>4. gone \subseteq 1..N
    <3>1. patch.drops \subseteq 1..N
      BY <1>2, <2>2 DEF Optimize!InRange, PatchOf
    <3>2. \A m \in patch.merges : m.from \in 1..N
      BY <1>2, <2>2 DEF Optimize!InRange, PatchOf
    <3> QED
      BY <3>1, <3>2 DEF Optimize!Dropped, Optimize!Merged
  <2>5. \A i \in 1..N : steps[i].vars =>
          i \in K \/ \E m \in patch.merges : m.from = i /\ m.from - m.into \in {-1, 1} /\ steps[m.into].vars
    BY <2>2a DEF Optimize!Dropped, Optimize!Merged, Optimize!Mergeable
  <2> HIDE DEF gone
  <2>6. K \in SUBSET (1..N) /\ Cardinality(K) \in Nat /\ Cardinality(K) = N - Cardinality(gone)
    <3>1. IsFiniteSet(1..N) /\ Cardinality(1..N) = N
      BY <1>2, FS_Interval
    <3>2. Cardinality((1..N) \ gone) = Cardinality(1..N) - Cardinality((1..N) \cap gone)
      BY <3>1, FS_Difference
    <3>3. (1..N) \cap gone = gone
      BY <2>4
    <3>4. Cardinality(K) \in Nat
      BY <1>2, UpToCounts
    <3> QED
      BY <3>1, <3>2, <3>3, <3>4
  <2>6a. DOMAIN t \ gone = K
    BY <2>3 DEF Kin
  <2> HIDE DEF K
  <2>7. Len(t) = N /\ DOMAIN t = 1..N
    <3> DEFINE X == {t[i] : i \in 1..N}
    <3>1. t = [i \in 1..N |-> t[i]]
      BY <2>3 DEF Kin
    <3>2. [i \in 1..N |-> t[i]] \in Seq(X) /\ Len([i \in 1..N |-> t[i]]) = N
      BY <1>2
    <3>3. DOMAIN t = 1..N
      BY <2>3 DEF Kin
    <3> QED
      BY <3>1, <3>2, <3>3, Zenon
  <2> DEFINE at == [k \in 1..Cardinality(K) |-> Kth(K, k)]
  <2>8. \A k \in 1..Cardinality(K) : at[k] \in K /\ c(at[k]) = k
    <3>1. \A k \in 1..Cardinality(K) : Kth(K, k) \in K /\ c(Kth(K, k)) = k
      <4> HIDE DEF N
      <4> QED
        BY <1>2, <2>6, KthIs
    <3> HIDE DEF c
    <3> QED
      BY <3>1
  <2>9. DOMAIN out = 1..Cardinality(K) /\ \A k \in 1..Cardinality(K) : out[k] = t[at[k]]
    <3> DEFINE D == DOMAIN t \ gone
    <3>1. Optimize!Kept(t, gone) = [k \in 1..(Len(t) - Cardinality(gone)) |-> t[Kth(D, k)]]
      BY Zenon DEF Optimize!Kept, Kth, KeysUpTo, Optimize!Cardinality, Cardinality
    <3>2. D = K
      BY <2>6a
    <3> HIDE DEF D
    <3>3. out = [k \in 1..Cardinality(K) |-> t[Kth(K, k)]]
      BY <2>3, <2>6, <2>7, <3>1, <3>2
    <3> QED
      BY <3>3
  <2> HIDE DEF at
  <2>10. at \in [DOMAIN out -> DOMAIN steps]
    <3>1. at = [k \in 1..Cardinality(K) |-> at[k]]
      BY DEF at
    <3> QED
      BY <1>2, <2>6, <2>8, <2>9, <3>1
  <2>11. \A k \in DOMAIN out : Optimize!Same(out[k], steps[at[k]])
    BY <2>3, <2>6, <2>8, <2>9 DEF Kin
  <2>12. \A k, l \in DOMAIN out : k < l => at[k] < at[l]
    <3> SUFFICES ASSUME NEW k \in DOMAIN out, NEW l \in DOMAIN out, k < l PROVE at[k] < at[l]
      OBVIOUS
    <3>1. at[k] \in K /\ at[l] \in K /\ c(at[k]) < c(at[l])
      BY <2>8, <2>9
    <3> QED
      BY <1>2, <2>6, <3>1, KthIs
  <2>13. \A i \in K : \E k \in DOMAIN out : at[k] = i
    <3> SUFFICES ASSUME NEW i \in K PROVE \E k \in DOMAIN out : at[k] = i
      OBVIOUS
    <3>1. c(i) \in 1..Cardinality(K)
      BY <1>2, <2>6, KthIs
    <3>2. at[c(i)] \in K /\ c(at[c(i)]) = c(i)
      BY <2>8, <3>1
    <3>3. at[c(i)] = i
      BY <1>2, <2>6, <3>2, KthIs
    <3> QED
      BY <2>9, <3>1, <3>3
  <2>14. Trims(at)
    BY <1>2, <2>5, <2>10, <2>11, <2>12, <2>13
  <2> HIDE DEF Trims
  <2> QED
    BY <2>2, <2>2a, <2>14
<1> QED
  BY <1>3, <1>4

-----------------------------------------------------------------------------
(* The base URL of a provider *)

\* How much is left of the first segments, and what their collapse is.
LeftStep(s, f, n) ==
  LET e == Url!Endpoint(SubSeq(s, 1, n)) IN IF e = 0 THEN n ELSE f[n - e]
LeftOf(s) == CHOOSE f : f = [n \in 0..Len(s) |-> LeftStep(s, f, n)]
OutStep(s, f, n) ==
  IF n = 0 THEN <<>>
  ELSE IF s[n] = "v1" /\ n > 1 /\ s[n - 1] = "v1" THEN f[n - 1]
  ELSE Append(f[n - 1], s[n])
OutOf(s) == CHOOSE f : f = [n \in 0..Len(s) |-> OutStep(s, f, n)]

\* A path that no endpoint ends, and one without a doubled v1.
Ends(t)   == Len(t) > 0 /\ t[Len(t)] \in {"models", "completions"}
Single(t) == \A i \in 1..(Len(t) - 1) : t[i] = "v1" => t[i + 1] # "v1"

LEMMA EndpointIs ==
  ASSUME NEW S, NEW t \in Seq(S)
  PROVE  /\ Url!Endpoint(t) \in 0..2 /\ Url!Endpoint(t) <= Len(t)
         /\ Url!Endpoint(t) = 0 <=> ~Ends(t)
BY DEF Url!Endpoint, Ends

LEMMA LeftUnfolds ==
  ASSUME NEW S, NEW s \in Seq(S)
  PROVE  /\ Url!Dropped(s) = SubSeq(s, 1, LeftOf(s)[Len(s)])
         /\ \A n \in 0..Len(s) : LeftOf(s)[n] = LeftStep(s, LeftOf(s), n)
<1> DEFINE Good == {m \in Nat : m <= Len(s) => \E f : f = [i \in 0..m |-> LeftStep(s, f, i)]}
<1>1. 0 \in Good
  <2> DEFINE f == [i \in 0..0 |-> 0]
  <2>1. LeftStep(s, f, 0) = 0
    <3> DEFINE t == SubSeq(s, 1, 0)
    <3>1. t \in Seq(S) /\ Len(t) = 0
      OBVIOUS
    <3> HIDE DEF t
    <3>2. Url!Endpoint(t) = 0
      BY <3>1 DEF Url!Endpoint
    <3> QED
      BY <3>2, Zenon DEF LeftStep, t
  <2>2. f = [i \in 0..0 |-> LeftStep(s, f, i)]
    <3> HIDE DEF LeftStep
    <3>1. \A i \in 0..0 : i = 0
      OBVIOUS
    <3> QED
      BY <2>1, <3>1
  <2> QED
    BY <2>2
<1>2. ASSUME NEW m \in Nat, m \in Good
      PROVE  m + 1 \in Good
  <2> SUFFICES ASSUME m + 1 <= Len(s)
               PROVE  \E h : h = [i \in 0..(m + 1) |-> LeftStep(s, h, i)]
    OBVIOUS
  <2>1. PICK f : f = [i \in 0..m |-> LeftStep(s, f, i)]
    BY <1>2
  <2> DEFINE g == [i \in 0..(m + 1) |-> IF i = m + 1 THEN LeftStep(s, f, i) ELSE f[i]]
  <2>2. ASSUME NEW i \in 0..(m + 1)
        PROVE  g[i] = LeftStep(s, g, i)
    <3> DEFINE e == Url!Endpoint(SubSeq(s, 1, i))
    <3>1. LeftStep(s, f, i) = LeftStep(s, g, i)
      <4>1. SubSeq(s, 1, i) \in Seq(S) /\ Len(SubSeq(s, 1, i)) = i
        OBVIOUS
      <4>2. e \in 0..2 /\ e <= i
        BY <4>1, EndpointIs
      <4> HIDE DEF e
      <4>3. e # 0 => g[i - e] = f[i - e]
        <5>1. e # 0 => i - e \in 0..m
          BY <4>2
        <5> QED
          BY <5>1
      <4> HIDE DEF g
      <4> QED
        BY <4>3, Zenon DEF LeftStep, e
    <3>2. CASE i = m + 1
      BY <3>1, <3>2
    <3>3. CASE i # m + 1
      <4>1. i \in 0..m /\ g[i] = f[i]
        BY <3>3
      <4>2. f[i] = LeftStep(s, f, i)
        BY <2>1, <4>1
      <4> QED
        BY <3>1, <4>1, <4>2
    <3> QED
      BY <3>2, <3>3
  <2>3. g = [i \in 0..(m + 1) |-> LeftStep(s, g, i)]
    <3> HIDE DEF LeftStep
    <3> QED
      BY <2>2
  <2> HIDE DEF g
  <2> QED
    BY <2>3
<1>3. Nat \subseteq Good
  <2> HIDE DEF Good
  <2> QED
    BY <1>1, <1>2, SetInduction
<1>4. \E f : f = [i \in 0..Len(s) |-> LeftStep(s, f, i)]
  BY <1>3
<1>5. LeftOf(s) = [i \in 0..Len(s) |-> LeftStep(s, LeftOf(s), i)]
  BY <1>4, Zenon DEF LeftOf
<1>6. Url!Dropped(s) = SubSeq(s, 1, LeftOf(s)[Len(s)])
  BY Zenon DEF Url!Dropped, LeftOf, LeftStep
<1> QED
  <2> HIDE DEF LeftStep
  <2> QED
    BY <1>5, <1>6

LEMMA OutUnfolds ==
  ASSUME NEW S, NEW s \in Seq(S)
  PROVE  /\ Url!Collapsed(s) = OutOf(s)[Len(s)]
         /\ \A n \in 0..Len(s) : OutOf(s)[n] = OutStep(s, OutOf(s), n)
<1> DEFINE Good == {m \in Nat : \E f : f = [i \in 0..m |-> OutStep(s, f, i)]}
<1>1. 0 \in Good
  <2> DEFINE f == [i \in 0..0 |-> <<>>]
  <2>1. f = [i \in 0..0 |-> OutStep(s, f, i)]
    BY DEF OutStep
  <2> QED
    BY <2>1
<1>2. ASSUME NEW m \in Nat, m \in Good
      PROVE  m + 1 \in Good
  <2>1. PICK f : f = [i \in 0..m |-> OutStep(s, f, i)]
    BY <1>2
  <2> DEFINE g == [i \in 0..(m + 1) |-> IF i = m + 1 THEN OutStep(s, f, i) ELSE f[i]]
  <2>2. ASSUME NEW i \in 0..(m + 1)
        PROVE  g[i] = OutStep(s, g, i)
    <3>1. OutStep(s, f, i) = OutStep(s, g, i)
      <4>1. CASE i = 0
        BY <4>1, Zenon DEF OutStep
      <4>2. CASE i # 0
        <5>1. i - 1 \in 0..m /\ g[i - 1] = f[i - 1]
          BY <4>2
        <5> HIDE DEF g
        <5> QED
          BY <4>2, <5>1, Zenon DEF OutStep
      <4> QED
        BY <4>1, <4>2
    <3>2. CASE i = m + 1
      BY <3>1, <3>2
    <3>3. CASE i # m + 1
      <4>1. i \in 0..m /\ g[i] = f[i]
        BY <3>3
      <4>2. f[i] = OutStep(s, f, i)
        BY <2>1, <4>1
      <4> QED
        BY <3>1, <4>1, <4>2
    <3> QED
      BY <3>2, <3>3
  <2>3. g = [i \in 0..(m + 1) |-> OutStep(s, g, i)]
    <3> HIDE DEF OutStep
    <3> QED
      BY <2>2
  <2>4. \E h : h = [i \in 0..(m + 1) |-> OutStep(s, h, i)]
    <3> HIDE DEF g
    <3> QED
      BY <2>3
  <2> QED
    BY <2>4
<1>3. Nat \subseteq Good
  <2> HIDE DEF Good
  <2> QED
    BY <1>1, <1>2, SetInduction
<1>4. \E f : f = [i \in 0..Len(s) |-> OutStep(s, f, i)]
  BY <1>3
<1>5. OutOf(s) = [i \in 0..Len(s) |-> OutStep(s, OutOf(s), i)]
  BY <1>4, Zenon DEF OutOf
<1>6. Url!Collapsed(s) = OutOf(s)[Len(s)]
  BY Zenon DEF Url!Collapsed, OutOf, OutStep
<1> QED
  <2> HIDE DEF OutStep
  <2> QED
    BY <1>5, <1>6

\* Dropping leaves a beginning of the path that no endpoint ends, all of a
\* path that is one already.
LEMMA DroppedIs ==
  ASSUME NEW S, NEW s \in Seq(S)
  PROVE  /\ Url!Dropped(s) \in Seq(S) /\ ~Ends(Url!Dropped(s))
         /\ \A n \in 0..Len(s) : LeftOf(s)[n] \in 0..n /\ (~Ends(SubSeq(s, 1, n)) => LeftOf(s)[n] = n)
<1> DEFINE l == LeftOf(s)
           Fine(n) == l[n] \in 0..n /\ ~Ends(SubSeq(s, 1, l[n])) /\ (~Ends(SubSeq(s, 1, n)) => l[n] = n)
           Bad == {n \in Nat : n <= Len(s) /\ ~Fine(n)}
<1>1. ASSUME Bad # {} PROVE FALSE
  <2>1. Bad \subseteq Nat
    OBVIOUS
  <2>2. PICK n \in Bad : \A m \in Bad : ~(m < n)
    <3> HIDE DEF Bad
    <3> QED
      BY <1>1, <2>1, Least
  <2> DEFINE t == SubSeq(s, 1, n)
             e == Url!Endpoint(t)
  <2>3. n \in 0..Len(s) /\ t \in Seq(S) /\ Len(t) = n
    BY <2>2
  <2>4. l[n] = IF e = 0 THEN n ELSE l[n - e]
    <3>1. l[n] = LeftStep(s, l, n)
      BY <2>3, LeftUnfolds
    <3> HIDE DEF l
    <3> QED
      BY <3>1, Zenon DEF LeftStep
  <2>5. e \in 0..2 /\ e <= n /\ (e = 0 <=> ~Ends(t))
    <3> HIDE DEF t
    <3> QED
      BY <2>3, EndpointIs
  <2>6. e # 0 => n - e \in Nat /\ n - e < n /\ n - e <= Len(s)
    BY <2>3, <2>5
  <2>7. e # 0 => Fine(n - e)
    <3>1. e # 0 => n - e \notin Bad
      BY <2>2, <2>6
    <3> HIDE DEF Fine
    <3> QED
      BY <2>6, <3>1
  <2> HIDE DEF e, l
  <2>8. Fine(n)
    <3>1. CASE e = 0
      BY <2>3, <2>4, <2>5, <3>1
    <3>2. CASE e # 0
      <4>1. l[n] = l[n - e] /\ Ends(SubSeq(s, 1, n))
        BY <2>4, <2>5, <3>2
      <4>2. l[n - e] \in 0..(n - e) /\ ~Ends(SubSeq(s, 1, l[n - e]))
        BY <2>7, <3>2
      <4>3. l[n] \in 0..n
        BY <2>5, <2>6, <3>2, <4>1, <4>2
      <4> QED
        BY <4>1, <4>2, <4>3
    <3> QED
      BY <3>1, <3>2
  <2> QED
    BY <2>2, <2>8
<1>2. \A n \in 0..Len(s) : Fine(n)
  <2> HIDE DEF Fine
  <2> QED
    BY <1>1
<1>3. Len(s) \in 0..Len(s)
  OBVIOUS
<1>4. Url!Dropped(s) = SubSeq(s, 1, l[Len(s)])
  BY LeftUnfolds
<1> HIDE DEF l
<1>5. l[Len(s)] \in 0..Len(s) /\ ~Ends(SubSeq(s, 1, l[Len(s)]))
  BY <1>2, <1>3
<1>6. SubSeq(s, 1, l[Len(s)]) \in Seq(S)
  BY <1>5
<1> QED
  BY <1>2, <1>4, <1>5, <1>6 DEF l

\* Collapsing keeps the last segment and doubles no v1; a path that does not
\* double it stays.
LEMMA CollapsedIs ==
  ASSUME NEW S, NEW s \in Seq(S)
  PROVE  LET c == Url!Collapsed(s)
         IN  /\ c \in Seq(S) /\ Single(c)
             /\ Len(s) > 0 => Len(c) > 0 /\ c[Len(c)] = s[Len(s)]
             /\ Len(s) = 0 => Len(c) = 0
             /\ Single(s) => c = s
<1> DEFINE u == OutOf(s)
           Fine(n) == /\ u[n] \in Seq(S) /\ Single(u[n])
                      /\ n > 0 => Len(u[n]) > 0 /\ u[n][Len(u[n])] = s[n]
                      /\ n = 0 => Len(u[n]) = 0
                      /\ Single(s) => Len(u[n]) = n /\ \A i \in 1..n : u[n][i] = s[i]
           Good == {n \in Nat : n <= Len(s) => Fine(n)}
<1>0. Len(s) \in Nat
  OBVIOUS
<1>1. 0 \in Good
  <2>1. u[0] = <<>>
    BY <1>0, OutUnfolds DEF OutStep
  <2> HIDE DEF u
  <2>2. u[0] \in Seq(S) /\ Len(u[0]) = 0
    BY <2>1
  <2>3. 1..0 = {} /\ 0 \in Nat /\ 1..(0 - 1) = {}
    OBVIOUS
  <2> QED
    BY <2>2, <2>3 DEF Single
<1>2. ASSUME NEW n \in Nat, n \in Good
      PROVE  n + 1 \in Good
  <2> SUFFICES ASSUME n + 1 <= Len(s) PROVE Fine(n + 1)
    OBVIOUS
  <2>1. Fine(n)
    BY <1>0, <1>2
  <2>2. u[n + 1] = IF s[n + 1] = "v1" /\ n + 1 > 1 /\ s[n] = "v1" THEN u[n] ELSE Append(u[n], s[n + 1])
    <3>1. n + 1 \in 0..Len(s) /\ n + 1 # 0 /\ (n + 1) - 1 = n
      BY <1>0
    <3>2. u[n + 1] = OutStep(s, u, n + 1)
      BY <1>0, <3>1, OutUnfolds
    <3> HIDE DEF u
    <3> QED
      BY <3>1, <3>2, Zenon DEF OutStep
  <2> HIDE DEF u
  <2>3. CASE s[n + 1] = "v1" /\ n + 1 > 1 /\ s[n] = "v1"
    <3>1. u[n + 1] = u[n] /\ n > 0 /\ n + 1 > 0 /\ n + 1 # 0
      BY <2>2, <2>3
    <3>2. ~Single(s)
      BY <2>3 DEF Single
    <3> QED
      BY <2>1, <2>3, <3>1, <3>2, Zenon
  <2>4. CASE ~(s[n + 1] = "v1" /\ n + 1 > 1 /\ s[n] = "v1")
    <3> DEFINE v == u[n]
               w == u[n + 1]
    <3>1. v \in Seq(S) /\ s[n + 1] \in S /\ w = Append(v, s[n + 1])
      BY <2>1, <2>2, <2>4
    <3> HIDE DEF v, w
    <3>2. /\ w \in Seq(S) /\ Len(v) \in Nat /\ Len(w) = Len(v) + 1 /\ w[Len(w)] = s[n + 1]
          /\ \A i \in 1..Len(v) : w[i] = v[i]
      BY <3>1
    <3>3. Single(w)
      <4> SUFFICES ASSUME NEW i \in 1..(Len(w) - 1), w[i] = "v1" PROVE w[i + 1] # "v1"
        BY DEF Single
      <4>1. i \in 1..Len(v) /\ w[i] = v[i]
        BY <3>2
      <4>2. CASE i = Len(v)
        <5>1. n > 0
          BY <2>1, <3>2, <4>1 DEF v
        <5>2. v[Len(v)] = s[n]
          BY <2>1, <5>1 DEF v
        <5> QED
          BY <2>4, <3>2, <4>1, <4>2, <5>1, <5>2
      <4>3. CASE i # Len(v)
        <5>1. i \in 1..(Len(v) - 1) /\ i + 1 \in 1..Len(v) /\ w[i + 1] = v[i + 1]
          BY <3>2, <4>1, <4>3
        <5>2. Single(v)
          BY <2>1 DEF v
        <5> QED
          BY <4>1, <5>1, <5>2 DEF Single
      <4> QED
        BY <4>2, <4>3
    <3>4. Single(s) => Len(w) = n + 1 /\ \A i \in 1..(n + 1) : w[i] = s[i]
      <4> SUFFICES ASSUME Single(s) PROVE Len(w) = n + 1 /\ \A i \in 1..(n + 1) : w[i] = s[i]
        OBVIOUS
      <4>1. Len(v) = n /\ \A i \in 1..n : v[i] = s[i]
        BY <2>1 DEF v
      <4>2. \A i \in 1..(n + 1) : i \in 1..n \/ i = n + 1
        OBVIOUS
      <4> QED
        BY <3>2, <4>1, <4>2
    <3>5. n + 1 # 0 /\ Len(w) > 0
      BY <3>2
    <3> QED
      BY <3>2, <3>3, <3>4, <3>5 DEF w
  <2> QED
    BY <2>3, <2>4
<1>3. Nat \subseteq Good
  <2> HIDE DEF Good
  <2> QED
    BY <1>1, <1>2, SetInduction
<1>4. Fine(Len(s))
  BY <1>0, <1>3
<1>5. Url!Collapsed(s) = u[Len(s)]
  BY OutUnfolds
<1> HIDE DEF u
<1>6. Single(s) => u[Len(s)] = s
  <2> SUFFICES ASSUME Single(s) PROVE u[Len(s)] = s
    OBVIOUS
  <2> DEFINE w == u[Len(s)]
  <2>1. w \in Seq(S) /\ Len(w) = Len(s) /\ \A i \in 1..Len(s) : w[i] = s[i]
    BY <1>4
  <2> HIDE DEF w
  <2> QED
    BY <2>1, SeqEqual DEF w
<1> QED
  BY <1>4, <1>5, <1>6

\* What is normal: what normalizing gives, and leaves as it is.
Settled(t) == ~Ends(t) /\ Single(t)

LEMMA NormalIs ==
  ASSUME NEW S, NEW s \in Seq(S)
  PROVE  Url!Normalized(s) \in Seq(S) /\ Settled(Url!Normalized(s))
<1> DEFINE d == Url!Dropped(s)
           c == Url!Collapsed(d)
<1>1. d \in Seq(S) /\ ~Ends(d)
  BY DroppedIs
<1> HIDE DEF d
<1>2. /\ c \in Seq(S) /\ Single(c)
      /\ Len(d) > 0 => Len(c) > 0 /\ c[Len(c)] = d[Len(d)]
      /\ Len(d) = 0 => Len(c) = 0
  BY <1>1, CollapsedIs
<1>3. Url!Normalized(s) = c
  BY DEF Url!Normalized, d
<1> HIDE DEF c
<1>4. ~Ends(c)
  BY <1>1, <1>2 DEF Ends
<1> QED
  BY <1>2, <1>3, <1>4 DEF Settled

\* A settled path with an endpoint after it means the same.
LEMMA SettledStays ==
  ASSUME NEW S, NEW b \in Seq(S), Settled(b), NEW u \in Seq(S), NEW k \in 0..2,
         Len(u) = Len(b) + k, \A i \in 1..Len(b) : u[i] = b[i],
         k = Url!Endpoint(u)
  PROVE  Url!Normalized(u) = b
<1>1. SubSeq(u, 1, Len(b)) = b
  <2> DEFINE w == SubSeq(u, 1, Len(b))
  <2>1. w \in Seq(S) /\ Len(w) = Len(b) /\ \A i \in 1..Len(b) : w[i] = b[i]
    OBVIOUS
  <2> HIDE DEF w
  <2> QED
    BY <2>1, SeqEqual DEF w
<1>2. Len(b) \in 0..Len(u) /\ Len(u) \in 0..Len(u) /\ Len(u) - k = Len(b)
  OBVIOUS
<1>3. LeftOf(u)[Len(b)] = Len(b)
  BY <1>1, <1>2, DroppedIs DEF Settled
<1>4. LeftOf(u)[Len(u)] = Len(b)
  <2>1. LeftOf(u)[Len(u)] = LeftStep(u, LeftOf(u), Len(u))
    BY <1>2, LeftUnfolds
  <2>2. SubSeq(u, 1, Len(u)) = u
    <3> DEFINE w == SubSeq(u, 1, Len(u))
    <3>1. w \in Seq(S) /\ Len(w) = Len(u) /\ \A i \in 1..Len(u) : w[i] = u[i]
      OBVIOUS
    <3> HIDE DEF w
    <3> QED
      BY <3>1, SeqEqual DEF w
  <2>3. LeftOf(u)[Len(u)] = IF k = 0 THEN Len(u) ELSE LeftOf(u)[Len(u) - k]
    BY <2>1, <2>2, Zenon DEF LeftStep
  <2> QED
    BY <1>2, <1>3, <2>3
<1>5. Url!Dropped(u) = b
  BY <1>1, <1>4, LeftUnfolds
<1>6. Url!Collapsed(b) = b
  BY CollapsedIs DEF Settled
<1> QED
  BY <1>5, <1>6 DEF Url!Normalized

\* A base is settled once, whatever was pasted: its endpoints, and the
\* endpoints of those, are of the same base and double no v1 (llm.rs:308, 368).
THEOREM BaseIsSettled ==
  ASSUME NEW S, {"models", "chat", "completions"} \subseteq S, NEW segs \in Seq(S)
  PROVE  Url!BaseSettles(segs)
<1> DEFINE b == Url!Normalized(segs)
           m == b \o <<"models">>
           c == b \o <<"chat", "completions">>
<1>1. b \in Seq(S) /\ Settled(b)
  BY NormalIs
<1>2. \A t : Url!Normalized(t) = b => Url!ModelsUrl(t) = m /\ Url!ChatUrl(t) = c
  <2> SUFFICES ASSUME NEW t, Url!Normalized(t) = b
               PROVE  Url!ModelsUrl(t) = m /\ Url!ChatUrl(t) = c
    OBVIOUS
  <2>1. Head(<<"models">>) # "v1" /\ Head(<<"chat", "completions">>) # "v1"
    OBVIOUS
  <2> HIDE DEF b
  <2> QED
    BY <2>1, Zenon DEF Url!ModelsUrl, Url!ChatUrl, Url!Joined
<1> HIDE DEF b
<1>3. <<"models">> \in Seq(S) /\ <<"chat", "completions">> \in Seq(S)
  OBVIOUS
<1>4. /\ m \in Seq(S) /\ Len(m) = Len(b) + 1 /\ m[Len(b) + 1] = "models"
      /\ \A i \in 1..Len(b) : m[i] = b[i]
  BY <1>1, <1>3
<1>5. /\ c \in Seq(S) /\ Len(c) = Len(b) + 2 /\ c[Len(b) + 1] = "chat" /\ c[Len(b) + 2] = "completions"
      /\ \A i \in 1..Len(b) : c[i] = b[i]
  BY <1>1, <1>3
<1>6. Url!Endpoint(b) = 0 /\ Len(b) \in Nat
  BY <1>1, EndpointIs DEF Settled
<1> HIDE DEF m, c
<1>7. Url!Endpoint(m) = 1 /\ Url!Endpoint(c) = 2
  BY <1>4, <1>5, <1>6 DEF Url!Endpoint
<1>8. Url!Normalized(b) = b
  <2>1. 0 \in 0..2 /\ Len(b) = Len(b) + 0
    BY <1>6
  <2> QED
    BY <1>1, <1>6, <2>1, SettledStays
<1>9. Url!Normalized(m) = b
  BY <1>1, <1>4, <1>7, SettledStays
<1>10. Url!Normalized(c) = b
  BY <1>1, <1>5, <1>7, SettledStays
<1>11. Single(m) /\ Single(c)
  <2>1. /\ \A i \in 1..(Len(m) - 1) : i \in 1..Len(b)
        /\ \A i \in 1..(Len(c) - 1) : i \in 1..Len(b) \/ i = Len(b) + 1
        /\ \A i \in 1..Len(b) : i = Len(b) \/ (i \in 1..(Len(b) - 1) /\ i + 1 \in 1..Len(b))
        /\ Len(b) + 1 + 1 = Len(b) + 2
    BY <1>4, <1>5, <1>6
  <2>2. \A i \in 1..(Len(b) - 1) : b[i] = "v1" => b[i + 1] # "v1"
    BY <1>1 DEF Single, Settled
  <2>3. Single(m)
    BY <1>4, <2>1, <2>2 DEF Single
  <2>4. Single(c)
    BY <1>5, <2>1, <2>2 DEF Single
  <2> QED
    BY <2>3, <2>4
<1>12. Url!ModelsUrl(segs) = m /\ Url!ChatUrl(segs) = c /\ Url!Normalized(segs) = b
  BY <1>2 DEF b
<1>13. Url!ModelsUrl(c) = m /\ Url!ChatUrl(m) = c
  BY <1>2, <1>9, <1>10
<1> QED
  BY <1>8, <1>9, <1>10, <1>11, <1>12, <1>13, Zenon DEF Url!BaseSettles, Url!BoundTo, Single

-----------------------------------------------------------------------------
(* The parts together *)

RecordsInv ==
  /\ ReleasesInv /\ ExportInv /\ RetryInv /\ ParkInv /\ ClicksInv /\ SessionInv /\ DesktopInv
  /\ HubInv /\ FramesInv /\ StreamInv /\ ProfileInv /\ ChoiceInv /\ ListInv

LEMMA RecordsInit == Init => RecordsInv
BY ReleasesInit, ExportInit, RetryInit, ParkInit, ClicksInit, SessionInit, DesktopInit,
   HubInit, FramesInit, StreamInit, ProfileInit, ChoiceInit, ListInit DEF Init, RecordsInv

LEMMA RecordsStep ==
  ASSUME RecordsInv, [Next]_vars
  PROVE  RecordsInv'
<1>1. CASE UNCHANGED vars
  BY <1>1, ReleasesStill, ExportStill, RetryStill, ParkStill, ClicksStill, SessionStill, DesktopStill,
     HubStill, FramesStill, StreamStill, ProfileStill, ChoiceStill, ListStill DEF vars, RecordsInv
<1>2. CASE Next
  <2>1. RetryInv'
    BY <1>2, RetryStep, RetryStill DEF Next, RecordsInv
  <2>2. ParkInv'
    BY <1>2, ParkStep, ParkStill DEF Next, RecordsInv
  <2>3. ClicksInv'
    BY <1>2, ClicksStep, ClicksStill DEF Next, RecordsInv
  <2>4. SessionInv'
    BY <1>2, SessionStep, SessionStill DEF Next, RecordsInv
  <2>5. DesktopInv'
    BY <1>2, DesktopStep, DesktopStill DEF Next, RecordsInv
  <2>6. ReleasesInv'
    BY <1>2, ReleasesStep, ReleasesStill DEF Next, RecordsInv
  <2>7. ExportInv'
    BY <1>2, ExportStep, ExportStill DEF Next, RecordsInv
  <2>8. HubInv'
    BY <1>2, HubKeeps, HubStill DEF Next, RecordsInv
  <2>9. FramesInv'
    BY <1>2, FramesStep, FramesStill DEF Next, RecordsInv
  <2>10. StreamInv'
    BY <1>2, StreamStep, StreamStill DEF Next, RecordsInv
  <2>11. ProfileInv'
    BY <1>2, ProfileStep, ProfileStill DEF Next, RecordsInv
  <2>12. ChoiceInv'
    BY <1>2, ChoiceStep, ChoiceStill DEF Next, RecordsInv
  <2>13. ListInv'
    BY <1>2, ListStep, ListStill DEF Next, RecordsInv
  <2> QED
    BY <2>1, <2>2, <2>3, <2>4, <2>5, <2>6, <2>7, <2>8, <2>9, <2>10, <2>11, <2>12, <2>13 DEF RecordsInv
<1> QED
  BY <1>1, <1>2

\* What is published can be sent and installs as it was packed, whoever packs
\* and whatever has been edited since, and with no export under way a skill is
\* found in its own directory only (skill_pkg.rs:518, 642, skills.rs:92).
THEOREM WholePackages == Spec => []PackagesAreWhole
<1>1. RecordsInv => PackagesAreWhole
  BY ReleasesMeans, ExportMeans DEF RecordsInv, PackagesAreWhole
<1> QED
  BY <1>1, RecordsInit, RecordsStep, PTL DEF Spec

\* A published version keeps its content while nobody drafts it again, as long
\* as calls do not overlap, and an export that no other command met leaves the
\* whole skill or the one before, at whichever call it fails; of a file that its
\* guards could not see to either, the old content is in the backup
\* (skill_pkg.rs:530, skills.rs:719, 729, 749).
THEOREM WholeOrBefore == Spec => ReplacedWhole
<1>1. RecordsInv /\ [Next]_vars =>
        [~torn' => \A v \in Versions, i \in Releases!Published(catalog), k \in Releases!Published(catalog') :
           catalog[i].version = v /\ catalog'[k].version = v
             => catalog'[k].digest = catalog[i].digest]_(Releases!vars)
  <2> SUFFICES ASSUME RecordsInv, [Next]_vars, ~ torn', NEW v \in Versions,
                      NEW i \in Releases!Published(catalog), NEW k \in Releases!Published(catalog'),
                      catalog[i].version = v, catalog'[k].version = v
               PROVE  catalog'[k].digest = catalog[i].digest
    OBVIOUS
  <2>1. [Releases!Next]_releaseVars
    BY DEF Next, vars, releaseVars
  <2> QED
    BY <2>1, ReleasesKeep DEF RecordsInv
<1>2. RecordsInv /\ [Next]_vars =>
        [\A p \in Procs : Export!Ends(p) /\ alone[p] => Export!Whole(p)]_(Export!vars)
  <2> SUFFICES ASSUME RecordsInv, [Next]_vars, ~ UNCHANGED Export!vars, NEW p \in Procs,
                      Export!Ends(p), alone[p]
               PROVE  Export!Whole(p)
    OBVIOUS
  <2>1. Export!Next
    BY DEF Next, vars, exportVars, Export!vars
  <2> QED
    BY <2>1, ExportEnds DEF RecordsInv
<1> QED
  BY <1>1, <1>2, RecordsInit, RecordsStep, PTL
  DEF Spec, ReplacedWhole, Releases!PublishedChangesByDraftOnly, Export!AllOrNothing

\* Retries keep their distances, a click submits what was confirmed, by one
\* job per profile, and a park that was answered stays (master_hub.rs:863,
\* 980, fleet.rs:470, ops.rs:125).
THEOREM OperatorObeyed == Spec => []OperatorIsObeyed
<1>1. RecordsInv => OperatorIsObeyed
  BY RetryMeans, ParkMeans, ClicksMeans DEF RecordsInv, OperatorIsObeyed
<1> QED
  BY <1>1, RecordsInit, RecordsStep, PTL DEF Spec

\* Of the desktop's teach children one is alive, the slot's or the start's;
\* what the slot says is of its child or of an older one that has ended; the
\* browser of a teach command runs under the profile's lock and a hub (desktop
\* teach.rs:209, 335, teach.rs:500).
THEOREM OneSession == Spec => []SessionIsOne
<1>1. RecordsInv => SessionIsOne
  BY DesktopMeans, SessionMeans DEF RecordsInv, SessionIsOne
<1> QED
  BY <1>1, RecordsInit, RecordsStep, PTL DEF Spec

\* A client is bound to its token for good, the newest connection of a role is
\* the one that is sent to, a code is guessed as often as allowed, each message
\* is heard once and in order, the model is asked for help as often as allowed,
\* and however a text without a quoted key is cut, what is shown of it is the
\* beginning of the redacted text (teach_hub.rs:973, 1138, 1291, 1374,
\* teach.rs:930, teach_events.rs:709).
THEOREM OwnConversation == Spec => ConversationIsOwn
<1> DEFINE Heard ==
      CASE part = "pairing" -> /\ Pairing!NewestKeepsOutbound /\ Pairing!GuessesBounded
                               /\ Pairing!EventOncePerConnection
        [] part = "frames"  -> Frames!MessagesHeard
        [] part = "session" -> Session!AssistBounded
        [] part = "stream"  -> Stream!StreamIsRedacted
        [] OTHER            -> TRUE
<1>1. RecordsInv => Heard
  BY PairingMeans, FramesMeans, SessionMeans, StreamMeans DEF RecordsInv, HubInv
<1>2. RecordsInv /\ [Next]_vars =>
        [\A r \in Pairing!Roles : hubSlot[r].token # 0 => hubSlot'[r].token = hubSlot[r].token]_(Pairing!vars)
  <2> SUFFICES ASSUME RecordsInv, [Next]_vars, NEW r \in Pairing!Roles, hubSlot[r].token # 0
               PROVE  hubSlot'[r].token = hubSlot[r].token
    OBVIOUS
  <2>1. Pairing!Next \/ UNCHANGED pairingVars
    BY DEF Next, vars
  <2> QED
    BY <2>1, TokensStay DEF RecordsInv, HubInv
<1>3. Spec => []Heard
  <2> HIDE DEF Heard
  <2> QED
    BY <1>1, RecordsInit, RecordsStep, PTL DEF Spec
<1>4. Spec => Pairing!PairedOnce
  BY <1>2, RecordsInit, RecordsStep, PTL DEF Spec, Pairing!PairedOnce
<1> QED
  BY <1>3, <1>4 DEF ConversationIsOwn

\* Every file, queue and record of the parts that move has the shape its readers
\* take it to have: generations stay within the connections, what is queued is
\* an event there is, an export is where its files are, and so on for each.
THEOREM Shapes == Spec => []TypesOK
<1>1. RecordsInv => TypesOK
  BY ReleasesMeans, ExportMeans, RetryMeans, ParkMeans, ClicksMeans, StreamMeans, PairingTypes, FramesMeans,
     SessionMeans, DesktopMeans, ProfileMeans, ChoiceMeans, ListMeans DEF RecordsInv, TypesOK
<1> QED
  BY <1>1, RecordsInit, RecordsStep, PTL DEF Spec

\* A profile that was made stays until it is deleted, whoever else writes to
\* it, goes with its cookies while commands do not meet, and is listed alike by
\* the command line and the desktop; a
\* finished run stays in the history; the model in use is one its provider has
\* listed, and a list that is not marked is whole (profiles.rs:52,
\* catalog.rs:107, runs.rs:235, llm.rs:499, tui/mod.rs:479, llm_client.rs:52).
THEOREM FilesTold == Spec => []FilesAreTold
<1>1. RecordsInv => FilesAreTold
  BY ProfileMeans, DesktopMeans, ChoiceMeans, ListMeans DEF RecordsInv, FilesAreTold
<1> QED
  BY <1>1, RecordsInit, RecordsStep, PTL DEF Spec

\* The input of a pure part is one of its own.
InputFits == part \in Pure \cup Moving /\ (part \in Pure => input \in Inputs[part])

\* Of whatever was recorded or typed, each control is left with what was left in
\* it last, and what was typed into a secret field is left out; a draft exported
\* again is as it was, no text typed in it is a credential, and no value selected
\* a bearer token or a cookie; a patch only trims, into steps that pass the
\* checks; a cookie file that was imported opens and counts alike for each
\* reader; and a base is the same however often it is normalized (teach.rs:1277,
\* skills.rs:295, teach_optimize.rs:263, cookies.rs:225, catalog.rs:342,
\* llm.rs:368).
THEOREM Converts == Spec => []InputsConvert
<1>1. Init => InputFits
  BY DEF Init, InputFits
<1>2. InputFits /\ [Next]_vars => InputFits'
  BY DEF InputFits, Next, vars
<1>3. InputFits => InputsConvert
  <2> SUFFICES ASSUME InputFits PROVE InputsConvert
    OBVIOUS
  <2> DEFINE Names == {"record", "draft", "optimize", "cookie", "url"}
  <2>1. part \in Names => input \in InputsOf(part)
    <3>1. \A n \in Names : n \notin Moving
      BY DEF Moving
    <3> QED
      BY <3>1, InputsAssumption, Zenon DEF InputFits, Pure
  <2>2. CASE part = "record"
    <3>1. input[1] \in Seq(Occurrence(STRING)) /\ input[2] \in BOOLEAN
      BY <2>1, <2>2 DEF InputsOf
    <3> QED
      BY <2>2, <3>1, RecordingPlays, Zenon DEF InputsConvert
  <2>3. CASE part = "draft"
    <3>1. input \in Seq(Timeline(STRING)) /\ \A i \in DOMAIN input : input[i].name # "none"
      <4>1. input \in {s \in Seq(Timeline(STRING)) : \A i \in DOMAIN s : s[i].name # "none"}
        BY <2>1, <2>3 DEF InputsOf
      <4> QED
        BY <4>1, Zenon
    <3>2. Waits
      BY InputsAssumption DEF Waits
    <3> QED
      BY <2>3, <3>1, <3>2, DraftSettles, Zenon DEF InputsConvert
  <2>4. CASE part = "optimize"
    <3> DEFINE Skills == {s \in Seq(RecordedStep(STRING)) :
                            s # <<>> /\ \A i \in DOMAIN s : s[i].vars => s[i].action = "fill"}
    <3>1. input \in Skills \X BOOLEAN \X PatchOf(STRING)
      BY <2>1, <2>4, Zenon DEF InputsOf
    <3>2. input[1] \in Skills /\ input[2] \in BOOLEAN /\ input[3] \in PatchOf(STRING)
      <4> HIDE DEF Skills
      <4> QED
        BY <3>1
    <3>3. /\ input[1] \in Seq(RecordedStep(STRING)) /\ input[1] # <<>>
          /\ \A i \in 1..Len(input[1]) : input[1][i].vars => input[1][i].action = "fill"
      <4> DEFINE s == input[1]
      <4>1. s \in Seq(RecordedStep(STRING)) /\ s # <<>> /\ \A i \in DOMAIN s : s[i].vars => s[i].action = "fill"
        BY <3>2, Zenon
      <4> HIDE DEF s
      <4>2. DOMAIN s = 1..Len(s)
        BY <4>1
      <4> QED
        BY <4>1, <4>2, Zenon DEF s
    <3> QED
      BY <2>4, <3>2, <3>3, PatchTrims, Zenon DEF InputsConvert
  <2>5. CASE part = "cookie"
    <3> DEFINE t == input[1]
               Texts == [shape : Cookie!Shapes, items : Seq(InCookieFile), cookies : Listing(InCookieFile),
                         origins : Listing(STRING)]
    <3>1. t \in Texts /\ input[2] \in Cookie!Formats
      <4>1. input \in Texts \X Cookie!Formats
        BY <2>1, <2>5, Zenon DEF InputsOf
      <4> HIDE DEF Texts
      <4> QED
        BY <4>1
    <3>2. \A i \in DOMAIN t.cookies.of : t.cookies.of[i].expires.at \in Int
      <4> HIDE DEF t
      <4>1. t.cookies \in Listing(InCookieFile)
        BY <3>1
      <4> DEFINE c == t.cookies.of
      <4>2. c \in Seq(InCookieFile)
        BY <4>1 DEF Listing
      <4> HIDE DEF c
      <4>3. \A i \in DOMAIN c : c[i] \in InCookieFile
        BY <4>2
      <4>4. \A e \in InCookieFile : e.expires.at \in Int
        BY DEF InCookieFile
      <4> QED
        BY <4>3, <4>4, Zenon DEF c
    <3> QED
      BY <2>5, <3>1, <3>2, CookiesAreKept, Zenon DEF InputsConvert
  <2>6. CASE part = "url"
    <3> DEFINE S == STRING \cup {"models", "chat", "completions"}
    <3>1. input \in Seq(STRING)
      BY <2>1, <2>6, Zenon DEF InputsOf
    <3>2. input \in Seq(S)
      BY <3>1
    <3>3. {"models", "chat", "completions"} \subseteq S
      OBVIOUS
    <3> HIDE DEF S
    <3> QED
      BY <2>6, <3>2, <3>3, BaseIsSettled, Zenon DEF InputsConvert
  <2>7. CASE part \notin Names
    BY <2>7, Zenon DEF InputsConvert
  <2> QED
    BY <2>2, <2>3, <2>4, <2>5, <2>6, <2>7
<1> QED
  BY <1>1, <1>2, <1>3, PTL DEF Spec
=============================================================================
