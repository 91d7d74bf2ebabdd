---------------------------- MODULE TeachPairing ----------------------------
(***************************************************************************)
(* Who is connected to the teach hub (src/src/teach_hub.rs): extensions    *)
(* and workers open connections, pair with the code of the session or come *)
(* back with the token of their role, and send pages, origins, chat        *)
(* messages and cancels.  Each connection is a task; the hub is behind one *)
(* lock, and what a task does under it is one action: accepting a pairing, *)
(* registering the sender, queueing the answer and ending are four.        *)
(*                                                                         *)
(* The connection of a client is its socket; a client closes one before it *)
(* opens the next, while the hub's task for the old one may still run.     *)
(* What the requests of a session mean is in TeachHub.                     *)
(***************************************************************************)
EXTENDS Naturals, Sequences, FiniteSets

CONSTANTS Extensions, Workers,          \* clients: windows and processes
          Origins, MaxFailures,         \* MAX_PAIRING_FAILURES
          MaxConns, MaxEvents           \* bounds

VARIABLES
  pairing,  \* [failures, locked, expired]
  slot,     \* role |-> [token, connected]; token 0: not paired yet
  gen,      \* role |-> conn_gen
  outbound, \* role |-> the connection that has the sender, 0 when none
  conn,     \* connection |-> [who, at, role, gen, replay, closed]
  held,     \* client |-> [conn, token]
  inbox,    \* connection |-> the events queued to its writer
  events,   \* the timeline: the sequence number is the index
  session,  \* [allow, page, machine]
  guesses   \* observation: codes compared and found wrong

hubVars == <<pairing, slot, gen, outbound, events, session, guesses>>
vars    == <<hubVars, conn, held, inbox>>

Clients == Extensions \cup Workers
Conns   == 1..MaxConns
Roles   == {"extension", "worker"}
NoOne   == "nobody"
RoleOf(c) == IF c \in Workers THEN "worker" ELSE "extension"
Kinds   == {"page_state", "chat_message", "human_confirm", "cancel", "action_request", "export_result"}
Idle    == [who |-> NoOne, at |-> "none", role |-> "none", gen |-> 0, replay |-> <<>>, closed |-> FALSE]

TypeOK ==
  /\ pairing \in [failures : Nat, locked : BOOLEAN, expired : BOOLEAN]
  /\ slot \in [Roles -> [token : 0..MaxConns, connected : BOOLEAN]]
  /\ gen \in [Roles -> 0..MaxConns] /\ outbound \in [Roles -> 0..MaxConns]
  /\ \A k \in Conns : /\ conn[k].who \in Clients \cup {NoOne} /\ conn[k].closed \in BOOLEAN
                      /\ conn[k].at \in {"none", "token", "code", "wrong", "register", "reply",
                                         "refused", "loop", "ended"}
                      /\ conn[k].role \in Roles \cup {"none"} /\ conn[k].gen \in 0..MaxConns
  /\ held \in [Clients -> [conn : 0..MaxConns, token : 0..MaxConns]]
  /\ \A k \in Conns : \A i \in DOMAIN inbox[k] : inbox[k][i] \in 1..MaxEvents
  /\ Len(events) <= MaxEvents /\ \A i \in DOMAIN events : events[i] \in Kinds
  /\ session.allow \subseteq Origins /\ session.page \subseteq Origins
  /\ session.machine \in {"chat", "cancel", "acting", "error"} /\ guesses \in Nat

\* spawn (teach_hub.rs:754); no origin is allowed but those of the options.
Init ==
  /\ pairing = [failures |-> 0, locked |-> FALSE, expired |-> FALSE]
  /\ slot = [r \in Roles |-> [token |-> 0, connected |-> FALSE]]
  /\ gen = [r \in Roles |-> 0] /\ outbound = [r \in Roles |-> 0]
  /\ conn = [k \in Conns |-> Idle] /\ inbox = [k \in Conns |-> <<>>]
  /\ held = [c \in Clients |-> [conn |-> 0, token |-> 0]]
  /\ events = <<>> /\ guesses = 0
  /\ session = [allow |-> {}, page |-> {}, machine |-> "chat"]

Goto(k, l) == conn' = [conn EXCEPT ![k].at = l]

-----------------------------------------------------------------------------
(* The clients *)

\* A client connects and sends pairing_accept: with its token when it has one
\* (teach_hub.py:317, pairing.js:89), else with a code, which a human has
\* typed and may have got wrong.
Connect(c, right) ==
  LET k == CHOOSE x \in Conns : conn[x] = Idle /\ \A y \in Conns : conn[y] = Idle => x <= y
      at == CASE held[c].token # 0 -> "token" [] right -> "code" [] OTHER -> "wrong" IN
  /\ held[c].conn = 0 /\ \E x \in Conns : conn[x] = Idle
  /\ held[c].token # 0 => right
  /\ conn' = [conn EXCEPT ![k] = [Idle EXCEPT !.who = c, !.at = at]]
  /\ held' = [held EXCEPT ![c].conn = k]
  /\ UNCHANGED <<hubVars, inbox>>

\* The client closes, or the network does.
Leave(c) ==
  /\ held[c].conn # 0
  /\ conn' = [conn EXCEPT ![held[c].conn].closed = TRUE]
  /\ held' = [held EXCEPT ![c].conn = 0]
  /\ UNCHANGED <<hubVars, inbox>>

\* Ten minutes have passed since the hub started.
Expire ==
  /\ ~pairing.expired /\ pairing' = [pairing EXCEPT !.expired = TRUE]
  /\ UNCHANGED <<slot, gen, outbound, events, session, guesses, conn, held, inbox>>

-----------------------------------------------------------------------------
(* Pairing *)

\* handle_pairing_accept with a token (teach_hub.rs:1274): every stored event
\* is to be sent again, since the clients ask to resume from 0.
AcceptToken(k) ==
  LET r == RoleOf(conn[k].who) IN
  /\ conn[k].at = "token"
  /\ slot[r].token = held[conn[k].who].token
  /\ slot' = [slot EXCEPT ![r].connected = TRUE]
  /\ conn' = [conn EXCEPT ![k].role = r, ![k].at = "register", ![k].replay = [i \in DOMAIN events |-> i]]
  /\ UNCHANGED <<pairing, gen, outbound, events, session, guesses, held, inbox>>

\* handle_pairing_accept with a code (teach_hub.rs:1327): locked, expired,
\* wrong, consumed, or paired with a token of its own.
MutantLocks(n) == FALSE
Locks(n) == n >= MaxFailures
Refuse(k) == Goto(k, "refused") /\ UNCHANGED slot
MutantAcceptCode(k) ==
  LET r == RoleOf(conn[k].who) IN
  /\ conn[k].at \in {"code", "wrong"}
  /\ \/ /\ pairing.locked \/ pairing.expired \/ conn[k].at = "wrong"
        /\ Refuse(k) /\ UNCHANGED <<pairing, guesses>>
     \/ /\ ~pairing.locked /\ ~pairing.expired /\ conn[k].at = "code"
        /\ slot' = [slot EXCEPT ![r] = [token |-> k, connected |-> TRUE]]
        /\ conn' = [conn EXCEPT ![k].role = r, ![k].at = "register"]
        /\ UNCHANGED <<pairing, guesses>>
  /\ UNCHANGED <<gen, outbound, events, session, held, inbox>>
AcceptCode(k) ==
  LET r == RoleOf(conn[k].who)  open == ~pairing.locked /\ ~pairing.expired IN
  /\ conn[k].at \in {"code", "wrong"}
  /\ \/ ~open /\ Refuse(k) /\ UNCHANGED <<pairing, guesses>>
     \/ /\ open /\ conn[k].at = "wrong" /\ Refuse(k)
        /\ guesses' = guesses + 1
        /\ pairing' = [pairing EXCEPT !.failures = @ + 1, !.locked = Locks(pairing.failures + 1)]
     \/ /\ open /\ conn[k].at = "code" /\ slot[r].token # 0
        /\ Refuse(k) /\ UNCHANGED <<pairing, guesses>>
     \/ /\ open /\ conn[k].at = "code" /\ slot[r].token = 0
        /\ slot' = [slot EXCEPT ![r] = [token |-> k, connected |-> TRUE]]
        /\ conn' = [conn EXCEPT ![k].role = r, ![k].at = "register"]
        /\ UNCHANGED <<pairing, guesses>>
  /\ UNCHANGED <<gen, outbound, events, session, held, inbox>>

\* register_outbound (teach_hub.rs:992): once for a connection, and the last
\* to register has the sender of its role.
Register(k) ==
  LET r == conn[k].role IN
  /\ conn[k].at = "register"
  /\ gen' = [gen EXCEPT ![r] = @ + 1] /\ outbound' = [outbound EXCEPT ![r] = k]
  /\ slot' = [slot EXCEPT ![r].connected = TRUE]
  /\ conn' = [conn EXCEPT ![k].at = "reply", ![k].gen = gen[r] + 1]
  /\ UNCHANGED <<pairing, events, session, guesses, held, inbox>>

\* The answer and the replay are queued (teach_hub.rs:957, 1088), behind what
\* was sent since the registration; a client that has gone never learns its token.
MutantReplayOf(k) == [i \in DOMAIN events |-> i]
ReplayOf(k) == conn[k].replay
Reply(k) ==
  LET c == conn[k].who IN
  /\ conn[k].at = "reply" /\ conn' = [conn EXCEPT ![k].at = "loop", ![k].replay = <<>>]
  /\ inbox' = [inbox EXCEPT ![k] = @ \o ReplayOf(k)]
  /\ held' = IF held[c].conn = k THEN [held EXCEPT ![c].token = slot[conn[k].role].token] ELSE held
  /\ UNCHANGED hubVars

\* A refusal leaves the connection open, without a role (teach_hub.rs:1461).
ReplyRefused(k) == conn[k].at = "refused" /\ Goto(k, "loop") /\ UNCHANGED <<hubVars, held, inbox>>

\* The end of a connection (mark_disconnected, teach_hub.rs:1138): only the
\* newest one of its role takes the sender and the mark with it.
MutantIsNewest(k) == TRUE
IsNewest(k) == gen[conn[k].role] = conn[k].gen
End(k) ==
  LET r == conn[k].role IN
  /\ conn[k].at = "loop" /\ conn[k].closed
  /\ Goto(k, "ended")
  /\ IF r # "none" /\ IsNewest(k)
     THEN /\ outbound' = [outbound EXCEPT ![r] = 0]
          /\ slot' = [slot EXCEPT ![r].connected = FALSE]
     ELSE UNCHANGED <<outbound, slot>>
  /\ UNCHANGED <<pairing, gen, events, session, guesses, held, inbox>>

-----------------------------------------------------------------------------
(* What a paired connection sends (process_line, teach_hub.rs:1150).  The    *)
(* answer goes to the connection it came from, and carries the event.        *)

Hears(k, role) == conn[k].at = "loop" /\ conn[k].role = role
\* An event is stored and sent to these connections.
Store(kind, to) ==
  /\ Len(events) < MaxEvents /\ events' = Append(events, kind)
  /\ inbox' = [k \in Conns |-> IF k \in to THEN Append(inbox[k], Len(events) + 1) ELSE inbox[k]]
SenderOf(r) == {outbound[r]} \ {0}

\* handle_page_state (teach_hub.rs:1483) after PageState::from_data
\* (teach_protocol.rs:537): the page's origin must be on the list.
PageState(k, o) ==
  /\ conn[k].at = "loop" /\ conn[k].role # "none" /\ o \in session.allow
  /\ session' = [session EXCEPT !.page = {o}] /\ Store("page_state", {k})
  /\ UNCHANGED <<pairing, slot, gen, outbound, guesses, conn, held>>

\* handle_allowlist_update (teach_hub.rs:1562).
AllowOrigin(k, o) ==
  /\ Hears(k, "extension") /\ session' = [session EXCEPT !.allow = @ \cup {o}]
  /\ UNCHANGED <<pairing, slot, gen, outbound, events, guesses, conn, held, inbox>>

\* handle_chat_message and handle_human_confirm (teach_hub.rs:1664, 1849).
Says(k, kind, machine) ==
  /\ Hears(k, "extension") /\ Store(kind, {k})
  /\ session' = [session EXCEPT !.machine = machine]
  /\ UNCHANGED <<pairing, slot, gen, outbound, guesses, conn, held>>
ChatMessage(k)     == Says(k, "chat_message", session.machine)
HumanConfirm(k, a) == Says(k, "human_confirm", IF a THEN "acting" ELSE "chat")

\* handle_inbound_cancel (teach_hub.rs:1627) tells the worker and the sender.
InboundCancel(k) ==
  /\ Hears(k, "extension") /\ Store("cancel", {k} \cup SenderOf("worker"))
  /\ session' = [session EXCEPT !.machine = "cancel"]
  /\ UNCHANGED <<pairing, slot, gen, outbound, guesses, conn, held>>

\* The chat sends the worker a request (dispatch_action_request, teach_hub.rs:225).
SendRequest ==
  /\ Store("action_request", SenderOf("worker"))
  /\ session' = [session EXCEPT !.machine = "acting"]
  /\ UNCHANGED <<pairing, slot, gen, outbound, guesses, conn, held>>

\* note_export (teach_hub.rs:348) is stored, and sent to nobody.
NoteExport(ok) ==
  /\ Store("export_result", {})
  /\ session' = [session EXCEPT !.machine = IF ok THEN "chat" ELSE "error"]
  /\ UNCHANGED <<pairing, slot, gen, outbound, guesses, conn, held>>

Next ==
  \/ \E c \in Clients, right \in BOOLEAN : Connect(c, right)
  \/ \E c \in Clients : Leave(c)
  \/ Expire
  \/ \E k \in Conns : \/ AcceptToken(k) \/ AcceptCode(k) \/ Register(k) \/ Reply(k)
                      \/ ReplyRefused(k) \/ End(k) \/ ChatMessage(k) \/ InboundCancel(k)
  \/ \E k \in Conns, o \in Origins : PageState(k, o) \/ AllowOrigin(k, o)
  \/ \E k \in Conns, a \in BOOLEAN : HumanConfirm(k, a)
  \/ SendRequest
  \/ \E ok \in BOOLEAN : NoteExport(ok)

Spec == Init /\ [][Next]_vars

-----------------------------------------------------------------------------
(* Properties *)

\* The newest connection of a role keeps its sender until it ends itself,
\* however late the tasks of the ones before it end (mark_disconnected), and
\* a role shown as connected has a sender or is about to register one.
NewestKeepsOutbound ==
  \A r \in Roles :
    /\ \A k \in Conns : conn[k].role = r /\ conn[k].gen = gen[r] /\ conn[k].at \in {"reply", "loop"}
                          => outbound[r] = k /\ slot[r].connected
    /\ slot[r].connected => outbound[r] # 0 \/ \E k \in Conns : conn[k].role = r /\ conn[k].at = "register"

\* The code pairs a role once: no second window or process, and no client that
\* lost its answer, is given another token for it (teach_hub.rs:1377 "Code is
\* one-shot per role").
PairedOnce == [][\A r \in Roles : slot[r].token # 0 => slot'[r].token = slot[r].token]_vars

\* Whatever the number of connections, no more than MAX_PAIRING_FAILURES wrong
\* codes are ever compared.
GuessesBounded == guesses <= MaxFailures

\* No connection is sent an event twice, once live and once in the replay: the
\* replay is fixed before the sender is registered (teach_hub.rs:1291, 957).
EventOncePerConnection ==
  \A k \in Conns : Cardinality({inbox[k][i] : i \in DOMAIN inbox[k]}) = Len(inbox[k])
=============================================================================
