------------------------------ MODULE CookieFile ------------------------------
(***************************************************************************)
(* What a cookie file says, and who accepts it: the import of a browser's  *)
(* export (src/src/cookies.rs:225), the commands that read cookie.json     *)
(* back, and the counts of the desktop, which has rules of its own         *)
(* (catalog.rs:342).                                                       *)
(*                                                                         *)
(* Abstracted: a text is the shape of the JSON in it and its two fields; a *)
(* cookie is which of the fields the rules ask for it has, and its expiry. *)
(***************************************************************************)
EXTENDS Integers, Sequences, FiniteSets

CONSTANT Now       \* the time of day, in the unit of the expiries

Formats == {"auto", "storage-state", "cookies-json"}
Shapes  == {"empty", "garbled", "scalar", "array", "object"}
Absent  == [is |-> "absent", of |-> <<>>]
Other   == [is |-> "other", of |-> <<>>]
List(s) == [is |-> "list", of |-> s]

\* A text is [shape, items, cookies, origins]: items are those of an array,
\* the fields those of an object.  A state is [cookies, origins].
Bad == [ok |-> FALSE, cookies |-> <<>>, origins |-> <<>>]
Good(c, o) == [ok |-> TRUE, cookies |-> c, origins |-> o]

-----------------------------------------------------------------------------
(* Parsing *)

\* parse_storage_state_value (cookies.rs:388): a field that is absent is empty.
ParseStorage(t) ==
  IF t.shape = "object" /\ t.cookies.is # "other" /\ t.origins.is # "other"
  THEN Good(t.cookies.of, t.origins.of) ELSE Bad

\* parse_cookies_json_value (cookies.rs:405): origins are dropped.
ParseCookies(t) ==
  CASE t.shape = "array" -> Good(t.items, <<>>)
    [] t.shape = "object" /\ t.cookies.is = "list" -> Good(t.cookies.of, <<>>)
    [] OTHER -> Bad

\* detect_and_parse (cookies.rs:374).
Detect(t) ==
  CASE t.shape = "array" -> ParseCookies(t)
    [] t.shape = "object" /\ (t.cookies # Absent \/ t.origins # Absent) -> ParseStorage(t)
    [] OTHER -> Bad

\* parse_import (cookies.rs:361).
ParseImport(t, f) ==
  IF t.shape \in {"empty", "garbled"} THEN Bad
  ELSE CASE f = "auto" -> Detect(t)
         [] f = "storage-state" -> ParseStorage(t)
         [] f = "cookies-json" -> ParseCookies(t)

-----------------------------------------------------------------------------
(* Validation *)

\* validate_cookie_entries (cookies.rs:430).
ValidEntries(s) ==
  /\ \A i \in DOMAIN s.cookies : LET c == s.cookies[i] IN c.object /\ c.named /\ c.valued /\ c.placed
  /\ \A i \in DOMAIN s.origins : s.origins[i] = "object"

\* validate_storage_state (cookies.rs:422).
ValidImport(s) == (s.cookies # <<>> \/ s.origins # <<>>) /\ ValidEntries(s)

\* import (cookies.rs:225): what it writes, or nothing.
MutantImported(t, f) == ParseImport(t, f)
Imported(t, f) ==
  LET s == ParseImport(t, f) IN IF s.ok /\ ValidImport(s) THEN s ELSE Bad

\* write_storage_state_atomic (cookies.rs:479): both fields, always.
Written(s) == [shape |-> "object", items |-> <<>>, cookies |-> List(s.cookies), origins |-> List(s.origins)]

\* load_storage_state and the check of its readers: cookie_file_for_open,
\* status and export (cookies.rs:469, 71, 122, 245).
Loaded(t) ==
  LET s == IF t.shape \in {"empty", "garbled"} THEN Bad ELSE ParseStorage(t) IN
  IF s.ok /\ ValidEntries(s) THEN s ELSE Bad

-----------------------------------------------------------------------------
(* Counts *)

\* cookie_is_expired (cookies.rs:177): no expiry, -1 and 0 are of the session.
Expired(c) == c.expires.is = "number" /\ c.expires.at > 0 /\ c.expires.at < Now

\* status_from_state (cookies.rs:144): a cookie that is not expired is valid.
Counts(s, expired) ==
  [count |-> Len(s), expired |-> Cardinality(expired), valid |-> Cardinality(DOMAIN s \ expired)]
Status(t) ==
  LET s == Loaded(t).cookies IN Counts(s, {i \in DOMAIN s : Expired(s[i])})

\* cookie_is_expired and cookie_counts of the desktop (catalog.rs:399, 342).
MutantDesktopExpired(c) == c.expires.is = "number" /\ c.expires.at < Now
DesktopExpired(c) ==
  c.expires.is = "number" /\ ~(c.expires.at < 0) /\ c.expires.at > 0 /\ c.expires.at < Now
DesktopCounts(t) ==
  LET s == IF t.shape = "object" THEN t.cookies.of ELSE <<>> IN
  Counts(s, {i \in DOMAIN s : DesktopExpired(s[i])})

-----------------------------------------------------------------------------
(* Properties, of one text and one format *)

\* What an import accepts, every reader accepts and finds unchanged, and an
\* export of it can be imported again (cookies.rs:225, 71, 245): a profile
\* whose import succeeded opens.
ImportedOpens(t, f) ==
  LET s == Imported(t, f) IN
  s.ok => /\ Loaded(Written(s)) = s
          /\ Imported(Written(s), "auto") = s /\ Imported(Written(s), "storage-state") = s

\* The desktop counts the cookies of every file the commands read as they do
\* (catalog.rs:342, cookies.rs:144).
CountsAgree(t) == Loaded(t).ok => DesktopCounts(t) = Status(t)
=============================================================================
