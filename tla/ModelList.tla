----------------------------- MODULE ModelList -----------------------------
(***************************************************************************)
(* Fetching the list of a provider's models, page by page                  *)
(* (src/src/llm_client.rs, fetch_models).  The provider answers anything:  *)
(* an id is a model value, or one of "long", "junk" and "key", the ids     *)
(* that are over the limit, hold control characters or nothing, or hold    *)
(* the API key.                                                            *)
(***************************************************************************)
EXTENDS Integers, Sequences, FiniteSets, Functions

CONSTANTS Ids, Links,     \* what a page may link to on the provider's origin
          MaxIds,         \* MAX_MODELS
          MaxPages,       \* MAX_MODELS_PAGES
          MaxItems        \* bound: items of a page

VARIABLES
  url,       \* the page asked for next: <<"first">>, <<"link", it>> or <<"after", id>>
  ids, truncated, pages, seenAfter,
  outcome,   \* "asking", "list" or "error"
  offered,   \* observation: the ids of the pages answered that may be listed
  hid,       \* observation: a page was clipped, or an id too long to list
  more       \* observation: the last page said there are more

vars == <<url, ids, truncated, pages, seenAfter, outcome, offered, hid, more>>

Odd   == {"long", "junk", "key"}
Items == UNION {[1..n -> Ids \cup Odd] : n \in 0..MaxItems}
Page  == [items : Items, clipped : BOOLEAN, more : BOOLEAN, next : Links \cup {"none", "off"}]

TypeOK ==
  /\ url \in {<<"first">>} \cup ({"link"} \X Links) \cup ({"after"} \X Ids)
  /\ ids \in Seq(Ids) /\ Len(ids) <= MaxIds /\ IsInjective(ids)
  /\ truncated \in BOOLEAN /\ hid \in BOOLEAN /\ more \in BOOLEAN /\ pages \in 0..MaxPages
  /\ seenAfter \subseteq Ids /\ offered \subseteq Ids /\ outcome \in {"asking", "list", "error"}

Init ==
  /\ url = <<"first">> /\ ids = <<>> /\ truncated = FALSE /\ pages = 0 /\ seenAfter = {}
  /\ outcome = "asking" /\ offered = {} /\ hid = FALSE /\ more = FALSE

\* What a page's parser leaves in, and accept_model_id (llm.rs:412) after it.
Parsed   == Ids \cup {"key"}
Accepted == Ids

\* Those of A in a sequence, each once, and as many as there is room for.
Once(s, A) ==
  LET upTo[i \in 0..Len(s)] ==
        IF i = 0 THEN <<>>
        ELSE LET l == upTo[i - 1] IN IF s[i] \in A \ Range(l) THEN Append(l, s[i]) ELSE l
  IN  upTo[Len(s)]
Room(s) == SubSeq(s, 1, IF Len(s) < MaxIds THEN Len(s) ELSE MaxIds)

\* The ids of a page (parse_models_page, llm_client.rs:619): those over the
\* limits are told, the others left out.
PageIds(items) == Room(Once(items, Parsed))
PageTold(p)    == p.clipped \/ "long" \in Range(p.items)
                  \/ \E n \in DOMAIN p.items :
                       p.items[n] \in Parsed /\ Len(PageIds(SubSeq(p.items, 1, n - 1))) >= MaxIds
\* All that may be listed, as far as there is room.
Listed(p)      == Room(Once(ids \o PageIds(p.items), Accepted))

Ends(how)     == outcome' = how /\ UNCHANGED <<url, seenAfter>>
\* A list without a model is an error (llm_client.rs:118).
Stops(l)      == Ends(IF l = <<>> THEN "error" ELSE "list")

\* No answer, an HTTP error, or a body that is no page; one that was cut at the
\* size cap is seldom JSON (get_models, read_capped_n).
Fails ==
  /\ outcome = "asking" /\ pages < MaxPages /\ pages' = pages + 1 /\ Ends("error")
  /\ UNCHANGED <<ids, truncated, offered, hid, more>>

\* Where the next page is, off the origin of the first one being an error
\* (resolve_next), and from the last id on when there is no link.
Goes(p, l) ==
  CASE p.next = "off"  -> Ends("error")
    [] p.next \in Links -> IF url = <<"link", p.next>> THEN Stops(l)
                           ELSE url' = <<"link", p.next>> /\ UNCHANGED <<outcome, seenAfter>>
    [] p.next = "none" -> IF l = <<>> \/ l[Len(l)] \in seenAfter THEN Stops(l)
                          ELSE /\ seenAfter' = seenAfter \cup {l[Len(l)]}
                               /\ url' = <<"after", l[Len(l)]>> /\ UNCHANGED outcome
Answered(p) ==
  /\ outcome = "asking" /\ pages < MaxPages /\ pages' = pages + 1
  /\ LET l    == Listed(p)
         full == Len(l) >= MaxIds
         same == p.more /\ url = <<"link", p.next>>
     IN  /\ ids' = l /\ offered' = offered \cup (Range(p.items) \ Odd)
         /\ truncated' = (truncated \/ PageTold(p) \/ full \/ same)
         /\ hid' = (hid \/ p.clipped \/ "long" \in Range(p.items)) /\ more' = p.more
         /\ IF full \/ ~p.more THEN Stops(l) ELSE Goes(p, l)

\* No more pages are asked for (llm_client.rs:52).
MutantPagesOut == outcome = "asking" /\ pages = MaxPages /\ Stops(ids) /\ UNCHANGED <<ids, truncated, pages, offered, hid, more>>
PagesOut ==
  /\ outcome = "asking" /\ pages = MaxPages /\ truncated' = TRUE /\ Stops(ids)
  /\ UNCHANGED <<ids, pages, offered, hid, more>>

Next == Fails \/ (\E p \in Page : Answered(p)) \/ PagesOut
Spec == Init /\ [][Next]_vars

-----------------------------------------------------------------------------
(* Properties *)

\* Whatever the provider answers, in whatever order it repeats itself: a list
\* that is not marked truncated has every id the pages offered, none was hidden,
\* and there was no next page, but for one whose cursor had been used before
\* (llm_client.rs:104).
WholeUnlessTold ==
  outcome = "list" /\ ~truncated =>
    offered \subseteq Range(ids) /\ ~hid /\ (more => ids[Len(ids)] \in seenAfter)
=============================================================================
