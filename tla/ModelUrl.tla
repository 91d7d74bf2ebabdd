------------------------------ MODULE ModelUrl ------------------------------
(***************************************************************************)
(* The base URL of a model provider and the endpoints made from it         *)
(* (src/src/llm.rs, normalize_base_url and join_openai_path).  The scheme, *)
(* host and port are kept as they are; a URL here is the sequence of the   *)
(* segments of its path, empty ones left out, without regard to case.      *)
(***************************************************************************)
EXTENDS Integers, Sequences

\* A path that ends in an endpoint: its base is asked for (drop_endpoint_suffixes, llm.rs:308).
Endpoint(segs) ==
  LET n == Len(segs) IN
  IF n >= 2 /\ segs[n - 1] = "chat" /\ segs[n] = "completions" THEN 2
  ELSE IF n >= 1 /\ segs[n] \in {"models", "completions"} THEN 1 ELSE 0

\* One endpoint after the other is dropped.
MutantDropped(segs) == SubSeq(segs, 1, Len(segs) - Endpoint(segs))
Dropped(segs) ==
  LET left[n \in 0..Len(segs)] ==
        LET e == Endpoint(SubSeq(segs, 1, n)) IN IF e = 0 THEN n ELSE left[n - e]
  IN  SubSeq(segs, 1, left[Len(segs)])

\* v1 after v1 says nothing new (collapse_duplicate_v1, llm.rs:333).
Collapsed(segs) ==
  LET out[n \in 0..Len(segs)] ==
        IF n = 0 THEN <<>>
        ELSE IF segs[n] = "v1" /\ n > 1 /\ segs[n - 1] = "v1" THEN out[n - 1]
        ELSE Append(out[n - 1], segs[n])
  IN  out[Len(segs)]

Normalized(segs) == Collapsed(Dropped(segs))

\* The path of an endpoint of a base (join_openai_path, llm.rs:381).
Joined(base, path) ==
  LET b == Normalized(base) IN
  b \o (IF b # <<>> /\ b[Len(b)] = "v1" /\ path # <<>> /\ Head(path) = "v1" THEN Tail(path) ELSE path)
ModelsUrl(base) == Joined(base, <<"models">>)
ChatUrl(base)   == Joined(base, <<"chat", "completions">>)

\* The list of one base may be saved with another when they say the same
\* (models_bound_to_request_base, llm.rs:432).
BoundTo(list, base) == Normalized(list) = Normalized(base)

-----------------------------------------------------------------------------
(* Properties, of every path *)

\* A base is settled once: normalizing it again changes nothing, and whoever
\* pastes an endpoint of it, or of that, means the same base and reaches the
\* same two endpoints (llm.rs:368, 380).
BaseSettles(segs) ==
  /\ Normalized(Normalized(segs)) = Normalized(segs)
  /\ BoundTo(ModelsUrl(segs), segs) /\ BoundTo(ChatUrl(segs), segs)
  /\ ModelsUrl(ChatUrl(segs)) = ModelsUrl(segs) /\ ChatUrl(ModelsUrl(segs)) = ChatUrl(segs)
  /\ \A u \in {ModelsUrl(segs), ChatUrl(segs)} :
       \A i \in 1..(Len(u) - 1) : u[i] = "v1" => u[i + 1] # "v1"
=============================================================================
