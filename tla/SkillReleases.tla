--------------------------- MODULE SkillReleases ---------------------------
(***************************************************************************)
(* The releases of one skill on the master (src/src/skill_pkg.rs): the     *)
(* catalog file, the package files beside it, and the calls that change    *)
(* them.  The hub serves every control connection on a task of its own and *)
(* the command line runs in its own process, and no lock orders them: a    *)
(* call is the two steps "read the catalog (and write the package)" and    *)
(* "write the catalog read, with its change".  A crash may come between.   *)
(*                                                                         *)
(* created_at never decreases, so the latest release is the last one of    *)
(* the catalog.  Definitions that start with Mutant are bugs, no part of   *)
(* the model.                                                              *)
(***************************************************************************)
EXTENDS SkillPackage

CONSTANTS Dirs,        \* what the skill's directory may hold
          Versions, Calls,
          MaxEdits, MaxCalls, MaxCrashes,   \* bounds
          NoPkg, NoCall

VARIABLES
  dir,        \* the skill's directory
  catalog,    \* catalog.json: the releases in the order they were added
  tar,        \* version |-> package.tar of its release directory
  call,       \* call |-> what it still has to write, NoCall when idle
  budget,
  torn        \* observation: two calls overlapped, or one was cut short

vars == <<dir, catalog, tar, call, budget, torn>>

Packages == {PackTar(d, ManifestOf(d, v)) : d \in Dirs, v \in Versions}
Release  == [version : Versions, digest : Packages, published : BOOLEAN]

Mentions(cat, v) == {i \in DOMAIN cat : cat[i].version = v}
Published(cat)   == {i \in DOMAIN cat : cat[i].published}
MutantWithout(cat, v) == cat
\* What is left of the releases without that of the version, of which there is
\* one at most.
Without(cat, v) ==
  IF Mentions(cat, v) = {} THEN cat
  ELSE LET i == CHOOSE i \in Mentions(cat, v) : TRUE
       IN  SubSeq(cat, 1, i - 1) \o SubSeq(cat, i + 1, Len(cat))
Latest(is)       == CHOOSE i \in is : \A k \in is : k <= i

TypeOK ==
  /\ dir \in Dirs
  /\ \A i \in DOMAIN catalog : catalog[i] \in Release
  /\ tar \in [Versions -> Packages \cup {NoPkg}]
  /\ \A c \in Calls : call[c] # NoCall => \A i \in DOMAIN call[c].cat : call[c].cat[i] \in Release
  /\ torn \in BOOLEAN
  \* a version has one record at most
  /\ \A i, k \in DOMAIN catalog : catalog[i].version = catalog[k].version => i = k

Init ==
  /\ dir \in Dirs
  /\ catalog = <<>>
  /\ tar = [v \in Versions |-> NoPkg]
  /\ call = [c \in Calls |-> NoCall]
  /\ budget = [edits |-> MaxEdits, calls |-> MaxCalls, crashes |-> MaxCrashes]
  /\ torn = FALSE

\* The operator changes the directory.
Edit ==
  /\ budget.edits > 0
  /\ \E d \in Dirs \ {dir} : dir' = d
  /\ budget' = [budget EXCEPT !.edits = @ - 1]
  /\ UNCHANGED <<catalog, tar, call, torn>>

Begin(c) ==
  /\ call[c] = NoCall
  /\ budget.calls > 0
  /\ budget' = [budget EXCEPT !.calls = @ - 1]
  /\ torn' = (torn \/ \E o \in Calls : call[o] # NoCall)

\* pack_skill (skill_pkg.rs:518): a published version is never packed anew as
\* published with other content, and packing the same content again changes
\* nothing.  A draft is not refused, whatever the version's state.
MutantRefused(v, pkg, publish) == FALSE
Refused(v, pkg, publish) ==
  /\ publish
  /\ \E i \in Mentions(catalog, v) : catalog[i].published /\ catalog[i].digest # pkg

AlreadyReleased(v, pkg) ==
  \E i \in Mentions(catalog, v) : catalog[i].published /\ catalog[i].digest = pkg

\* pack_skill up to the package file: the catalog is read, then package.tar
\* and release.json are written into the version's directory.
MutantPackWrite(c, v, publish) ==
  LET pkg == PackTar(dir, ManifestOf(dir, v)) IN
  /\ Begin(c)
  /\ Packs(dir, v)
  /\ ~AlreadyReleased(v, pkg)
  /\ tar' = [tar EXCEPT ![v] = pkg]
  /\ call' = IF Refused(v, pkg, publish) THEN call
             ELSE [call EXCEPT ![c] =
               [cat |-> Append(Without(catalog, v),
                               [version |-> v, digest |-> pkg, published |-> publish])]]
  /\ UNCHANGED <<dir, catalog>>
PackWrite(c, v, publish) ==
  LET pkg == PackTar(dir, ManifestOf(dir, v)) IN
  /\ Begin(c)
  /\ Packs(dir, v)
  /\ ~Refused(v, pkg, publish) /\ ~AlreadyReleased(v, pkg)
  /\ tar' = [tar EXCEPT ![v] = pkg]
  /\ call' = [call EXCEPT ![c] =
       [cat |-> Append(Without(catalog, v),
                       [version |-> v, digest |-> pkg, published |-> publish])]]
  /\ UNCHANGED <<dir, catalog>>

\* publish_skill (skill_pkg.rs:562) up to its write of the catalog: the newest
\* release, of the version asked for if one is, becomes published.
PublishRead(c, v) ==
  LET cands == IF v = NoPkg THEN DOMAIN catalog ELSE Mentions(catalog, v) IN
  /\ Begin(c)
  /\ cands # {}
  /\ call' = [call EXCEPT ![c] =
       [cat |-> [catalog EXCEPT ![Latest(cands)].published = TRUE]]]
  /\ UNCHANGED <<dir, catalog, tar>>

\* save_catalog (skill_pkg.rs:419), the last step of either call.
Save(c) ==
  /\ call[c] # NoCall
  /\ catalog' = call[c].cat
  /\ call' = [call EXCEPT ![c] = NoCall]
  /\ UNCHANGED <<dir, tar, budget, torn>>

\* The process of every call under way ends.
Crash ==
  /\ budget.crashes > 0
  /\ \E c \in Calls : call[c] # NoCall
  /\ call' = [c \in Calls |-> NoCall]
  /\ budget' = [budget EXCEPT !.crashes = @ - 1]
  /\ torn' = TRUE
  /\ UNCHANGED <<dir, catalog, tar>>

Next ==
  \/ Edit \/ Crash
  \/ \E c \in Calls :
       \/ \E v \in Versions, publish \in BOOLEAN : PackWrite(c, v, publish)
       \/ \E v \in Versions \cup {NoPkg} : PublishRead(c, v)
       \/ Save(c)

Spec == Init /\ [][Next]_vars

-----------------------------------------------------------------------------
\* resolve_published (skill_pkg.rs:431) and read_package_bytes (:468): what a
\* sync of this version, NoPkg for any, would send; NoPkg for a refusal.
Resolved(v) ==
  {i \in Published(catalog) : v = NoPkg \/ catalog[i].version = v}
Sent(v) ==
  IF Resolved(v) = {} THEN NoPkg
  ELSE LET r == catalog[Latest(Resolved(v))]
       IN IF tar[r.version] = r.digest THEN r.digest ELSE NoPkg

\* statuses_for_digest (skill_pkg.rs:280): the digests whose reports the
\* master can still interpret.
Interpretable == {catalog[i].digest : i \in DOMAIN catalog}

(* Properties *)

\* While calls neither overlap nor are cut short, whatever is published can be
\* sent: the record and the package file beside it are of one content.
PublishedCanBeSent ==
  ~torn => \A i \in Published(catalog) :
             (\A c \in Calls : call[c] = NoCall) => tar[catalog[i].version] = catalog[i].digest

\* Content that pack_skill accepted installs wherever it is sent, but for two
\* cases that only the client finds: the manifest that pack adds is one file
\* too many, or the runner lies under a name that pack leaves out.
PackedInstalls ==
  \A v \in Versions \cup {NoPkg} :
    LET pkg == Sent(v) IN
    pkg # NoPkg =>
      (Installs(pkg, pkg.manifest.version) <=>
         /\ Cardinality(pkg.members) <= MaxFiles
         /\ pkg.manifest.kind = "python_runner" => ~SkipsPath(pkg.manifest.runner))

\* As long as calls do not overlap, a published version changes its content
\* only by way of a draft: what is packed as published never replaces it.
PublishedChangesByDraftOnly ==
  [][~torn' => \A v \in Versions, i \in Published(catalog), k \in Published(catalog') :
       catalog[i].version = v /\ catalog'[k].version = v
         => catalog'[k].digest = catalog[i].digest]_vars

\* "version {} of '{}' already published with digest {}; bump --version"
\* (skill_pkg.rs:526): no step puts another published content in the place of a
\* published one.  Two calls that read the catalog before either writes it do.
PublishedIsRefused ==
  [][\A v \in Versions, i \in Published(catalog), k \in Published(catalog') :
       catalog[i].version = v /\ catalog'[k].version = v
         => catalog'[k].digest = catalog[i].digest]_vars
=============================================================================
