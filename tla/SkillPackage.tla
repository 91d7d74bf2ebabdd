---------------------------- MODULE SkillPackage ----------------------------
(***************************************************************************)
(* What a skill directory packs to and which packages a client installs    *)
(* (src/src/skill_pkg.rs).  No state: SkillReleases applies it.            *)
(*                                                                         *)
(* A path is the sequence of its components; what the code asks of a name  *)
(* is whether it belongs to one of the sets below.  File contents are left *)
(* out but for skill.json's: a package is its members and its manifest,    *)
(* and its digest, SHA-256 over exactly these, is the package itself.      *)
(* Sizes in bytes are left out: a tar is longer than the files in it, so   *)
(* the limit that pack applies to the tar implies the one of unpack.       *)
(***************************************************************************)
EXTENDS Naturals, Sequences, FiniteSets

CONSTANTS Skipped,      \* names pack leaves out: caches, .tmp-*, secret files
          SecretLike,   \* names unpack refuses
          Dotted,       \* names with ".." in them
          Python,       \* names that end in .py
          Illegal,      \* names validate_name refuses
          MaxFiles,     \* MAX_PACKAGE_FILES
          NoPath, NoStatuses, NoManifest

SkillJson    == <<"skill.json">>
ManifestJson == <<"manifest.json">>

\* validate_rel_path (skill_pkg.rs:331): a package-relative path without "..".
RelPathOk(p) == p # <<>> /\ \A i \in DOMAIN p : p[i] \notin Dotted

\* validate_status_decls (skill_pkg.rs:252): a manifest may leave the field
\* out; a list must not be empty, an id not occur twice, a label not be blank.
StatusesOk(list) ==
  list # NoStatuses =>
    /\ list # <<>>
    /\ \A i \in DOMAIN list : list[i].id \notin Illegal /\ ~list[i].blank
    /\ \A i, k \in DOMAIN list : list[i].id = list[k].id => i = k

\* validate_manifest (skill_pkg.rs:209) in a directory with these files.
ManifestOk(m, files) ==
  /\ m.version \notin Illegal
  /\ m.secrets \cap Illegal = {}
  /\ IF m.kind = "python_runner"
       THEN /\ m.runner # NoPath
            /\ RelPathOk(m.runner)
            /\ m.runner[Len(m.runner)] \in Python
            /\ m.runner \in files
       ELSE m.runner # NoPath => RelPathOk(m.runner)
  /\ StatusesOk(m.statuses)

\* The manifest of a directory that has none (skill_pkg.rs:185).
DefaultManifest(version) ==
  [version |-> version, kind |-> "skill_steps", runner |-> NoPath,
   secrets |-> {}, statuses |-> NoStatuses]

FilesOf(dir) == {e.path : e \in {f \in dir.entries : f.kind = "file"}}

\* skip_pack_name (skill_pkg.rs:360), asked of every directory on the way.
SkipsPath(p) == \E i \in DOMAIN p : p[i] \in Skipped

\* collect_pack_files (skill_pkg.rs:378): a link or a special file that is
\* not skipped, or a file too many, refuses the directory.
Collected(dir) == {e \in dir.entries : ~SkipsPath(e.path)}
Collects(dir) ==
  /\ \A e \in Collected(dir) : e.kind = "file"
  /\ Cardinality(Collected(dir)) <= MaxFiles

\* pack_dir_to_tar (skill_pkg.rs:604): the members, and the manifest written
\* anew with the version asked for, whether or not the directory has one.
PackTar(dir, m) ==
  [members  |-> {e.path : e \in Collected(dir)} \cup {ManifestJson},
   manifest |-> m, secret |-> dir.secret]

\* What pack_skill checks before it reads the catalog (skill_pkg.rs:481):
\* skill.json without plaintext secrets, a valid manifest, packable files.
ManifestOf(dir, version) ==
  IF dir.manifest = NoManifest THEN DefaultManifest(version)
                               ELSE [dir.manifest EXCEPT !.version = version]
Packs(dir, version) ==
  /\ SkillJson \in FilesOf(dir)
  /\ ~dir.secret
  /\ dir.manifest # NoManifest => ManifestOk(dir.manifest, FilesOf(dir))
  /\ ManifestOk(ManifestOf(dir, version), FilesOf(dir))
  /\ Collects(dir)
  /\ \A e \in Collected(dir) : RelPathOk(e.path)

\* unpack_tar_safe (skill_pkg.rs:655): every member is checked on its own,
\* the manifest counts as a file, some member is a skill.json.
Unpacks(pkg) ==
  /\ Cardinality(pkg.members) <= MaxFiles
  /\ \A p \in pkg.members : RelPathOk(p) /\ p[Len(p)] \notin SecretLike
  /\ \E p \in pkg.members : p[Len(p)] = "skill.json"

\* The staging half of install_package (skill_pkg.rs:812): what is unpacked
\* holds a skill.json at its top, no plaintext secret, and a manifest that is
\* valid where it lies and of the version the master named.
MutantInstalls(pkg, version) == Unpacks(pkg) /\ SkillJson \in pkg.members /\ ~pkg.secret
Installs(pkg, version) ==
  /\ Unpacks(pkg)
  /\ SkillJson \in pkg.members
  /\ ~pkg.secret
  /\ pkg.manifest.version = version
  /\ ManifestOk(pkg.manifest, pkg.members)
=============================================================================
