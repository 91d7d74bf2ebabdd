---------------------------- MODULE PartsProofs ----------------------------
(***************************************************************************)
(* Seven of the parts of Records, for any directories, processes, callers, *)
(* calls, clicks, handlers and children: releases and exports of skills,   *)
(* the commands about jobs, the command of a teach session and the desktop *)
(* that starts it.  Each has an invariant of its own that its steps keep.  *)
(* Then two of the pure parts, for any input: recordings and drafts.       *)
(* RecordsProofs does the same for the other parts and puts all together.  *)
(***************************************************************************)
EXTENDS Records, FiniteSetTheorems, SequenceTheorems, TLAPS

-----------------------------------------------------------------------------
(* Sequences *)

\* A sequence without its ith element: what is after it moves one place down.
Removed(s, i) == SubSeq(s, 1, i - 1) \o SubSeq(s, i + 1, Len(s))

LEMMA RemovedAt ==
  ASSUME NEW S, NEW s \in Seq(S), NEW i \in 1..Len(s)
  PROVE  /\ Removed(s, i) \in Seq(S) /\ Len(Removed(s, i)) = Len(s) - 1
         /\ \A j \in 1..Len(Removed(s, i)) : Removed(s, i)[j] = IF j < i THEN s[j] ELSE s[j + 1]
<1> DEFINE u == SubSeq(s, 1, i - 1)
           v == SubSeq(s, i + 1, Len(s))
           q == u \o v
<1>0. Len(s) \in Nat /\ \A j \in 1..Len(s) : s[j] \in S
  OBVIOUS
<1>1. u \in Seq(S) /\ Len(u) = i - 1 /\ \A j \in 1..(i - 1) : u[j] = s[j]
  BY <1>0, SubSeqProperties, SMTT(30)
<1>2. v \in Seq(S) /\ Len(v) = Len(s) - i /\ \A j \in 1..(Len(s) - i) : v[j] = s[i + j]
  <2>1. i + 1 \in Int /\ Len(s) \in Int /\ \A j \in (i + 1)..Len(s) : s[j] \in S
    BY <1>0
  <2>2. /\ v \in Seq(S) /\ Len(v) = (IF i + 1 <= Len(s) THEN Len(s) - (i + 1) + 1 ELSE 0)
        /\ \A j \in 1..(Len(s) - (i + 1) + 1) : v[j] = s[(i + 1) + j - 1]
    BY <2>1, SubSeqProperties
  <2>3. Len(s) - (i + 1) + 1 = Len(s) - i /\ \A j \in Nat : (i + 1) + j - 1 = i + j
    BY <1>0
  <2>4. (IF i + 1 <= Len(s) THEN Len(s) - (i + 1) + 1 ELSE 0) = Len(s) - i
    <3>1. \A n \in Nat : \A k \in 1..n : (IF k + 1 <= n THEN n - (k + 1) + 1 ELSE 0) = n - k
      OBVIOUS
    <3> QED
      BY <1>0, <3>1
  <2>5. \A j \in 1..(Len(s) - i) : j \in Nat
    BY <1>0
  <2> HIDE DEF v
  <2> QED
    BY <2>2, <2>3, <2>4, <2>5, ZenonT(40)
<1>3. Removed(s, i) = q
  BY DEF Removed
<1> HIDE DEF u, v
<1>4. /\ q \in Seq(S) /\ Len(q) = Len(u) + Len(v)
      /\ \A j \in 1..(Len(u) + Len(v)) : q[j] = IF j <= Len(u) THEN u[j] ELSE v[j - Len(u)]
  BY <1>1, <1>2, ConcatProperties
<1> HIDE DEF q
<1>5. /\ q \in Seq(S) /\ Len(q) = Len(s) - 1
      /\ \A j \in 1..Len(q) : q[j] = IF j < i THEN s[j] ELSE s[j + 1]
  <2>1. Len(q) = Len(s) - 1
    BY <1>0, <1>1, <1>2, <1>4
  <2>2. ASSUME NEW j \in 1..Len(q)
        PROVE  q[j] = IF j < i THEN s[j] ELSE s[j + 1]
    <3>1. j \in 1..(Len(u) + Len(v)) /\ j \in Nat
      BY <1>0, <1>1, <1>2, <2>1
    <3>2. CASE j < i
      BY <1>0, <1>1, <1>4, <3>1, <3>2
    <3>3. CASE ~(j < i)
      <4>1. j - (i - 1) \in 1..(Len(s) - i) /\ i + (j - (i - 1)) = j + 1
        BY <1>0, <2>1, <3>1, <3>3
      <4> QED
        BY <1>0, <1>1, <1>2, <1>4, <3>1, <3>3, <4>1
    <3> QED
      BY <3>2, <3>3
  <2> QED
    BY <1>4, <2>1, <2>2
<1> QED
  BY <1>3, <1>5, Zenon

\* An element of a sequence is replaced.
LEMMA Replaced ==
  ASSUME NEW S, NEW s \in Seq(S), NEW i \in 1..Len(s), NEW e \in S, NEW t, t = [s EXCEPT ![i] = e]
  PROVE  /\ t \in Seq(S) /\ Len(t) = Len(s)
         /\ \A j \in 1..Len(s) : t[j] = IF j = i THEN e ELSE s[j]
<1> DEFINE q == [s EXCEPT ![i] = e]
<1>1. q \in Seq(S) /\ Len(q) = Len(s) /\ \A j \in 1..Len(s) : q[j] = IF j = i THEN e ELSE s[j]
  BY ExceptSeq
<1>2. t = q
  OBVIOUS
<1> HIDE DEF q
<1> QED
  BY <1>1, <1>2, Zenon

\* A set of numbers has a least element.
LEMMA Least ==
  ASSUME NEW T \in SUBSET Nat, T # {}
  PROVE  \E n \in T : \A m \in T : ~(m < n)
<1>1. \A n, m \in Nat : n < m => <<n, m>> \in OpToRel(<, Nat)
  BY Zenon DEF OpToRel
<1>2. PICK n \in T : \A m \in T : ~ (<<m, n>> \in OpToRel(<, Nat))
  BY WFMin, NatLessThanWellFounded, Zenon
<1> QED
  BY <1>1, <1>2, Zenon

\* Induction over the numbers, said of a set.
LEMMA SetInduction ==
  ASSUME NEW G, 0 \in G, \A n \in Nat : n \in G => n + 1 \in G
  PROVE  Nat \subseteq G
<1> SUFFICES ASSUME Nat \ G # {} PROVE FALSE
  OBVIOUS
<1>1. PICK n \in Nat \ G : \A m \in Nat \ G : ~(m < n)
  BY Least
<1> QED
  BY <1>1, n = 0 \/ (n - 1 \in Nat /\ n - 1 < n /\ (n - 1) + 1 = n)

-----------------------------------------------------------------------------
(* Releases *)

\* A package is what some directory packs to, for this version.
Made(p, v) ==
  \E d \in Dirs : Releases!Packs(d, v) /\ p = Releases!PackTar(d, Releases!ManifestOf(d, v))

\* A catalog has one record of a version, and what it tells of was packed.
Shelved(s) ==
  /\ s \in Seq(Releases!Release)
  /\ \A i, j \in 1..Len(s) : s[i].version = s[j].version => i = j
  /\ \A i \in 1..Len(s) : Made(s[i].digest, s[i].version)
Backed(s) == \A i \in 1..Len(s) : tar[s[i].version] = s[i].digest
Agrees(s, t) ==
  \A i \in 1..Len(s), j \in 1..Len(t) :
    s[i].published /\ t[j].published /\ s[i].version = t[j].version => s[i].digest = t[j].digest

ReleasesTyped ==
  /\ dir \in Dirs /\ torn \in BOOLEAN
  /\ tar \in [Versions -> Releases!Packages \cup {Nil}]
  /\ Shelved(catalog)
  /\ call \in [Calls -> {Nil} \cup [cat : Seq(Releases!Release)]]
  /\ \A c \in Calls : call[c] # Nil => Shelved(call[c].cat)

\* While no two calls have overlapped and none was cut short there is one at a
\* time.  Of the catalog that it is about to write, or that is in the file when
\* there is none, every record has its package beside it, and a published one
\* has the content it had.
InStep ==
  ~torn =>
    /\ \A c, o \in Calls : call[c] # Nil /\ call[o] # Nil => c = o
    /\ (\A c \in Calls : call[c] = Nil) => Backed(catalog)
    /\ \A c \in Calls : call[c] # Nil => Backed(call[c].cat) /\ Agrees(catalog, call[c].cat)

ReleasesInv == ReleasesTyped /\ InStep

LEMMA ReleasesInit == Releases!Init => ReleasesInv
<1> SUFFICES ASSUME Releases!Init PROVE ReleasesInv
  OBVIOUS
<1> USE DEF Releases!Init
<1>1. catalog = << >> /\ Len(catalog) = 0
  OBVIOUS
<1>2. Shelved(catalog)
  BY <1>1 DEF Shelved
<1>3. ReleasesTyped
  BY <1>2 DEF ReleasesTyped
<1>4. InStep
  BY <1>1 DEF InStep, Backed
<1> QED
  BY <1>3, <1>4 DEF ReleasesInv

\* The record of a version is replaced by a new one, at the end.
Packed(s, v, e) == Append(Releases!Without(s, v), e)
LEMMA Superseded ==
  ASSUME NEW s, Shelved(s), NEW v \in Versions, NEW e \in Releases!Release, e.version = v,
         Made(e.digest, v)
  PROVE  /\ Shelved(Packed(s, v, e))
         /\ \A j \in 1..Len(Packed(s, v, e)) :
              \/ Packed(s, v, e)[j] = e
              \/ /\ Packed(s, v, e)[j].version # v
                 /\ \E i \in 1..Len(s) : Packed(s, v, e)[j] = s[i]
<1> DEFINE w == Releases!Without(s, v)
           t == Packed(s, v, e)
<1>0. Len(s) \in Nat /\ DOMAIN s = 1..Len(s) /\ s \in Seq(Releases!Release)
  BY DEF Shelved
<1>1. /\ w \in Seq(Releases!Release)
      /\ \A j \in 1..Len(w) : w[j].version # v /\ \E i \in 1..Len(s) : w[j] = s[i]
      /\ \A j, k \in 1..Len(w) : w[j].version = w[k].version => j = k
  <2>1. CASE Releases!Mentions(s, v) = {}
    BY <1>0, <2>1 DEF Shelved, Releases!Without, Releases!Mentions
  <2>2. CASE Releases!Mentions(s, v) # {}
    <3> DEFINE i == CHOOSE i \in Releases!Mentions(s, v) : TRUE
    <3>1. i \in 1..Len(s) /\ s[i].version = v
      BY <1>0, <2>2 DEF Releases!Mentions
    <3>2. w = Removed(s, i)
      BY <2>2 DEF Releases!Without, Removed
    <3> HIDE DEF i, w
    <3>3. /\ w \in Seq(Releases!Release) /\ Len(w) = Len(s) - 1
          /\ \A j \in 1..Len(w) : w[j] = IF j < i THEN s[j] ELSE s[j + 1]
      <4>1. s \in Seq(Releases!Release) /\ i \in 1..Len(s)
        BY <1>0, <3>1
      <4> QED
        BY <3>2, <4>1, RemovedAt
    <3>4. \A j \in 1..Len(w) : /\ (IF j < i THEN j ELSE j + 1) \in 1..Len(s)
                              /\ (IF j < i THEN j ELSE j + 1) # i
                              /\ w[j] = s[IF j < i THEN j ELSE j + 1]
      BY <1>0, <3>1, <3>3
    <3>5. ASSUME NEW j \in 1..Len(w)
          PROVE  w[j].version # v /\ \E k \in 1..Len(s) : w[j] = s[k]
      BY <3>1, <3>4, <3>5 DEF Shelved
    <3>6. ASSUME NEW j \in 1..Len(w), NEW k \in 1..Len(w), j # k PROVE w[j].version # w[k].version
      <4>1. (IF j < i THEN j ELSE j + 1) # (IF k < i THEN k ELSE k + 1)
        BY <1>0, <3>1, <3>3, <3>6
      <4> QED
        BY <3>4, <4>1 DEF Shelved
    <3> QED
      BY <3>3, <3>5, <3>6
  <2> QED
    BY <2>1, <2>2
<1>2. t = Append(w, e)
  BY DEF Packed
<1> HIDE DEF w, t
<1>3. /\ t \in Seq(Releases!Release) /\ Len(t) = Len(w) + 1 /\ Len(w) \in Nat
      /\ \A i \in 1..Len(w) : t[i] = w[i]
      /\ t[Len(w) + 1] = e
  BY <1>1, <1>2
<1>4. \A j \in 1..Len(t) : j \in 1..Len(w) \/ j = Len(w) + 1
  BY <1>3
<1>5. \A j \in 1..Len(t) : \/ t[j] = e /\ j = Len(w) + 1
                           \/ /\ t[j] = w[j] /\ j \in 1..Len(w)
                              /\ t[j].version # v /\ \E i \in 1..Len(s) : t[j] = s[i]
  BY <1>1, <1>3, <1>4
<1>6. ASSUME NEW j \in 1..Len(t), NEW k \in 1..Len(t), t[j].version = t[k].version PROVE j = k
  BY <1>1, <1>5, <1>6
<1>7. \A j \in 1..Len(t) : Made(t[j].digest, t[j].version)
  BY <1>5 DEF Shelved
<1>8. Shelved(t)
  BY <1>3, <1>6, <1>7 DEF Shelved
<1> QED
  BY <1>5, <1>8 DEF t

\* A record is published: nothing else of it changes.
Flag(s, i) == [s EXCEPT ![i].published = TRUE]
LEMMA Flagged ==
  ASSUME NEW s, Shelved(s), NEW i \in 1..Len(s)
  PROVE  /\ Shelved(Flag(s, i)) /\ Len(Flag(s, i)) = Len(s)
         /\ \A j \in 1..Len(s) : /\ Flag(s, i)[j].version = s[j].version
                                /\ Flag(s, i)[j].digest = s[j].digest
<1>1. s \in Seq(Releases!Release) /\ Len(s) \in Nat /\ \A j \in 1..Len(s) : s[j] \in Releases!Release
  BY DEF Shelved
<1>2. PICK e \in Releases!Release : /\ e.version = s[i].version /\ e.digest = s[i].digest
                                   /\ Flag(s, i) = [s EXCEPT ![i] = e]
  <2>1. [s[i] EXCEPT !.published = TRUE] \in Releases!Release
    BY <1>1 DEF Releases!Release
  <2> QED
    BY <1>1, <2>1 DEF Flag, Releases!Release
<1>3. /\ Flag(s, i) \in Seq(Releases!Release) /\ Len(Flag(s, i)) = Len(s)
      /\ \A j \in 1..Len(s) : Flag(s, i)[j] = IF j = i THEN e ELSE s[j]
  BY <1>1, <1>2, Replaced
<1>4. \A j \in 1..Len(s) : /\ Flag(s, i)[j].version = s[j].version
                           /\ Flag(s, i)[j].digest = s[j].digest
  BY <1>2, <1>3
<1> QED
  BY <1>3, <1>4 DEF Shelved

\* Of some places in a sequence one is the last.
LEMMA LastOne ==
  ASSUME NEW n \in Nat, NEW T \in SUBSET (1..n), T # {}
  PROVE  Releases!Latest(T) \in T
<1> DEFINE D == {n - i : i \in T}
<1>0. \A i \in T : i \in 1..n /\ n - i \in Nat
  OBVIOUS
<1>1. D \in SUBSET Nat /\ D # {}
  BY <1>0
<1>2. PICK d \in D : \A m \in D : ~(m < d)
  BY <1>1, Least
<1>3. PICK i \in T : d = n - i
  BY <1>2
<1>4. \A k \in T : k <= i
  <2> SUFFICES ASSUME NEW k \in T PROVE k <= i
    OBVIOUS
  <2>1. ~(n - k < n - i)
    BY <1>2, <1>3
  <2> HIDE DEF D
  <2> QED
    BY <1>0, <2>1
<1> HIDE DEF D
<1> QED
  BY <1>4 DEF Releases!Latest

\* A call that begins is alone, or the calls overlap; when it has written what
\* it will and read the catalog, it holds one that agrees with both.
LEMMA CallOpens ==
  ASSUME ReleasesInv, NEW c \in Calls, Releases!Begin(c), NEW s, Shelved(s),
         call' = [call EXCEPT ![c] = [cat |-> s]], UNCHANGED <<dir, catalog>>,
         tar' \in [Versions -> Releases!Packages \cup {Nil}],
         (\A o \in Calls : call[o] = Nil) /\ ~torn => Backed(s)' /\ Agrees(catalog, s)
  PROVE  ReleasesInv'
<1>i. ReleasesTyped /\ InStep
  BY DEF ReleasesInv
<1>1. /\ torn' = (torn \/ \E o \in Calls : call[o] # Nil) /\ call[c] = Nil
      /\ call \in [Calls -> {Nil} \cup [cat : Seq(Releases!Release)]]
  BY <1>i DEF Releases!Begin, ReleasesTyped
<1>2. [cat |-> s] \in [cat : Seq(Releases!Release)]
  BY DEF Shelved
<1>3. /\ call' \in [Calls -> {Nil} \cup [cat : Seq(Releases!Release)]]
      /\ \A o \in Calls : call'[o] = IF o = c THEN [cat |-> s] ELSE call[o]
  BY <1>1, <1>2
<1>4. torn' \in BOOLEAN
  BY <1>1, <1>i DEF ReleasesTyped
<1>5. \A o \in Calls : call'[o] # Nil => Shelved(call'[o].cat)
  <2> SUFFICES ASSUME NEW o \in Calls, call'[o] # Nil PROVE Shelved(call'[o].cat)
    OBVIOUS
  <2>1. CASE o = c
    <3>1. call'[o].cat = s
      BY <1>3, <2>1
    <3> QED
      BY <3>1
  <2>2. CASE o # c
    <3>1. call'[o] = call[o]
      BY <1>3, <2>2
    <3> QED
      BY <1>i, <3>1 DEF ReleasesTyped
  <2> QED
    BY <2>1, <2>2
<1>6. ReleasesTyped'
  <2>1. Shelved(catalog)'
    BY <1>i DEF ReleasesTyped, Shelved, Made
  <2>2. \A o \in Calls : call'[o] # Nil => Shelved(call[o].cat)'
    BY <1>5 DEF Shelved, Made
  <2> QED
    BY <1>i, <1>3, <1>4, <2>1, <2>2 DEF ReleasesTyped
<1>7. ASSUME ~torn'
      PROVE  /\ \A o \in Calls : o # c => call'[o] = Nil
             /\ Backed(s)' /\ Agrees(catalog, s) /\ call'[c] = [cat |-> s] /\ call'[c] # Nil
  <2>1. ~torn /\ \A o \in Calls : call[o] = Nil
    BY <1>1, <1>7
  <2>2. [cat |-> s] # Nil
    BY <1>2, RecordsAssumption
  <2> QED
    BY <1>3, <2>1, <2>2
<1>8. InStep'
  <2> SUFFICES ASSUME ~torn'
               PROVE  /\ \A p, o \in Calls : call'[p] # Nil /\ call'[o] # Nil => p = o
                      /\ (\A o \in Calls : call'[o] = Nil) => Backed(catalog)'
                      /\ \A o \in Calls : call'[o] # Nil => Backed(call[o].cat)' /\ Agrees(catalog, call[o].cat)'
    BY DEF InStep
  <2>1. \A p, o \in Calls : call'[p] # Nil /\ call'[o] # Nil => p = o
    BY <1>7
  <2>2. ~ \A o \in Calls : call'[o] = Nil
    BY <1>7
  <2>3. ASSUME NEW o \in Calls, call'[o] # Nil
        PROVE  Backed(call[o].cat)' /\ Agrees(catalog, call[o].cat)'
    <3>1. o = c
      BY <1>7, <2>3
    <3>2. call'[o].cat = s /\ Backed(s)' /\ Agrees(catalog, s)
      BY <1>7, <3>1
    <3> QED
      BY <3>2 DEF Backed, Agrees
  <2> QED
    BY <2>1, <2>2, <2>3
<1> QED
  BY <1>6, <1>8 DEF ReleasesInv

\* What is packed replaces the record of its version, and its package.
LEMMA PackStep ==
  ASSUME ReleasesInv, NEW c \in Calls, NEW v \in Versions, NEW publish \in BOOLEAN,
         Releases!PackWrite(c, v, publish)
  PROVE  ReleasesInv'
<1>i. ReleasesTyped /\ InStep
  BY DEF ReleasesInv
<1>1. PICK pkg : pkg = Releases!PackTar(dir, Releases!ManifestOf(dir, v))
  OBVIOUS
<1>2. PICK e : e = [version |-> v, digest |-> pkg, published |-> publish]
  OBVIOUS
<1>3. PICK s : s = Packed(catalog, v, e)
  OBVIOUS
<1>4. /\ Releases!Begin(c) /\ Releases!Packs(dir, v)
      /\ ~Releases!Refused(v, pkg, publish)
      /\ tar' = [tar EXCEPT ![v] = pkg]
      /\ call' = [call EXCEPT ![c] = [cat |-> s]]
      /\ UNCHANGED <<dir, catalog>>
  BY <1>1, <1>2, <1>3 DEF Releases!PackWrite, Packed
<1>5. dir \in Dirs /\ pkg \in Releases!Packages /\ Made(pkg, v)
  <2>1. dir \in Dirs
    BY <1>i DEF ReleasesTyped
  <2> QED
    BY <1>1, <1>4, <2>1 DEF Releases!Packages, Made
<1>6. e \in Releases!Release /\ e.version = v /\ e.digest = pkg /\ e.published = publish
  BY <1>2, <1>5 DEF Releases!Release
<1>7. Shelved(catalog) /\ Made(e.digest, v)
  BY <1>i, <1>5, <1>6 DEF ReleasesTyped
<1>8. /\ Shelved(s)
      /\ \A j \in 1..Len(s) : \/ s[j] = e
                              \/ s[j].version # v /\ \E i \in 1..Len(catalog) : s[j] = catalog[i]
  BY <1>3, <1>6, <1>7, Superseded
<1>9. /\ tar' \in [Versions -> Releases!Packages \cup {Nil}]
      /\ \A u \in Versions : tar'[u] = IF u = v THEN pkg ELSE tar[u]
  BY <1>i, <1>4, <1>5 DEF ReleasesTyped
<1>10. ASSUME \A o \in Calls : call[o] = Nil, ~torn
       PROVE  Backed(s)' /\ Agrees(catalog, s)
  <2>1. Backed(catalog)
    BY <1>i, <1>10 DEF InStep
  <2>2. ASSUME NEW j \in 1..Len(s) PROVE tar'[s[j].version] = s[j].digest
    <3>1. CASE s[j] = e
      BY <1>6, <1>9, <3>1
    <3>2. CASE s[j] # e
      <4>1. PICK i \in 1..Len(catalog) : s[j] = catalog[i] /\ s[j].version # v
        BY <1>8, <3>2
      <4>2. catalog[i] \in Releases!Release
        BY <1>7 DEF Shelved
      <4>3. catalog[i].version \in Versions /\ tar[catalog[i].version] = catalog[i].digest
        BY <2>1, <4>2 DEF Backed, Releases!Release
      <4> QED
        BY <1>9, <4>1, <4>3
    <3> QED
      BY <3>1, <3>2
  <2>3. ASSUME NEW i \in 1..Len(catalog), NEW j \in 1..Len(s), catalog[i].published, s[j].published,
               catalog[i].version = s[j].version
        PROVE  catalog[i].digest = s[j].digest
    <3>1. CASE s[j] = e
      <4>1. publish /\ catalog[i].version = v /\ i \in DOMAIN catalog
        BY <1>6, <1>7, <2>3, <3>1 DEF Shelved
      <4> QED
        BY <1>4, <1>6, <2>3, <3>1, <4>1 DEF Releases!Refused, Releases!Mentions
    <3>2. CASE s[j] # e
      <4>1. PICK k \in 1..Len(catalog) : s[j] = catalog[k] /\ s[j].version # v
        BY <1>8, <3>2
      <4>2. i = k
        BY <1>7, <2>3, <4>1 DEF Shelved
      <4> QED
        BY <4>1, <4>2
    <3> QED
      BY <3>1, <3>2
  <2> QED
    BY <2>2, <2>3 DEF Backed, Agrees
<1> QED
  BY <1>4, <1>8, <1>9, <1>10, CallOpens

\* What is published keeps its version and its content.
LEMMA PublishStep ==
  ASSUME ReleasesInv, NEW c \in Calls, NEW v \in Versions \cup {Nil}, Releases!PublishRead(c, v)
  PROVE  ReleasesInv'
<1>i. ReleasesTyped /\ InStep
  BY DEF ReleasesInv
<1>0. Shelved(catalog) /\ Len(catalog) \in Nat /\ DOMAIN catalog = 1..Len(catalog)
  BY <1>i DEF ReleasesTyped, Shelved
<1>1. PICK T \in SUBSET (1..Len(catalog)) :
         /\ Releases!Begin(c) /\ T # {} /\ UNCHANGED <<dir, catalog, tar>>
         /\ call' = [call EXCEPT ![c] = [cat |-> [catalog EXCEPT ![Releases!Latest(T)].published = TRUE]]]
  BY <1>0 DEF Releases!PublishRead, Releases!Mentions
<1>2. PICK i \in 1..Len(catalog) : i = Releases!Latest(T)
  BY <1>0, <1>1, LastOne
<1>4. PICK s : s = Flag(catalog, i)
  OBVIOUS
<1>5. call' = [call EXCEPT ![c] = [cat |-> s]]
  BY <1>1, <1>2, <1>4 DEF Flag
<1>6. /\ Shelved(s) /\ Len(s) = Len(catalog)
      /\ \A j \in 1..Len(catalog) : s[j].version = catalog[j].version /\ s[j].digest = catalog[j].digest
  BY <1>0, <1>4, Flagged
<1>7. ASSUME \A o \in Calls : call[o] = Nil, ~torn
      PROVE  Backed(s)' /\ Agrees(catalog, s)
  <2>1. Backed(catalog)
    BY <1>i, <1>7 DEF InStep
  <2>2. Backed(s)'
    BY <1>1, <1>6, <2>1 DEF Backed
  <2>3. Agrees(catalog, s)
    BY <1>0, <1>6 DEF Agrees, Shelved
  <2> QED
    BY <2>2, <2>3
<1>8. tar' \in [Versions -> Releases!Packages \cup {Nil}]
  BY <1>i, <1>1 DEF ReleasesTyped
<1> QED
  BY <1>1, <1>5, <1>6, <1>7, <1>8, CallOpens

\* The catalog that a call holds becomes the one in the file.
LEMMA SaveStep ==
  ASSUME ReleasesInv, NEW c \in Calls, Releases!Save(c)
  PROVE  ReleasesInv'
<1>i. ReleasesTyped /\ InStep
  BY DEF ReleasesInv
<1>1. /\ call[c] # Nil /\ catalog' = call[c].cat /\ call' = [call EXCEPT ![c] = Nil]
      /\ UNCHANGED <<dir, tar, torn>>
  BY DEF Releases!Save
<1>2. /\ call' \in [Calls -> {Nil} \cup [cat : Seq(Releases!Release)]]
      /\ \A o \in Calls : call'[o] = IF o = c THEN Nil ELSE call[o]
  BY <1>i, <1>1 DEF ReleasesTyped
<1>3. Shelved(catalog)'
  BY <1>i, <1>1 DEF ReleasesTyped, Shelved, Made
<1>4. \A o \in Calls : call'[o] # Nil => Shelved(call[o].cat)'
  BY <1>i, <1>2 DEF ReleasesTyped, Shelved, Made
<1>5. ReleasesTyped'
  BY <1>i, <1>1, <1>2, <1>3, <1>4 DEF ReleasesTyped
<1>6. ASSUME ~torn' PROVE Backed(catalog)' /\ \A o \in Calls : call'[o] = Nil
  <2>1. Backed(call[c].cat) /\ \A o \in Calls : o # c => call[o] = Nil
    BY <1>i, <1>1, <1>6 DEF InStep
  <2> QED
    BY <1>1, <1>2, <2>1 DEF Backed
<1>7. InStep'
  BY <1>6 DEF InStep
<1> QED
  BY <1>5, <1>7 DEF ReleasesInv

\* The operator edits the directory; the processes of the calls end.
LEMMA AsideStep ==
  ASSUME ReleasesInv, Releases!Edit \/ Releases!Crash
  PROVE  ReleasesInv'
<1>i. ReleasesTyped /\ InStep
  BY DEF ReleasesInv
<1>1. /\ dir' \in Dirs /\ torn' \in BOOLEAN /\ UNCHANGED <<catalog, tar>>
      /\ \/ UNCHANGED <<call, torn>>
         \/ torn' /\ call' = [c \in Calls |-> Nil]
  BY <1>i DEF Releases!Edit, Releases!Crash, ReleasesTyped
<1>2. /\ call' \in [Calls -> {Nil} \cup [cat : Seq(Releases!Release)]]
      /\ \A c \in Calls : call'[c] # Nil => call'[c] = call[c]
  BY <1>i, <1>1 DEF ReleasesTyped
<1>3. Shelved(catalog)' /\ \A c \in Calls : call'[c] # Nil => Shelved(call[c].cat)'
  BY <1>i, <1>1, <1>2 DEF ReleasesTyped, Shelved, Made
<1>4. ReleasesTyped'
  BY <1>i, <1>1, <1>2, <1>3 DEF ReleasesTyped
<1>5. InStep'
  BY <1>i, <1>1 DEF InStep, Backed, Agrees
<1> QED
  BY <1>4, <1>5 DEF ReleasesInv

LEMMA ReleasesStep == ASSUME ReleasesInv, Releases!Next PROVE ReleasesInv'
  BY AsideStep, PackStep, PublishStep, SaveStep DEF Releases!Next

\* The instance counts as its user does.
LEMMA SameCount == \A S : Releases!Cardinality(S) = Cardinality(S)
  BY DEF Releases!Cardinality, Cardinality

\* What a directory packs to installs, but for the two cases that only the client
\* finds: the manifest is one file too many, or the runner was left out.
LEMMA MadeInstalls ==
  ASSUME NEW p, NEW v, Made(p, v)
  PROVE  /\ p.manifest.version = v
         /\ Releases!Installs(p, v) <=>
              /\ Cardinality(p.members) <= MaxFiles
              /\ p.manifest.kind = "python_runner" => ~Releases!SkipsPath(p.manifest.runner)
<1>1. PICK d \in Dirs : Releases!Packs(d, v) /\ p = Releases!PackTar(d, Releases!ManifestOf(d, v))
  BY DEF Made
<1>2. PICK m : m = Releases!ManifestOf(d, v)
  OBVIOUS
<1>3. /\ \A e \in d.entries : e.path \in Seq(STRING)
      /\ d.manifest = Nil \/ d.manifest \in Manifests
  BY RecordsAssumption
<1>4. m.version = v /\ (m.runner = Nil \/ m.runner \in Seq(STRING))
  <2>1. CASE d.manifest = Nil
    BY <1>2, <2>1 DEF Releases!ManifestOf, Releases!DefaultManifest
  <2>2. CASE d.manifest # Nil
    <3>1. d.manifest \in Manifests
      BY <1>3, <2>2
    <3>2. m = [d.manifest EXCEPT !.version = v]
      BY <1>2, <2>2 DEF Releases!ManifestOf
    <3> QED
      BY <3>1, <3>2 DEF Manifests
  <2> QED
    BY <2>1, <2>2
<1>5. /\ p.manifest = m /\ p.secret = d.secret
      /\ p.members = {e.path : e \in Releases!Collected(d)} \cup {<<"manifest.json">>}
  BY <1>1, <1>2 DEF Releases!PackTar, Releases!ManifestJson
<1>6. /\ <<"skill.json">> \in Releases!FilesOf(d) /\ ~d.secret
      /\ Releases!ManifestOk(m, Releases!FilesOf(d))
      /\ \A e \in Releases!Collected(d) : e.kind = "file" /\ Releases!RelPathOk(e.path)
  BY <1>1, <1>2 DEF Releases!Packs, Releases!SkillJson, Releases!Collects
<1>7. \A e \in Releases!Collected(d) : e \in d.entries /\ e.path \in Seq(STRING) /\ ~Releases!SkipsPath(e.path)
  BY <1>3 DEF Releases!Collected
\* Every member has a path that unpacks.
<1>8. ASSUME NEW q \in p.members
      PROVE  Releases!RelPathOk(q) /\ q[Len(q)] \notin SecretLike
  <2>1. CASE q = <<"manifest.json">>
    <3>1. Len(q) = 1 /\ DOMAIN q = {1} /\ q[1] = "manifest.json" /\ q # << >>
      BY <2>1
    <3> QED
      BY <3>1, RecordsAssumption DEF Releases!RelPathOk
  <2>2. CASE q # <<"manifest.json">>
    <3>1. PICK e \in Releases!Collected(d) : q = e.path
      BY <1>5, <2>2
    <3>2. q \in Seq(STRING) /\ Releases!RelPathOk(q) /\ ~Releases!SkipsPath(q)
      BY <1>6, <1>7, <3>1
    <3>3. Len(q) \in DOMAIN q
      BY <3>2 DEF Releases!RelPathOk
    <3> QED
      BY <3>2, <3>3, RecordsAssumption DEF Releases!SkipsPath
  <2> QED
    BY <2>1, <2>2
\* The skill's own file is a member.
<1>9. <<"skill.json">> \in p.members /\ <<"skill.json">>[Len(<<"skill.json">>)] = "skill.json"
  <2>1. PICK e \in d.entries : e.kind = "file" /\ e.path = <<"skill.json">>
    BY <1>6 DEF Releases!FilesOf
  <2>2. Len(e.path) = 1 /\ DOMAIN e.path = {1} /\ e.path[1] = "skill.json"
    BY <2>1
  <2>3. ~Releases!SkipsPath(e.path)
    BY <2>2, RecordsAssumption DEF Releases!SkipsPath
  <2>4. e \in Releases!Collected(d)
    BY <2>3 DEF Releases!Collected
  <2> QED
    BY <1>5, <2>1, <2>2, <2>4
\* A runner that is there is a member unless pack leaves it out.
<1>10. ASSUME m.kind = "python_runner"
       PROVE  m.runner \in p.members <=> ~Releases!SkipsPath(m.runner)
  <2>1. /\ m.runner # Nil /\ m.runner[Len(m.runner)] \in Python /\ m.runner \in Releases!FilesOf(d)
    BY <1>6, <1>10 DEF Releases!ManifestOk
  <2>2. m.runner # <<"manifest.json">>
    <3>1. <<"manifest.json">>[Len(<<"manifest.json">>)] = "manifest.json"
      OBVIOUS
    <3> QED
      BY <2>1, <3>1, RecordsAssumption
  <2>3. PICK e \in d.entries : e.kind = "file" /\ e.path = m.runner
    BY <2>1 DEF Releases!FilesOf
  <2>4. ~Releases!SkipsPath(m.runner) => e \in Releases!Collected(d)
    BY <2>3 DEF Releases!Collected
  <2> QED
    BY <1>5, <1>7, <2>2, <2>3, <2>4
<1>11. Releases!ManifestOk(m, p.members) <=> (m.kind = "python_runner" => ~Releases!SkipsPath(m.runner))
  BY <1>6, <1>10 DEF Releases!ManifestOk
<1>12. Releases!Unpacks(p) <=> Cardinality(p.members) <= MaxFiles
  <2>1. \E q \in p.members : q[Len(q)] = "skill.json"
    BY <1>9
  <2> QED
    BY <1>8, <2>1, SameCount DEF Releases!Unpacks
<1> QED
  BY <1>4, <1>5, <1>6, <1>9, <1>11, <1>12 DEF Releases!Installs, Releases!SkillJson

LEMMA ReleasesMeans ==
  ASSUME ReleasesInv
  PROVE  Releases!TypeOK /\ Releases!PublishedCanBeSent /\ Releases!PackedInstalls
<1>i. ReleasesTyped /\ InStep
  BY DEF ReleasesInv
<1>0. /\ Shelved(catalog) /\ Len(catalog) \in Nat /\ DOMAIN catalog = 1..Len(catalog)
      /\ \A i \in 1..Len(catalog) : catalog[i] \in Releases!Release
  BY <1>i DEF ReleasesTyped, Shelved
<1>1. Releases!TypeOK
  <2>1. ASSUME NEW c \in Calls, call[c] # Nil
        PROVE  \A i \in DOMAIN call[c].cat : call[c].cat[i] \in Releases!Release
    <3>1. call[c].cat \in Seq(Releases!Release)
      BY <1>i, <2>1 DEF ReleasesTyped, Shelved
    <3> QED
      BY <3>1
  <2> QED
    BY <1>i, <1>0, <2>1 DEF ReleasesTyped, Shelved, Releases!TypeOK
<1>2. Releases!PublishedCanBeSent
  BY <1>i, <1>0 DEF InStep, Backed, Releases!PublishedCanBeSent, Releases!Published
<1>3. Releases!PackedInstalls
  <2> SUFFICES ASSUME NEW v \in Versions \cup {Nil}, NEW p, p = Releases!Sent(v), p # Nil
               PROVE  Releases!Installs(p, p.manifest.version) <=>
                        /\ Cardinality(p.members) <= MaxFiles
                        /\ p.manifest.kind = "python_runner" => ~Releases!SkipsPath(p.manifest.runner)
    BY SameCount DEF Releases!PackedInstalls
  <2>1. PICK T \in SUBSET (1..Len(catalog)) : T = Releases!Resolved(v)
    BY <1>0 DEF Releases!Resolved, Releases!Published
  <2>2. T # {}
    BY <2>1 DEF Releases!Sent
  <2>3. PICK i \in 1..Len(catalog) : i = Releases!Latest(T)
    BY <1>0, <2>2, LastOne
  <2>4. p = catalog[i].digest
    BY <2>1, <2>2, <2>3 DEF Releases!Sent
  <2>5. Made(catalog[i].digest, catalog[i].version)
    BY <1>0 DEF Shelved
  <2> QED
    BY <2>4, <2>5, MadeInstalls
<1> QED
  BY <1>1, <1>2, <1>3

\* A published version changes its content by way of a draft.
LEMMA ReleasesKeep ==
  ASSUME ReleasesInv, [Releases!Next]_releaseVars, ~torn', NEW v \in Versions,
         NEW i \in Releases!Published(catalog), NEW k \in Releases!Published(catalog'),
         catalog[i].version = v, catalog'[k].version = v
  PROVE  catalog'[k].digest = catalog[i].digest
<1>i. ReleasesTyped /\ InStep
  BY DEF ReleasesInv
<1>0. Shelved(catalog) /\ DOMAIN catalog = 1..Len(catalog)
  BY <1>i DEF ReleasesTyped, Shelved
<1>1. CASE catalog' = catalog
  BY <1>0, <1>1 DEF Releases!Published, Shelved
<1>2. CASE \E c \in Calls : Releases!Save(c)
  <2>1. PICK c \in Calls : call[c] # Nil /\ catalog' = call[c].cat /\ ~torn
    BY <1>2 DEF Releases!Save
  <2>2. Agrees(catalog, call[c].cat) /\ Shelved(call[c].cat)
    BY <1>i, <2>1 DEF InStep, ReleasesTyped
  <2>3. DOMAIN call[c].cat = 1..Len(call[c].cat)
    BY <2>2 DEF Shelved
  <2> QED
    BY <1>0, <2>1, <2>2, <2>3 DEF Agrees, Releases!Published
<1>3. catalog' = catalog \/ \E c \in Calls : Releases!Save(c)
  BY DEF Releases!Next, Releases!Edit, Releases!Crash, Releases!PackWrite, Releases!PublishRead, releaseVars
<1> QED
  BY <1>1, <1>2, <1>3

-----------------------------------------------------------------------------
(* The export of a skill *)

\* The first n files of a plan.
Taken(plan, n) == {plan[i] : i \in 1..n}

\* A plan is a sequence of the files without repetition, skill.json first.
LEMMA PlansFit ==
  /\ <<Export!Main>> \in Export!Plans
  /\ \A plan \in Export!Plans :
       /\ plan \in Seq(Export!Files) /\ Len(plan) >= 1
       /\ \A i, j \in 1..Len(plan) : plan[i] = plan[j] => i = j
<1> DEFINE Others == Export!Files \ {Export!Main}
<1>1. <<Export!Main>> \in Export!Plans
  <2>1. <<>> \in [1..0 -> Others]
    OBVIOUS
  <2>2. 0 \in 0..Len(Sidecars)
    BY RecordsAssumption
  <2>3. <<>> \in Export!Ordered
    BY <2>1, <2>2 DEF Export!Ordered
  <2>4. <<Export!Main>> \o <<>> = <<Export!Main>>
    OBVIOUS
  <2> QED
    BY <2>3, <2>4 DEF Export!Plans
<1>2. ASSUME NEW plan \in Export!Plans
      PROVE  /\ plan \in Seq(Export!Files) /\ Len(plan) >= 1
             /\ \A i, j \in 1..Len(plan) : plan[i] = plan[j] => i = j
  <2>1. PICK s \in Export!Ordered : plan = <<Export!Main>> \o s
    BY DEF Export!Plans
  <2>2. PICK n \in 0..Len(Sidecars) : s \in [1..n -> Others]
    BY <2>1 DEF Export!Ordered
  <2>3. \A i, j \in 1..n : i < j => Export!Before(s[i], s[j])
    BY <2>1, <2>2 DEF Export!Ordered
  <2>4. n \in Nat /\ s \in Seq(Others) /\ Len(s) = n
    <3>1. n \in Nat
      BY RecordsAssumption, <2>2
    <3> QED
      BY <3>1, <2>2
  <2>5. \A i, j \in 1..n : i < j => s[i] # s[j]
    BY <2>3, RecordsAssumption DEF Export!Before
  <2>6. Export!Main \in Export!Files
    BY DEF Export!Files
  <2>7. /\ plan \in Seq(Export!Files) /\ Len(plan) = n + 1 /\ plan[1] = Export!Main
        /\ \A i \in 2..(n + 1) : plan[i] = s[i - 1] /\ s[i - 1] # Export!Main
    <3> HIDE DEF Others
    <3>1. Others \subseteq Export!Files /\ Export!Main \notin Others
      BY DEF Others
    <3>2. s \in Seq(Export!Files)
      BY <2>4, <3>1
    <3>3. <<Export!Main>> \in Seq(Export!Files)
      <4> DEFINE m == Export!Main
                 F == Export!Files
      <4>1. m \in F
        BY <2>6
      <4> HIDE DEF m, F
      <4>2. << m >> \in Seq(F)
        BY <4>1
      <4> QED
        BY <4>2 DEF m, F
    <3> QED
      BY <2>1, <2>4, <2>6, <3>1, <3>2, <3>3
  <2>8. ASSUME NEW i \in 1..(n + 1), NEW j \in 1..(n + 1), i < j PROVE plan[i] # plan[j]
    <3>1. j \in 2..(n + 1) /\ j - 1 \in 1..n
      BY <2>8, <2>4
    <3>2. CASE i = 1
      BY <3>1, <3>2, <2>7
    <3>3. CASE i # 1
      <4>1. i \in 2..(n + 1) /\ i - 1 \in 1..n /\ i - 1 < j - 1
        BY <3>3, <2>8, <2>4
      <4> QED
        BY <4>1, <3>1, <2>5, <2>7
    <3> QED
      BY <3>2, <3>3
  <2> QED
    BY <2>4, <2>7, <2>8
<1> QED
  BY <1>1, <1>2

\* Of the files of a plan one more is taken at each step.
LEMMA TakenGrows ==
  ASSUME NEW plan \in Export!Plans, NEW n \in 1..Len(plan)
  PROVE  /\ plan[n] \in Export!Files /\ plan[n] \notin Taken(plan, n - 1)
         /\ Taken(plan, n) = Taken(plan, n - 1) \cup {plan[n]}
         /\ Taken(plan, n) \subseteq Taken(plan, Len(plan))
         /\ Taken(plan, Len(plan)) = {plan[i] : i \in DOMAIN plan}
         /\ Taken(plan, Len(plan)) \subseteq Export!Files /\ Taken(plan, 0) = {}
<1>1. /\ plan \in Seq(Export!Files) /\ Len(plan) \in Nat
      /\ \A i, j \in 1..Len(plan) : plan[i] = plan[j] => i = j
  BY PlansFit
<1>2. \A i \in 1..Len(plan) : plan[i] \in Export!Files
  BY <1>1
<1>3. plan[n] \notin Taken(plan, n - 1)
  BY <1>1 DEF Taken
<1>4. Taken(plan, n) = Taken(plan, n - 1) \cup {plan[n]}
  <2>1. 1..n = (1..(n - 1)) \cup {n}
    BY <1>1
  <2> QED
    BY <2>1, Zenon DEF Taken
<1>5. Taken(plan, n) \subseteq Taken(plan, Len(plan))
  BY <1>1 DEF Taken
<1>6. DOMAIN plan = 1..Len(plan)
  BY <1>1
<1>7. Taken(plan, 0) = {}
  BY DEF Taken
<1>8. Taken(plan, Len(plan)) \subseteq Export!Files
  BY <1>2 DEF Taken
<1> QED
  BY <1>2, <1>3, <1>4, <1>5, <1>6, <1>7, <1>8 DEF Taken

Stages == {"idle", "stage", "look", "move", "backup", "install", "undo", "restore",
           "drop", "clear", "tidy", "import"}
Frame  == [at : Stages, num : Export!Nums, plan : Export!Plans \cup {<<>>}, next : Nat, over : BOOLEAN,
           backups : SUBSET Export!Files, installed : SUBSET Export!Files, left : SUBSET Export!Files]
Kept   == [Export!Files -> Export!Nums]

ExportTyped ==
  /\ dest \in [there : BOOLEAN, file : Kept] /\ (~dest.there => dest.file = Export!None)
  /\ proc \in [Procs -> Frame]
  /\ staging \in [Procs -> Kept \cup {Export!Gone}] /\ bak \in [Procs -> Kept]
  /\ before \in [Procs -> [there : BOOLEAN, file : Kept]] /\ alone \in [Procs -> BOOLEAN]
  /\ ended \in [Procs -> {"none", "ok", "failed"}] /\ lost \in BOOLEAN
  /\ attempts \in 0..MaxRuns /\ fails \in 0..MaxFails /\ exportCuts \in 0..MaxCuts

\* What a command has in its staging directory, and what of the backups it
\* has made is still there, whoever else writes.
Own(p) ==
  LET w == proc[p]
      P == Taken(w.plan, Len(w.plan))
      T == Taken(w.plan, w.next - 1) IN
  /\ w.at # "idle" => w.plan \in Export!Plans /\ w.next \in 1..Len(w.plan)
  /\ w.at \notin {"idle", "stage", "look", "move", "tidy"} => dest.there
  /\ w.at \in {"idle", "import"} /\ ~lost => staging[p] = Export!Gone
  /\ w.at \notin {"idle", "import"} => staging[p] \in Kept
  /\ w.at = "stage" => \A f \in Export!Files : staging[p][f] = IF f \in T THEN w.num ELSE 0
  /\ w.at \in {"look", "move"} =>
       /\ \A f \in Export!Files : staging[p][f] = IF f \in P THEN w.num ELSE 0
       /\ w.next = 1
  /\ w.at \in {"backup", "install"} => \A f \in P \ T : staging[p][f] = w.num
  /\ w.at \in {"stage", "look", "move"} => w.backups = {} /\ w.installed = {}
  /\ w.at \in {"stage", "look", "move", "backup", "install"} => w.left = {}
  /\ w.at \notin {"idle", "import"} => \A f \in Export!Files \ (w.backups \cup w.left) : bak[p][f] = 0
  /\ w.at \in {"clear", "tidy"} => w.backups = {}

\* No other command is under way.
Sole(p) == \A q \in Procs \ {p} : proc[q].at = "idle"

\* How the directory then differs from the one the command found, and where
\* what it found is.
Differs(p) ==
  LET w == proc[p]
      b == before[p]
      P == Taken(w.plan, Len(w.plan))
      T == Taken(w.plan, w.next - 1) IN
  /\ w.at \in {"stage", "look", "move"} => dest = b
  /\ w.at = "move" => ~dest.there
  /\ w.at \notin {"stage", "look", "move", "import", "tidy"} => b.there
  /\ w.at = "backup" => w.backups \cup w.installed = T
  /\ w.at = "install" => w.backups \cup w.installed = T \cup {w.plan[w.next]}
  /\ w.at \in {"backup", "install"} => \A f \in T : dest.file[f] = w.num
  /\ w.at \in {"backup", "install", "undo"} => \A f \in Export!Files :
       /\ f \notin w.backups \cup w.installed \cup w.left => dest.file[f] = b.file[f]
       /\ f \in w.installed => b.file[f] = 0 /\ f \notin w.backups
       /\ f \in w.backups => bak[p][f] = b.file[f]
       /\ f \in w.backups \cup w.installed => dest.file[f] \in {0, w.num}
  /\ w.at = "restore" => \A f \in Export!Files :
       /\ f \in w.backups => bak[p][f] = b.file[f] /\ dest.file[f] \in {0, w.num}
       /\ f \notin w.backups \cup w.left => dest.file[f] = b.file[f]
  /\ w.at \in {"undo", "restore", "tidy"} => \A f \in w.left :
       f \notin w.backups /\ bak[p][f] = b.file[f] /\ dest.file[f] \in {0, w.num}
  /\ w.at \in {"drop", "clear"} => \A f \in Export!Files :
       dest.file[f] = IF f \in P THEN w.num ELSE b.file[f]
  /\ w.at = "tidy" => dest.there = b.there /\ \A f \in Export!Files \ w.left : dest.file[f] = b.file[f]

Undisturbed(p) == proc[p].at # "idle" /\ alone[p] => Sole(p) /\ Differs(p)
ExportInv == ExportTyped /\ \A p \in Procs : Own(p) /\ Undisturbed(p)

LEMMA FilesAre ==
  /\ Export!Main \in Export!Files /\ 0 \in Export!Nums /\ 1 \in Export!Nums
  /\ Export!None \in Kept /\ Export!Gone \notin Kept
  /\ \A n \in 0..MaxRuns : n < MaxRuns => n + 2 \in Export!Nums
  /\ Export!Quiet \in Frame
<1>1. Export!Main \in Export!Files /\ 0 \in Export!Nums /\ 1 \in Export!Nums /\ MaxRuns + 2 \notin Export!Nums
  BY RecordsAssumption DEF Export!Files, Export!Nums
<1>2. Export!None \in Kept
  BY <1>1 DEF Kept, Export!None
<1>3. Export!Gone \notin Kept
  <2>1. Export!Gone[Export!Main] = MaxRuns + 2
    BY <1>1 DEF Export!Gone
  <2> QED
    BY <1>1, <2>1 DEF Kept
<1>4. \A n \in 0..MaxRuns : n < MaxRuns => n + 2 \in Export!Nums
  BY RecordsAssumption DEF Export!Nums
<1>5. Export!Quiet \in Frame
  BY <1>1 DEF Export!Quiet, Frame, Stages
<1> QED
  BY <1>1, <1>2, <1>3, <1>4, <1>5

LEMMA ExportInit == Export!Init => ExportInv
<1> SUFFICES ASSUME Export!Init PROVE ExportInv
  OBVIOUS
<1> USE FilesAre
<1>1. dest \in [there : BOOLEAN, file : Kept] /\ (~dest.there => dest.file = Export!None)
  <2>1. CASE dest = [there |-> FALSE, file |-> Export!None]
    BY <2>1
  <2>2. ASSUME NEW q \in SUBSET Export!Files,
               dest = [there |-> TRUE, file |-> [f \in Export!Files |-> IF f \in q THEN 1 ELSE 0]]
        PROVE  dest \in [there : BOOLEAN, file : Kept] /\ dest.there
    <3>1. [f \in Export!Files |-> IF f \in q THEN 1 ELSE 0] \in Kept
      BY DEF Kept
    <3> QED
      BY <2>2, <3>1
  <2> QED
    BY <2>1, <2>2 DEF Export!Init
<1>2. ExportTyped
  <2>1. proc \in [Procs -> Frame] /\ staging \in [Procs -> Kept \cup {Export!Gone}] /\ bak \in [Procs -> Kept]
    BY DEF Export!Init
  <2>2. /\ before \in [Procs -> [there : BOOLEAN, file : Kept]] /\ alone \in [Procs -> BOOLEAN]
        /\ ended \in [Procs -> {"none", "ok", "failed"}]
    BY <1>1 DEF Export!Init
  <2>3. /\ lost \in BOOLEAN /\ ~lost /\ attempts \in 0..MaxRuns /\ fails \in 0..MaxFails
        /\ exportCuts \in 0..MaxCuts
    <3>1. lost = FALSE /\ attempts = 0 /\ fails = 0 /\ exportCuts = 0
      BY Zenon DEF Export!Init
    <3>2. MaxRuns \in Nat /\ MaxFails \in Nat /\ MaxCuts \in Nat
      BY RecordsAssumption
    <3>3. lost \in BOOLEAN /\ ~lost
      BY <3>1, Zenon
    <3> QED
      BY <3>1, <3>2, <3>3
  <2> QED
    BY <1>1, <2>1, <2>2, <2>3 DEF ExportTyped
<1>3. \A p \in Procs : proc[p].at = "idle" /\ staging[p] = Export!Gone
  BY DEF Export!Init, Export!Quiet
<1> QED
  BY <1>2, <1>3 DEF ExportInv, Own, Undisturbed

\* A step of one command leaves the others what is theirs.
LEMMA OneMoves ==
  ASSUME ExportInv, ExportTyped', NEW p \in Procs, proc[p].at # "idle",
         UNCHANGED <<before, alone>>, lost => lost', dest.there => dest'.there,
         \A q \in Procs \ {p} : proc'[q] = proc[q] /\ staging'[q] = staging[q] /\ bak'[q] = bak[q],
         Own(p)',
         alone[p] /\ Sole(p) /\ Differs(p) /\ proc'[p].at # "idle" => Differs(p)'
  PROVE  ExportInv'
<1>1. Undisturbed(p)'
  <2> SUFFICES ASSUME proc'[p].at # "idle", alone'[p] PROVE Sole(p)' /\ Differs(p)'
    BY DEF Undisturbed
  <2>1. Sole(p) /\ Differs(p)
    BY DEF ExportInv, Undisturbed
  <2> QED
    BY <2>1 DEF Sole
<1>2. ASSUME NEW q \in Procs \ {p} PROVE Own(q)' /\ Undisturbed(q)'
  <2>1. Own(q)'
    <3>1. Own(q)
      BY DEF ExportInv
    <3> QED
      BY <3>1 DEF Own
  <2>2. Undisturbed(q)'
    BY DEF ExportInv, Undisturbed, Sole
  <2> QED
    BY <2>1, <2>2
<1> QED
  BY <1>1, <1>2 DEF ExportInv

\* A command that is over leaves no staging directory, unless it was cut or
\* failed to remove it.
LEMMA OneEnds ==
  ASSUME ExportInv, NEW p \in Procs, proc[p].at # "idle", NEW how \in {"ok", "failed"},
         Export!Over(p, how), Export!Keep, UNCHANGED bak, lost' \in BOOLEAN, lost => lost',
         staging' \in [Procs -> Kept \cup {Export!Gone}], \A q \in Procs \ {p} : staging'[q] = staging[q],
         lost' \/ staging'[p] = Export!Gone,
         dest' \in [there : BOOLEAN, file : Kept], dest'.there \/ dest' = dest,
         fails' \in 0..MaxFails
  PROVE  ExportInv'
<1> USE FilesAre
<1>1. /\ proc' \in [Procs -> Frame] /\ proc'[p].at = "idle"
      /\ \A q \in Procs \ {p} : proc'[q] = proc[q]
  BY DEF Export!Over, Export!Quiet, ExportInv, ExportTyped
<1>3. ended' \in [Procs -> {"none", "ok", "failed"}]
  BY DEF Export!Over, ExportInv, ExportTyped
<1>4. ExportTyped'
  BY <1>1, <1>3 DEF ExportInv, ExportTyped, Export!Keep
<1>5. Own(p)'
  BY <1>1 DEF Own, Export!Keep
<1> QED
  BY <1>1, <1>4, <1>5, OneMoves DEF Export!Keep

\* What a failing call takes away.
LEMMA Failing == ASSUME ExportInv, Export!Fails PROVE fails' \in 0..MaxFails
  BY RecordsAssumption DEF ExportInv, ExportTyped, Export!Fails

LEMMA Unplanned ==
  ASSUME ExportInv, NEW p \in Procs, proc[p].at # "idle"
  PROVE  /\ Own(p) /\ proc[p] \in Frame /\ proc[p].plan \in Export!Plans /\ proc[p].num \in Export!Nums
         /\ proc[p].next \in 1..Len(proc[p].plan) /\ Export!Planned(p) = proc[p].plan[proc[p].next]
         /\ Len(proc[p].plan) \in Nat
         /\ proc[p].backups \subseteq Export!Files /\ proc[p].installed \subseteq Export!Files
         /\ proc[p].left \subseteq Export!Files
         /\ staging[p] \in Kept \cup {Export!Gone} /\ bak[p] \in Kept /\ before[p].file \in Kept
         /\ dest.file \in Kept /\ dest.there \in BOOLEAN /\ before[p] \in [there : BOOLEAN, file : Kept]
<1>1. Own(p) /\ proc[p] \in Frame /\ proc[p].plan \in Export!Plans
  BY DEF ExportInv, ExportTyped, Own
<1>2. Len(proc[p].plan) \in Nat
  BY <1>1, PlansFit
<1> QED
  BY <1>1, <1>2 DEF ExportInv, ExportTyped, Own, Frame, Export!Planned

\* A failing call of the command itself: what is staged is removed next.
LEMMA GivesWay ==
  ASSUME ExportInv, NEW p \in Procs, proc[p].at \in {"stage", "move"}, Export!Goto(p, "tidy"),
         UNCHANGED <<dest, staging, bak, ended>>, Export!Still, fails' \in 0..MaxFails
  PROVE  ExportInv'
<1> DEFINE w == proc[p]
<1>1. /\ w \in Frame /\ w.next \in 1..Len(w.plan) /\ w.plan \in Export!Plans /\ staging[p] \in Kept
      /\ w.backups = {} /\ w.left = {} /\ \A f \in Export!Files : bak[p][f] = 0
  BY Unplanned DEF Own
<1>2. /\ proc' \in [Procs -> Frame] /\ (\A q \in Procs \ {p} : proc'[q] = proc[q]) /\ proc'[p].at = "tidy"
      /\ proc'[p].num = w.num /\ proc'[p].plan = w.plan /\ proc'[p].next = w.next
      /\ proc'[p].backups = w.backups /\ proc'[p].left = w.left
  BY <1>1 DEF Frame, Stages, ExportInv, ExportTyped, Export!Goto
<1>3. ExportTyped'
  BY <1>2 DEF ExportInv, ExportTyped, Export!Keep, Export!Still
<1>4. Own(p)'
  BY <1>1, <1>2 DEF Own, Export!Keep, Export!Still
<1>5. Differs(p) => Differs(p)'
  BY <1>1, <1>2 DEF Differs, Export!Keep, Export!Still
<1> QED
  BY <1>2, <1>3, <1>4, <1>5, OneMoves DEF Export!Keep, Export!Still

LEMMA StageStep == ASSUME ExportInv, NEW p \in Procs, Export!Stage(p) PROVE ExportInv'
<1> DEFINE w == proc[p]
<1>1. w.at = "stage" /\ w.at # "idle" /\ UNCHANGED <<dest, bak, ended>> /\ Export!Still
  BY DEF Export!Stage
<1>2. CASE Export!Fails /\ Export!Goto(p, "tidy") /\ UNCHANGED staging
  BY <1>1, <1>2, Failing, GivesWay
<1>3. CASE /\ staging' = [staging EXCEPT ![p][Export!Planned(p)] = w.num]
           /\ proc' = IF w.next = Len(w.plan)
                      THEN [proc EXCEPT ![p].at = "look", ![p].next = 1]
                      ELSE [proc EXCEPT ![p].next = @ + 1]
           /\ UNCHANGED fails
  <2> DEFINE f == w.plan[w.next]
  <2>1. /\ w \in Frame /\ w.plan \in Export!Plans /\ w.next \in 1..Len(w.plan) /\ Len(w.plan) \in Nat
        /\ Export!Planned(p) = f /\ w.num \in Export!Nums
        /\ staging[p] \in Kept /\ f \in Export!Files
    BY <1>1, Unplanned, TakenGrows DEF Own
  <2>2. /\ staging' \in [Procs -> Kept \cup {Export!Gone}] /\ staging'[p] \in Kept
        /\ \A q \in Procs \ {p} : staging'[q] = staging[q]
        /\ \A g \in Export!Files : staging'[p][g] = IF g = f THEN w.num ELSE staging[p][g]
    BY <1>3, <2>1 DEF ExportInv, ExportTyped, Kept
  <2>3. \A g \in Export!Files : staging[p][g] = IF g \in Taken(w.plan, w.next - 1) THEN w.num ELSE 0
    BY <1>1, Unplanned DEF Own
  <2>4. \A g \in Export!Files : staging'[p][g] = IF g \in Taken(w.plan, w.next) THEN w.num ELSE 0
    BY <2>1, <2>2, <2>3, TakenGrows
  <2>5. /\ proc' \in [Procs -> Frame] /\ \A q \in Procs \ {p} : proc'[q] = proc[q]
        /\ proc'[p].num = w.num /\ proc'[p].plan = w.plan
        /\ proc'[p].backups = w.backups /\ proc'[p].installed = w.installed /\ proc'[p].left = w.left
        /\ \/ w.next = Len(w.plan) /\ proc'[p].at = "look" /\ proc'[p].next = 1
           \/ w.next # Len(w.plan) /\ proc'[p].at = "stage" /\ proc'[p].next = w.next + 1
    <3>1. proc \in [Procs -> Frame] /\ w.next + 1 \in Nat
      BY <2>1 DEF ExportInv, ExportTyped
    <3>2. CASE w.next = Len(w.plan)
      <4>1. proc' = [proc EXCEPT ![p].at = "look", ![p].next = 1]
        BY <1>3, <3>2
      <4> QED
        BY <1>1, <2>1, <3>1, <3>2, <4>1 DEF Frame, Stages
    <3>3. CASE w.next # Len(w.plan)
      <4>1. proc' = [proc EXCEPT ![p].next = @ + 1]
        BY <1>3, <3>3
      <4> QED
        BY <1>1, <2>1, <3>1, <3>3, <4>1 DEF Frame, Stages
    <3> QED
      BY <3>2, <3>3
  <2>6. ExportTyped'
    BY <1>1, <1>3, <2>2, <2>5 DEF ExportInv, ExportTyped, Export!Keep, Export!Still
  <2>7. Own(p)'
    <3>1. w.backups = {} /\ w.installed = {} /\ w.left = {} /\ \A g \in Export!Files : bak[p][g] = 0
      BY <1>1, Unplanned DEF Own
    <3>2. CASE w.next = Len(w.plan)
      BY <1>1, <2>1, <2>2, <2>4, <2>5, <3>1, <3>2 DEF Own, Export!Keep, Export!Still
    <3>3. CASE w.next # Len(w.plan)
      <4>1. w.next + 1 \in 1..Len(w.plan) /\ (w.next + 1) - 1 = w.next
        BY <2>1, <3>3
      <4> QED
        BY <1>1, <2>1, <2>2, <2>4, <2>5, <3>1, <3>3, <4>1, ZenonT(40) DEF Own, Export!Keep, Export!Still
    <3> QED
      BY <3>2, <3>3
  <2>8. Differs(p) => Differs(p)'
    BY <1>1, <2>5 DEF Differs, Export!Keep, Export!Still
  <2> QED
    BY <1>1, <2>2, <2>5, <2>6, <2>7, <2>8, OneMoves DEF Export!Keep, Export!Still
<1> QED
  BY <1>2, <1>3 DEF Export!Stage

LEMMA LookStep == ASSUME ExportInv, NEW p \in Procs, Export!Look(p) PROVE ExportInv'
<1> DEFINE w == proc[p]
           l == IF dest.there THEN "backup" ELSE "move"
<1>1. w.at = "look" /\ Export!Goto(p, l) /\ UNCHANGED <<dest, staging, bak, fails, ended>> /\ Export!Still
  BY DEF Export!Look
<1>2. w \in Frame /\ w.plan \in Export!Plans /\ w.next \in 1..Len(w.plan) /\ Len(w.plan) \in Nat
  BY <1>1, Unplanned
<1>3. /\ proc' \in [Procs -> Frame] /\ (\A q \in Procs \ {p} : proc'[q] = proc[q]) /\ proc'[p].at = l
      /\ proc'[p].num = w.num /\ proc'[p].plan = w.plan /\ proc'[p].next = w.next
      /\ proc'[p].backups = w.backups /\ proc'[p].installed = w.installed /\ proc'[p].left = w.left
  BY <1>1, <1>2 DEF Frame, Stages, ExportInv, ExportTyped, Export!Goto
<1>4. ExportTyped'
  BY <1>1, <1>3 DEF ExportInv, ExportTyped, Export!Keep, Export!Still
<1>5. /\ w.next = 1 /\ w.backups = {} /\ w.installed = {} /\ w.left = {} /\ Taken(w.plan, w.next - 1) = {}
      /\ Taken(w.plan, Len(w.plan)) \subseteq Export!Files
  BY <1>1, <1>2, Unplanned, TakenGrows DEF Own
<1>6. Own(p)'
  BY <1>1, <1>2, <1>3, <1>5, Unplanned DEF Own, Export!Keep, Export!Still
<1>7. Differs(p) => Differs(p)'
  BY <1>1, <1>3, <1>5 DEF Differs, Export!Keep, Export!Still
<1> QED
  BY <1>1, <1>3, <1>4, <1>6, <1>7, OneMoves DEF Export!Keep, Export!Still

LEMMA MoveStep == ASSUME ExportInv, NEW p \in Procs, Export!Move(p) PROVE ExportInv'
<1> DEFINE w == proc[p]
<1>1. w.at = "move" /\ w.at # "idle" /\ UNCHANGED bak /\ Export!Still
  BY DEF Export!Move
<1>2. CASE Export!Goto(p, "tidy") /\ UNCHANGED <<dest, staging, fails, ended>>
  BY <1>1, <1>2, GivesWay DEF ExportInv, ExportTyped
<1>3. CASE Export!Fails /\ Export!Goto(p, "tidy") /\ UNCHANGED <<dest, staging, ended>>
  BY <1>1, <1>3, Failing, GivesWay
<1>4. CASE /\ dest' = [there |-> TRUE, file |-> staging[p]]
           /\ staging' = [staging EXCEPT ![p] = Export!Gone] /\ Export!Over(p, "ok") /\ UNCHANGED fails
  <2>1. staging[p] \in Kept
    BY <1>1, Unplanned DEF Own
  <2>2. dest' \in [there : BOOLEAN, file : Kept] /\ dest'.there /\ fails' \in 0..MaxFails
    BY <1>4, <2>1 DEF ExportInv, ExportTyped
  <2>3. /\ staging' \in [Procs -> Kept \cup {Export!Gone}] /\ staging'[p] = Export!Gone
        /\ \A q \in Procs \ {p} : staging'[q] = staging[q]
    BY <1>4 DEF ExportInv, ExportTyped
  <2>4. Export!Keep /\ lost' \in BOOLEAN /\ (lost => lost')
    BY <1>1 DEF Export!Still, ExportInv, ExportTyped
  <2> QED
    BY <1>1, <1>4, <2>2, <2>3, <2>4, OneEnds
<1> QED
  BY <1>2, <1>3, <1>4 DEF Export!Move

\* What the next step of a promotion writes to, and what it has written.
LEMMA Promoted ==
  ASSUME ExportInv, NEW p \in Procs, proc[p].at \in {"backup", "install"}
  PROVE  LET w == proc[p] f == w.plan[w.next] T == Taken(w.plan, w.next - 1) IN
         /\ w \in Frame /\ f \in Export!Files /\ f \notin T /\ Export!Planned(p) = f
         /\ f \in Taken(w.plan, Len(w.plan)) /\ Taken(w.plan, Len(w.plan)) \subseteq Export!Files
         /\ Taken(w.plan, w.next) = T \cup {f} /\ T \subseteq Export!Files
         /\ w.next \in 1..Len(w.plan) /\ Len(w.plan) \in Nat
         /\ staging[p] \in Kept /\ staging[p][f] = w.num /\ dest.there /\ w.num \in Export!Nums
<1>1. Own(p) /\ proc[p].at \notin {"idle", "import", "stage", "look", "move"}
  BY Unplanned
<1> QED
  BY <1>1, Unplanned, TakenGrows, SMTT(30) DEF Own

LEMMA GivesUp ==
  ASSUME ExportInv, NEW p \in Procs, proc[p].at \in {"backup", "install"}, Export!Fails,
         Export!Goto(p, "undo"), UNCHANGED <<dest, staging, bak, ended>>, Export!Still
  PROVE  ExportInv'
<1> DEFINE w == proc[p]
<1>1. w \in Frame /\ dest.there /\ w.next \in 1..Len(w.plan) /\ w.plan \in Export!Plans /\ staging[p] \in Kept
  BY Promoted, Unplanned
<1>2. /\ proc' \in [Procs -> Frame] /\ (\A q \in Procs \ {p} : proc'[q] = proc[q]) /\ proc'[p].at = "undo"
      /\ proc'[p].num = w.num /\ proc'[p].plan = w.plan /\ proc'[p].next = w.next
      /\ proc'[p].backups = w.backups /\ proc'[p].installed = w.installed /\ proc'[p].left = w.left
  BY <1>1 DEF Frame, Stages, ExportInv, ExportTyped, Export!Goto
<1>3. ExportTyped'
  BY <1>2, Failing DEF ExportInv, ExportTyped, Export!Keep, Export!Still
<1>4. Own(p)'
  BY <1>1, <1>2, Unplanned DEF Own, Export!Keep, Export!Still
<1>6. w.left = {}
  BY Unplanned DEF Own
<1>5. Differs(p) => Differs(p)'
  <2> SUFFICES ASSUME Differs(p) PROVE Differs(p)'
    OBVIOUS
  <2>1. /\ before[p].there
        /\ \A g \in Export!Files :
             /\ g \notin w.backups \cup w.installed => dest.file[g] = before[p].file[g]
             /\ g \in w.installed => before[p].file[g] = 0 /\ g \notin w.backups
             /\ g \in w.backups => bak[p][g] = before[p].file[g]
             /\ g \in w.backups \cup w.installed => dest.file[g] \in {0, w.num}
    BY <1>6 DEF Differs
  <2>2. before' = before /\ dest' = dest /\ bak' = bak
    BY DEF Export!Keep, Export!Still
  <2> HIDE DEF w
  <2> QED
    BY <1>2, <1>6, <2>1, <2>2, SMTT(30) DEF Differs
<1> QED
  BY <1>2, <1>3, <1>4, <1>5, OneMoves DEF Export!Keep, Export!Still

LEMMA BackupStep == ASSUME ExportInv, NEW p \in Procs, Export!Backup(p) PROVE ExportInv'
<1> DEFINE w == proc[p]
           f == w.plan[w.next]
           T == Taken(w.plan, w.next - 1)
<1>1. w.at = "backup" /\ w.at # "idle" /\ UNCHANGED <<staging, ended>> /\ Export!Still
  BY DEF Export!Backup
<1>2. /\ w \in Frame /\ f \in Export!Files /\ Export!Planned(p) = f /\ dest.there
      /\ f \notin T /\ w.backups \subseteq Export!Files /\ w.installed \subseteq Export!Files
      /\ w.next \in 1..Len(w.plan) /\ w.plan \in Export!Plans /\ dest.file \in Kept /\ bak[p] \in Kept
  BY <1>1, Promoted, Unplanned
<1>6. w.left = {}
  BY <1>1, Unplanned DEF Own
<1>7. T = Taken(w.plan, w.next - 1) /\ f = w.plan[w.next]
  OBVIOUS
<1>3. CASE /\ dest.file[f] # 0
           /\ dest' = [dest EXCEPT !.file[f] = 0] /\ bak' = [bak EXCEPT ![p][f] = dest.file[f]]
           /\ proc' = [proc EXCEPT ![p].at = "install", ![p].backups = @ \cup {f}]
           /\ UNCHANGED fails
  <2>1. /\ dest' \in [there : BOOLEAN, file : Kept] /\ dest'.there
        /\ \A g \in Export!Files : dest'.file[g] = IF g = f THEN 0 ELSE dest.file[g]
    BY <1>2, <1>3, FilesAre DEF ExportInv, ExportTyped, Kept
  <2>2. /\ bak' \in [Procs -> Kept] /\ \A q \in Procs \ {p} : bak'[q] = bak[q]
        /\ \A g \in Export!Files : bak'[p][g] = IF g = f THEN dest.file[f] ELSE bak[p][g]
    BY <1>2, <1>3 DEF ExportInv, ExportTyped, Kept
  <2>3. /\ proc' \in [Procs -> Frame] /\ (\A q \in Procs \ {p} : proc'[q] = proc[q]) /\ proc'[p].at = "install"
        /\ proc'[p].num = w.num /\ proc'[p].plan = w.plan /\ proc'[p].next = w.next
        /\ proc'[p].backups = w.backups \cup {f} /\ proc'[p].installed = w.installed /\ proc'[p].left = w.left
    BY <1>1, <1>2, <1>3, ZenonT(40) DEF Frame, Stages, ExportInv, ExportTyped
  <2>4. ExportTyped'
    BY <1>1, <1>3, <2>1, <2>2, <2>3 DEF ExportInv, ExportTyped, Export!Keep, Export!Still
  <2>5. Own(p)'
    BY <1>1, <1>2, <2>1, <2>2, <2>3, Unplanned, SMTT(30) DEF Own, Export!Keep, Export!Still
  <2>6. Differs(p) => Differs(p)'
    <3> SUFFICES ASSUME Differs(p) PROVE Differs(p)'
      OBVIOUS
    <3>1. /\ before[p].there /\ w.backups \cup w.installed = T /\ \A g \in T : dest.file[g] = w.num
          /\ \A g \in Export!Files :
               /\ g \notin w.backups \cup w.installed => dest.file[g] = before[p].file[g]
               /\ g \in w.installed => before[p].file[g] = 0 /\ g \notin w.backups
               /\ g \in w.backups => bak[p][g] = before[p].file[g]
               /\ g \in w.backups \cup w.installed => dest.file[g] \in {0, w.num}
      BY <1>1, <1>6 DEF Differs
    <3>2. f \notin w.backups \cup w.installed /\ dest.file[f] = before[p].file[f]
      BY <1>2, <3>1
    <3>3. before' = before
      BY <1>1 DEF Export!Keep, Export!Still
    <3> HIDE DEF T, f, w
    <3> QED
      BY <1>2, <1>7, <2>1, <2>2, <2>3, <3>1, <3>2, <3>3, SMTT(30) DEF Differs
  <2> QED
    BY <1>1, <2>1, <2>2, <2>3, <2>4, <2>5, <2>6, OneMoves DEF Export!Keep, Export!Still
<1>4. CASE /\ dest.file[f] = 0
           /\ proc' = [proc EXCEPT ![p].at = "install", ![p].installed = @ \cup {f}]
           /\ UNCHANGED <<dest, bak, fails>>
  <2>3. /\ proc' \in [Procs -> Frame] /\ (\A q \in Procs \ {p} : proc'[q] = proc[q]) /\ proc'[p].at = "install"
        /\ proc'[p].num = w.num /\ proc'[p].plan = w.plan /\ proc'[p].next = w.next
        /\ proc'[p].backups = w.backups /\ proc'[p].installed = w.installed \cup {f} /\ proc'[p].left = w.left
    BY <1>1, <1>2, <1>4, ZenonT(40) DEF Frame, Stages, ExportInv, ExportTyped
  <2>4. ExportTyped'
    BY <1>1, <1>4, <2>3 DEF ExportInv, ExportTyped, Export!Keep, Export!Still
  <2>5. Own(p)'
    BY <1>1, <1>2, <1>4, <2>3, Unplanned DEF Own, Export!Keep, Export!Still
  <2>6. Differs(p) => Differs(p)'
    <3> SUFFICES ASSUME Differs(p) PROVE Differs(p)'
      OBVIOUS
    <3>1. /\ before[p].there /\ w.backups \cup w.installed = T /\ \A g \in T : dest.file[g] = w.num
          /\ \A g \in Export!Files :
               /\ g \notin w.backups \cup w.installed => dest.file[g] = before[p].file[g]
               /\ g \in w.installed => before[p].file[g] = 0 /\ g \notin w.backups
               /\ g \in w.backups => bak[p][g] = before[p].file[g]
               /\ g \in w.backups \cup w.installed => dest.file[g] \in {0, w.num}
      BY <1>1, <1>6 DEF Differs
    <3>2. f \notin w.backups \cup w.installed /\ dest.file[f] = before[p].file[f] /\ dest.file[f] = 0
      BY <1>2, <1>4, <3>1
    <3>3. before' = before /\ dest' = dest /\ bak' = bak
      BY <1>1, <1>4 DEF Export!Keep, Export!Still
    <3> HIDE DEF T, f, w
    <3> QED
      BY <1>2, <1>7, <2>3, <3>1, <3>2, <3>3, SMTT(30) DEF Differs
  <2> QED
    BY <1>1, <1>4, <2>3, <2>4, <2>5, <2>6, OneMoves DEF Export!Keep, Export!Still
<1>5. CASE Export!Fails /\ Export!Goto(p, "undo") /\ UNCHANGED <<dest, bak>>
  BY <1>1, <1>5, GivesUp, SMTT(30)
<1> QED
  BY <1>2, <1>3, <1>4, <1>5, ZenonT(40) DEF Export!Backup

LEMMA InstallStep == ASSUME ExportInv, NEW p \in Procs, Export!Install(p) PROVE ExportInv'
<1> DEFINE w == proc[p]
           f == w.plan[w.next]
           T == Taken(w.plan, w.next - 1)
           P == Taken(w.plan, Len(w.plan))
<1>1. w.at = "install" /\ w.at # "idle" /\ UNCHANGED <<bak, ended>> /\ Export!Still
  BY DEF Export!Install
<1>2. /\ w \in Frame /\ f \in Export!Files /\ Export!Planned(p) = f /\ dest.there /\ f \notin T
      /\ Taken(w.plan, w.next) = T \cup {f} /\ P \subseteq Export!Files /\ T \subseteq Export!Files
      /\ w.next \in 1..Len(w.plan) /\ Len(w.plan) \in Nat /\ w.plan \in Export!Plans
      /\ w.num \in Export!Nums /\ staging[p] \in Kept /\ staging[p][f] = w.num /\ dest.file \in Kept
  BY <1>1, Promoted, Unplanned
<1>3. CASE Export!Fails /\ Export!Goto(p, "undo") /\ UNCHANGED <<dest, staging>>
  BY <1>1, <1>3, GivesUp
<1>4. CASE /\ dest' = [dest EXCEPT !.file[f] = staging[p][f]]
           /\ staging' = [staging EXCEPT ![p][f] = 0]
           /\ proc' = IF w.next = Len(w.plan) THEN [proc EXCEPT ![p].at = "drop"]
                      ELSE [proc EXCEPT ![p].at = "backup", ![p].next = @ + 1]
           /\ UNCHANGED fails
  <2>1. /\ dest' \in [there : BOOLEAN, file : Kept] /\ dest'.there
        /\ \A g \in Export!Files : dest'.file[g] = IF g = f THEN w.num ELSE dest.file[g]
    BY <1>2, <1>4 DEF ExportInv, ExportTyped, Kept
  <2>2. /\ staging' \in [Procs -> Kept \cup {Export!Gone}] /\ staging'[p] \in Kept
        /\ \A q \in Procs \ {p} : staging'[q] = staging[q]
        /\ \A g \in Export!Files \ {f} : staging'[p][g] = staging[p][g]
    BY <1>2, <1>4, FilesAre DEF ExportInv, ExportTyped, Kept
  <2>3. proc \in [Procs -> Frame] /\ w.next + 1 \in Nat
    BY <1>2 DEF ExportInv, ExportTyped
  <2>4. \A g \in P \ T : staging[p][g] = w.num
    BY <1>1, Unplanned DEF Own
  <2>5. w.left = {} /\ \A g \in Export!Files \ w.backups : bak[p][g] = 0
    BY <1>1, Unplanned DEF Own
  <2>6. CASE w.next = Len(w.plan)
    <3>1. proc' = [proc EXCEPT ![p].at = "drop"] /\ P = T \cup {f}
      BY <1>2, <1>4, <2>6
    <3>2. /\ proc' \in [Procs -> Frame] /\ (\A q \in Procs \ {p} : proc'[q] = proc[q]) /\ proc'[p].at = "drop"
          /\ proc'[p].num = w.num /\ proc'[p].plan = w.plan /\ proc'[p].next = w.next
          /\ proc'[p].backups = w.backups /\ proc'[p].installed = w.installed /\ proc'[p].left = w.left
      BY <1>1, <1>2, <2>3, <3>1, SMTT(30) DEF Frame, Stages
    <3>3. ExportTyped'
      BY <1>1, <1>4, <2>1, <2>2, <3>2, ZenonT(40) DEF ExportInv, ExportTyped, Export!Keep, Export!Still
    <3>4. Own(p)'
      BY <1>1, <1>2, <2>1, <2>2, <2>5, <3>2 DEF Own, Export!Keep, Export!Still
    <3>5. Differs(p) => Differs(p)'
      <4> SUFFICES ASSUME Differs(p) PROVE Differs(p)'
        OBVIOUS
      <4>1. /\ before[p].there /\ w.backups \cup w.installed = P /\ \A g \in T : dest.file[g] = w.num
            /\ \A g \in Export!Files :
                 g \notin w.backups \cup w.installed => dest.file[g] = before[p].file[g]
        BY <1>1, <2>5, <3>1 DEF Differs
      <4>2. before' = before
        BY <1>1 DEF Export!Keep, Export!Still
      <4>3. P = Taken(w.plan, Len(w.plan))
        OBVIOUS
      <4>4. \A g \in Export!Files : dest'.file[g] = IF g \in P THEN w.num ELSE before[p].file[g]
        BY <1>2, <2>1, <3>1, <4>1
      <4> HIDE DEF T, P, f, w
      <4> QED
        BY <3>2, <4>1, <4>2, <4>3, <4>4, SMTT(30) DEF Differs
    <3> QED
      BY <1>1, <2>1, <2>2, <3>2, <3>3, <3>4, <3>5, OneMoves DEF Export!Keep, Export!Still
  <2>7. CASE w.next # Len(w.plan)
    <3>1. /\ proc' = [proc EXCEPT ![p].at = "backup", ![p].next = @ + 1]
          /\ w.next + 1 \in 1..Len(w.plan) /\ (w.next + 1) - 1 = w.next
      BY <1>2, <1>4, <2>7, SMTT(30)
    <3>2. /\ proc' \in [Procs -> Frame] /\ (\A q \in Procs \ {p} : proc'[q] = proc[q]) /\ proc'[p].at = "backup"
          /\ proc'[p].num = w.num /\ proc'[p].plan = w.plan /\ proc'[p].next = w.next + 1
          /\ proc'[p].backups = w.backups /\ proc'[p].installed = w.installed /\ proc'[p].left = w.left
      BY <1>1, <1>2, <2>3, <3>1 DEF Frame, Stages
    <3>3. ExportTyped'
      BY <1>1, <1>4, <2>1, <2>2, <3>2, ZenonT(40) DEF ExportInv, ExportTyped, Export!Keep, Export!Still
    <3>4. Own(p)'
      BY <1>1, <1>2, <2>1, <2>2, <2>4, <2>5, <3>1, <3>2 DEF Own, Export!Keep, Export!Still
    <3>5. Taken(proc'[p].plan, proc'[p].next - 1) = T \cup {f}
      BY <1>2, <3>1, <3>2
    <3>6. Differs(p) => Differs(p)'
      <4> SUFFICES ASSUME Differs(p) PROVE Differs(p)'
        OBVIOUS
      <4>1. /\ before'[p] = before[p] /\ before[p].there /\ w.backups \cup w.installed = T \cup {f}
            /\ \A g \in T : dest.file[g] = w.num
            /\ \A g \in Export!Files :
                 /\ g \notin w.backups \cup w.installed => dest.file[g] = before[p].file[g]
                 /\ g \in w.installed => before[p].file[g] = 0 /\ g \notin w.backups
                 /\ g \in w.backups => bak[p][g] = before[p].file[g]
                 /\ g \in w.backups \cup w.installed => dest.file[g] \in {0, w.num}
        BY <1>1, <2>5 DEF Differs, Export!Keep, Export!Still
      <4>2. \A g \in T \cup {f} : dest'.file[g] = w.num
        BY <1>2, <2>1, <4>1
      <4>3. \A g \in Export!Files : g \notin w.backups \cup w.installed => dest'.file[g] = before[p].file[g]
        BY <2>1, <4>1
      <4>4. \A g \in Export!Files : g \in w.backups \cup w.installed => dest'.file[g] \in {0, w.num}
        BY <2>1, <4>1
      <4>5. bak' = bak
        BY <1>1
      <4> HIDE DEF T, f, w
      <4> QED
        BY <3>2, <3>5, <4>1, <4>2, <4>3, <4>4, <4>5, SMTT(30) DEF Differs
    <3> QED
      BY <1>1, <2>1, <2>2, <3>2, <3>3, <3>4, <3>6, OneMoves DEF Export!Keep, Export!Still
  <2> QED
    BY <2>6, <2>7
<1> QED
  BY <1>2, <1>3, <1>4 DEF Export!Install

\* The guard passes on to what it does next.
LEMMA GoesOn ==
  ASSUME ExportInv, NEW p \in Procs, NEW l \in {"restore", "tidy", "clear"}, Export!Goto(p, l),
         proc[p].at = CASE l = "restore" -> "undo" [] l = "tidy" -> "restore" [] OTHER -> "drop",
         l = "restore" => proc[p].installed = {}, l # "restore" => proc[p].backups = {},
         Export!Succeeds, Export!Keep, UNCHANGED <<dest, staging, bak, ended>>
  PROVE  ExportInv'
<1> DEFINE w == proc[p]
<1>1. /\ w.at \in {"undo", "restore", "drop"} /\ w.at # "idle"
      /\ l = "restore" <=> w.at = "undo"
      /\ l = "tidy" <=> w.at = "restore"
      /\ l = "clear" <=> w.at = "drop"
  OBVIOUS
<1>2. w \in Frame /\ Own(p)
  BY <1>1, Unplanned
<1>3. /\ proc' \in [Procs -> Frame] /\ (\A q \in Procs \ {p} : proc'[q] = proc[q]) /\ proc'[p].at = l
      /\ proc'[p].num = w.num /\ proc'[p].plan = w.plan /\ proc'[p].next = w.next
      /\ proc'[p].backups = w.backups /\ proc'[p].installed = w.installed /\ proc'[p].left = w.left
  BY <1>1, <1>2 DEF Frame, Stages, ExportInv, ExportTyped, Export!Goto
<1>4. ExportTyped'
  BY <1>3 DEF ExportInv, ExportTyped, Export!Keep, Export!Succeeds
<1>5. Own(p)'
  BY <1>1, <1>2, <1>3 DEF Own, Export!Keep, Export!Succeeds
<1>6. Differs(p) => Differs(p)'
  <2> SUFFICES ASSUME Differs(p) PROVE Differs(p)'
    OBVIOUS
  <2>1. CASE l = "restore"
    BY <1>1, <1>3, <2>1 DEF Differs, Export!Keep
  <2>2. CASE l = "tidy"
    <3>1. dest.there /\ before[p].there
      BY <1>1, <1>2, <2>2 DEF Own, Differs
    <3> QED
      BY <1>1, <1>3, <2>2, <3>1, Unplanned DEF Differs, Export!Keep
  <2>3. CASE l = "clear"
    BY <1>1, <1>3, <2>3 DEF Differs, Export!Keep
  <2> QED
    BY <2>1, <2>2, <2>3
<1> QED
  BY <1>1, <1>3, <1>4, <1>5, <1>6, OneMoves DEF Export!Keep, Export!Succeeds

\* What a call that nobody looks at does to the account of failures.
LEMMA Unseen ==
  ASSUME ExportInv, Export!Succeeds \/ Export!Leaves
  PROVE  lost' \in BOOLEAN /\ (lost => lost') /\ fails' \in 0..MaxFails
<1>1. CASE Export!Succeeds
  BY <1>1 DEF ExportInv, ExportTyped, Export!Succeeds
<1>2. CASE Export!Leaves
  BY <1>2, Failing DEF Export!Leaves
<1> QED
  BY <1>1, <1>2

\* The guard sees to one file, or leaves it.
LEMMA OneSeenTo ==
  ASSUME ExportInv, NEW p \in Procs, proc[p].at \in {"undo", "restore", "drop"},
         Export!Succeeds \/ Export!Leaves, Export!Keep, UNCHANGED <<staging, ended>>,
         dest' \in [there : BOOLEAN, file : Kept], dest'.there,
         bak' \in [Procs -> Kept], \A q \in Procs \ {p} : bak'[q] = bak[q],
         proc' \in [Procs -> Frame], \A q \in Procs \ {p} : proc'[q] = proc[q],
         proc'[p].at = proc[p].at, proc'[p].plan = proc[p].plan, proc'[p].next = proc[p].next,
         \A f \in Export!Files \ (proc'[p].backups \cup proc'[p].left) : bak'[p][f] = 0,
         alone[p] /\ Sole(p) /\ Differs(p) => Differs(p)'
  PROVE  ExportInv'
<1> DEFINE w == proc[p]
<1>1. Own(p) /\ w.at # "idle"
  BY Unplanned
<1>2. ExportTyped'
  BY Unseen DEF ExportInv, ExportTyped, Export!Keep
<1>3. Own(p)'
  BY <1>1 DEF Own
<1> QED
  BY <1>1, <1>2, <1>3, Unseen, OneMoves DEF Export!Keep

LEMMA UndoStep == ASSUME ExportInv, NEW p \in Procs, Export!Undo(p) PROVE ExportInv'
<1> DEFINE w == proc[p]
<1>1. w.at = "undo" /\ UNCHANGED <<staging, bak, ended>> /\ Export!Keep
  BY DEF Export!Undo
<1>2. /\ w \in Frame /\ dest.file \in Kept /\ dest.there /\ w.installed \subseteq Export!Files
      /\ w.left \subseteq Export!Files /\ dest \in [there : BOOLEAN, file : Kept]
      /\ bak \in [Procs -> Kept] /\ proc \in [Procs -> Frame]
      /\ \A g \in Export!Files \ (w.backups \cup w.left) : bak[p][g] = 0
  BY <1>1, Unplanned DEF Own, ExportInv, ExportTyped
<1>3. CASE w.installed = {} /\ Export!Goto(p, "restore") /\ Export!Succeeds /\ UNCHANGED dest
  BY <1>1, <1>3, GoesOn
<1>4. ASSUME NEW f \in w.installed, dest' = [dest EXCEPT !.file[f] = 0], Export!Succeeds,
             proc' = [proc EXCEPT ![p].installed = @ \ {f}]
      PROVE  ExportInv'
  <2>1. /\ dest' \in [there : BOOLEAN, file : Kept] /\ dest'.there
        /\ \A g \in Export!Files : dest'.file[g] = IF g = f THEN 0 ELSE dest.file[g]
    BY <1>2, <1>4, FilesAre DEF Kept
  <2>2. /\ proc' \in [Procs -> Frame] /\ (\A q \in Procs \ {p} : proc'[q] = proc[q])
        /\ proc'[p].at = w.at /\ proc'[p].num = w.num /\ proc'[p].plan = w.plan /\ proc'[p].next = w.next
        /\ proc'[p].backups = w.backups /\ proc'[p].installed = w.installed \ {f} /\ proc'[p].left = w.left
    BY <1>2, <1>4 DEF Frame
  <2>3. Differs(p) => Differs(p)'
    BY <1>1, <1>2, <1>4, <2>1, <2>2, SMTT(30) DEF Differs, Export!Keep
  <2> QED
    BY <1>1, <1>2, <1>4, <2>1, <2>2, <2>3, OneSeenTo
<1>5. ASSUME NEW f \in w.installed, Export!Leaves, UNCHANGED dest,
             proc' = [proc EXCEPT ![p].installed = @ \ {f}, ![p].left = @ \cup {f}]
      PROVE  ExportInv'
  <2>2. /\ proc' \in [Procs -> Frame] /\ (\A q \in Procs \ {p} : proc'[q] = proc[q])
        /\ proc'[p].at = w.at /\ proc'[p].num = w.num /\ proc'[p].plan = w.plan /\ proc'[p].next = w.next
        /\ proc'[p].backups = w.backups /\ proc'[p].installed = w.installed \ {f}
        /\ proc'[p].left = w.left \cup {f}
    BY <1>2, <1>5 DEF Frame
  <2>3. Differs(p) => Differs(p)'
    <3> SUFFICES ASSUME Differs(p) PROVE Differs(p)'
      OBVIOUS
    <3>1. before[p].file[f] = 0 /\ f \notin w.backups /\ dest.file[f] \in {0, w.num} /\ bak[p][f] = 0
      <4>1. before[p].file[f] = 0 /\ f \notin w.backups /\ dest.file[f] \in {0, w.num}
        BY <1>1, <1>2, <1>5 DEF Differs
      <4>2. f \in w.left => bak[p][f] = before[p].file[f]
        BY <1>1 DEF Differs
      <4> QED
        BY <1>2, <4>1, <4>2
    <3> QED
      BY <1>1, <1>2, <1>5, <2>2, <3>1, SMTT(30) DEF Differs, Export!Keep
  <2> QED
    BY <1>1, <1>2, <1>5, <2>2, <2>3, OneSeenTo
<1> QED
  BY <1>3, <1>4, <1>5 DEF Export!Undo

LEMMA RestoreStep == ASSUME ExportInv, NEW p \in Procs, Export!Restore(p) PROVE ExportInv'
<1> DEFINE w == proc[p]
<1>1. w.at = "restore" /\ UNCHANGED <<staging, ended>> /\ Export!Keep
  BY DEF Export!Restore
<1>2. /\ w \in Frame /\ dest.file \in Kept /\ dest.there /\ w.backups \subseteq Export!Files /\ bak[p] \in Kept
      /\ w.left \subseteq Export!Files
      /\ dest \in [there : BOOLEAN, file : Kept] /\ bak \in [Procs -> Kept] /\ proc \in [Procs -> Frame]
      /\ \A g \in Export!Files \ (w.backups \cup w.left) : bak[p][g] = 0
  BY <1>1, Unplanned DEF Own, ExportInv, ExportTyped
<1>3. CASE w.backups = {} /\ Export!Goto(p, "tidy") /\ Export!Succeeds /\ UNCHANGED <<dest, bak>>
  BY <1>1, <1>3, GoesOn
<1>4. ASSUME NEW f \in w.backups, Export!Succeeds,
             dest' = [dest EXCEPT !.file[f] = bak[p][f]], bak' = [bak EXCEPT ![p][f] = 0],
             proc' = [proc EXCEPT ![p].backups = @ \ {f}]
      PROVE  ExportInv'
  <2>1. /\ dest' \in [there : BOOLEAN, file : Kept] /\ dest'.there
        /\ \A g \in Export!Files : dest'.file[g] = IF g = f THEN bak[p][f] ELSE dest.file[g]
    BY <1>2, <1>4 DEF Kept
  <2>2. /\ bak' \in [Procs -> Kept] /\ (\A q \in Procs \ {p} : bak'[q] = bak[q])
        /\ \A g \in Export!Files : bak'[p][g] = IF g = f THEN 0 ELSE bak[p][g]
    BY <1>2, <1>4, FilesAre DEF Kept
  <2>3. /\ proc' \in [Procs -> Frame] /\ (\A q \in Procs \ {p} : proc'[q] = proc[q])
        /\ proc'[p].at = w.at /\ proc'[p].num = w.num /\ proc'[p].plan = w.plan /\ proc'[p].next = w.next
        /\ proc'[p].backups = w.backups \ {f} /\ proc'[p].left = w.left
    BY <1>2, <1>4 DEF Frame
  <2>4. Differs(p) => Differs(p)'
    BY <1>1, <1>2, <1>4, <2>1, <2>2, <2>3, SMTT(30) DEF Differs, Export!Keep
  <2>5. \A g \in Export!Files \ (proc'[p].backups \cup proc'[p].left) : bak'[p][g] = 0
    BY <1>2, <2>2, <2>3
  <2> QED
    BY <1>1, <1>4, <2>1, <2>2, <2>3, <2>4, <2>5, OneSeenTo
<1>5. ASSUME NEW f \in w.backups, Export!Leaves, UNCHANGED <<dest, bak>>,
             proc' = [proc EXCEPT ![p].backups = @ \ {f}, ![p].left = @ \cup {f}]
      PROVE  ExportInv'
  <2>3. /\ proc' \in [Procs -> Frame] /\ (\A q \in Procs \ {p} : proc'[q] = proc[q])
        /\ proc'[p].at = w.at /\ proc'[p].num = w.num /\ proc'[p].plan = w.plan /\ proc'[p].next = w.next
        /\ proc'[p].backups = w.backups \ {f} /\ proc'[p].left = w.left \cup {f}
    BY <1>2, <1>5 DEF Frame
  <2>4. Differs(p) => Differs(p)'
    BY <1>1, <1>2, <1>5, <2>3, SMTT(30) DEF Differs, Export!Keep
  <2> QED
    BY <1>1, <1>2, <1>5, <2>3, <2>4, OneSeenTo
<1> QED
  BY <1>3, <1>4, <1>5 DEF Export!Restore

LEMMA DropStep == ASSUME ExportInv, NEW p \in Procs, Export!Drop(p) PROVE ExportInv'
<1> DEFINE w == proc[p]
<1>1. w.at = "drop" /\ UNCHANGED <<dest, staging, ended>> /\ Export!Keep
  BY DEF Export!Drop
<1>2. /\ w \in Frame /\ dest.there /\ w.backups \subseteq Export!Files /\ bak[p] \in Kept
      /\ w.left \subseteq Export!Files
      /\ dest \in [there : BOOLEAN, file : Kept] /\ bak \in [Procs -> Kept] /\ proc \in [Procs -> Frame]
      /\ \A g \in Export!Files \ (w.backups \cup w.left) : bak[p][g] = 0
  BY <1>1, Unplanned DEF Own, ExportInv, ExportTyped
<1>3. CASE w.backups = {} /\ Export!Goto(p, "clear") /\ Export!Succeeds /\ UNCHANGED bak
  BY <1>1, <1>3, GoesOn
<1>4. ASSUME NEW f \in w.backups, Export!Succeeds, bak' = [bak EXCEPT ![p][f] = 0],
             proc' = [proc EXCEPT ![p].backups = @ \ {f}]
      PROVE  ExportInv'
  <2>2. /\ bak' \in [Procs -> Kept] /\ (\A q \in Procs \ {p} : bak'[q] = bak[q])
        /\ \A g \in Export!Files : bak'[p][g] = IF g = f THEN 0 ELSE bak[p][g]
    BY <1>2, <1>4, FilesAre DEF Kept
  <2>3. /\ proc' \in [Procs -> Frame] /\ (\A q \in Procs \ {p} : proc'[q] = proc[q])
        /\ proc'[p].at = w.at /\ proc'[p].num = w.num /\ proc'[p].plan = w.plan /\ proc'[p].next = w.next
        /\ proc'[p].backups = w.backups \ {f} /\ proc'[p].left = w.left
    BY <1>2, <1>4 DEF Frame
  <2>4. Differs(p) => Differs(p)'
    BY <1>1, <2>3 DEF Differs, Export!Keep
  <2>5. \A g \in Export!Files \ (proc'[p].backups \cup proc'[p].left) : bak'[p][g] = 0
    BY <1>2, <2>2, <2>3
  <2> QED
    BY <1>1, <1>2, <1>4, <2>2, <2>3, <2>4, <2>5, OneSeenTo
<1>5. ASSUME NEW f \in w.backups, Export!Leaves, UNCHANGED bak,
             proc' = [proc EXCEPT ![p].backups = @ \ {f}, ![p].left = @ \cup {f}]
      PROVE  ExportInv'
  <2>3. /\ proc' \in [Procs -> Frame] /\ (\A q \in Procs \ {p} : proc'[q] = proc[q])
        /\ proc'[p].at = w.at /\ proc'[p].num = w.num /\ proc'[p].plan = w.plan /\ proc'[p].next = w.next
        /\ proc'[p].backups = w.backups \ {f} /\ proc'[p].left = w.left \cup {f}
    BY <1>2, <1>5 DEF Frame
  <2>4. Differs(p) => Differs(p)'
    BY <1>1, <2>3 DEF Differs, Export!Keep
  <2> QED
    BY <1>1, <1>2, <1>5, <2>3, <2>4, OneSeenTo
<1> QED
  BY <1>3, <1>4, <1>5 DEF Export!Drop

\* The staging directory goes, or part of it stays and is lost.
LEMMA TidyLeaves ==
  ASSUME ExportInv, NEW p \in Procs, Export!Tidy(p)
  PROVE  /\ staging' \in [Procs -> Kept \cup {Export!Gone}] /\ \A q \in Procs \ {p} : staging'[q] = staging[q]
         /\ \/ staging'[p] = Export!Gone /\ Export!Succeeds
            \/ Export!Leaves
<1>1. proc[p].at \in {"clear", "tidy"} /\ staging \in [Procs -> Kept \cup {Export!Gone}]
  BY DEF Export!Tidy, ExportInv, ExportTyped
<1>2. staging[p] \in Kept
  BY <1>1, Unplanned DEF Own
<1>3. CASE staging' = [staging EXCEPT ![p] = Export!Gone] /\ Export!Succeeds
  BY <1>1, <1>3
<1>4. ASSUME NEW q \in SUBSET Export!Files, Export!Leaves,
             staging' = [staging EXCEPT ![p] = [f \in Export!Files |-> IF f \in q THEN 0 ELSE @[f]]]
      PROVE  /\ staging' \in [Procs -> Kept \cup {Export!Gone}] /\ Export!Leaves
             /\ \A r \in Procs \ {p} : staging'[r] = staging[r]
  <2> DEFINE rest == [f \in Export!Files |-> IF f \in q THEN 0 ELSE staging[p][f]]
  <2>1. rest \in Kept
    BY <1>2, FilesAre DEF Kept
  <2>2. staging' = [staging EXCEPT ![p] = rest]
    BY <1>4
  <2> HIDE DEF rest
  <2> QED
    BY <1>1, <1>4, <2>1, <2>2
<1> QED
  BY <1>3, <1>4 DEF Export!Tidy

LEMMA TidyStep == ASSUME ExportInv, NEW p \in Procs, Export!Tidy(p) PROVE ExportInv'
<1> DEFINE how == IF proc[p].at = "clear" THEN "ok" ELSE "failed"
<1>1. /\ proc[p].at \in {"clear", "tidy"} /\ proc[p].at # "idle"
      /\ Export!Over(p, how) /\ UNCHANGED <<dest, bak>> /\ Export!Keep /\ how \in {"ok", "failed"}
  BY DEF Export!Tidy
<1>2. dest' \in [there : BOOLEAN, file : Kept]
  BY <1>1 DEF ExportInv, ExportTyped
<1>3. lost' \/ staging'[p] = Export!Gone
  BY TidyLeaves DEF Export!Leaves
<1>4. lost' \in BOOLEAN /\ (lost => lost') /\ fails' \in 0..MaxFails
  BY TidyLeaves, Unseen
<1> HIDE DEF how
<1> QED
  BY <1>1, <1>2, <1>3, <1>4, TidyLeaves, OneEnds

LEMMA ImportWriteStep == ASSUME ExportInv, NEW p \in Procs, Export!ImportWrite(p) PROVE ExportInv'
<1> DEFINE w == proc[p]
<1>1. w.at = "import" /\ w.at # "idle" /\ UNCHANGED <<staging, bak>> /\ Export!Still
  BY DEF Export!ImportWrite
<1>2. /\ w.num \in Export!Nums /\ dest \in [there : BOOLEAN, file : Kept] /\ dest.there
      /\ staging \in [Procs -> Kept \cup {Export!Gone}] /\ (lost \/ staging[p] = Export!Gone)
      /\ lost \in BOOLEAN
  BY <1>1, Unplanned DEF Own, ExportInv, ExportTyped
<1>3. /\ Export!Keep /\ lost' \in BOOLEAN /\ (lost => lost') /\ (lost' \/ staging'[p] = Export!Gone)
      /\ staging' \in [Procs -> Kept \cup {Export!Gone}] /\ \A q \in Procs \ {p} : staging'[q] = staging[q]
  BY <1>1, <1>2 DEF Export!Still
<1>4. CASE dest' = [dest EXCEPT !.file[Export!Main] = w.num] /\ Export!Over(p, "ok") /\ UNCHANGED fails
  <2>1. dest' \in [there : BOOLEAN, file : Kept] /\ dest'.there
    BY <1>2, <1>4 DEF Kept
  <2>2. fails' \in 0..MaxFails
    BY <1>4 DEF ExportInv, ExportTyped
  <2> QED
    BY <1>1, <1>3, <1>4, <2>1, <2>2, OneEnds
<1>5. CASE Export!Fails /\ Export!Over(p, "failed") /\ UNCHANGED dest
  BY <1>1, <1>2, <1>3, <1>5, Failing, OneEnds
<1> QED
  BY <1>1, <1>4, <1>5 DEF Export!ImportWrite

LEMMA OneBegins ==
  ASSUME ExportInv, NEW p \in Procs, NEW q \in Frame, Export!Begins(p, q),
         q.plan \in Export!Plans, q.next = 1, q.backups = {}, q.installed = {}, q.left = {},
         \/ q.at = "stage" /\ staging' = [staging EXCEPT ![p] = Export!None] /\ UNCHANGED dest
         \/ q.at = "import" /\ UNCHANGED staging /\ dest' = [dest EXCEPT !.there = TRUE]
  PROVE  ExportInv'
<1> DEFINE w == [q EXCEPT !.num = attempts + 2]
<1> USE FilesAre
<1>1. /\ proc[p].at = "idle" /\ attempts < MaxRuns /\ attempts' = attempts + 1
      /\ proc' = [proc EXCEPT ![p] = w] /\ before' = [before EXCEPT ![p] = dest]
      /\ alone' = [o \in Procs |-> (o = p \/ o \notin Export!Busy) /\ Export!Busy = {} /\ exportCuts = 0]
      /\ ended' = [ended EXCEPT ![p] = "none"] /\ UNCHANGED <<lost, fails, exportCuts>>
      /\ bak' = [bak EXCEPT ![p] = Export!None]
  BY DEF Export!Begins
<1>2. /\ w \in Frame /\ w.at = q.at /\ w.plan = q.plan /\ w.next = 1 /\ w.backups = {} /\ w.installed = {}
      /\ w.left = {} /\ attempts \in 0..MaxRuns
  BY <1>1 DEF Frame, ExportInv, ExportTyped
<1> HIDE DEF w
<1>3. proc' \in [Procs -> Frame] /\ proc'[p] = w /\ \A r \in Procs \ {p} : proc'[r] = proc[r]
  BY <1>1, <1>2 DEF ExportInv, ExportTyped
<1>4. /\ dest' \in [there : BOOLEAN, file : Kept] /\ (~dest'.there => dest'.file = Export!None)
      /\ (dest.there => dest'.there) /\ (q.at = "stage" => dest' = dest) /\ (q.at = "import" => dest'.there)
  BY DEF ExportInv, ExportTyped
<1>5. /\ staging' \in [Procs -> Kept \cup {Export!Gone}] /\ (\A r \in Procs \ {p} : staging'[r] = staging[r])
      /\ (q.at = "stage" => staging'[p] = Export!None) /\ (q.at = "import" => staging'[p] = staging[p])
  BY DEF ExportInv, ExportTyped
<1>6. /\ before' \in [Procs -> [there : BOOLEAN, file : Kept]] /\ before'[p] = dest
      /\ \A r \in Procs \ {p} : before'[r] = before[r]
  BY <1>1 DEF ExportInv, ExportTyped
<1>7. /\ alone' \in [Procs -> BOOLEAN]
      /\ \A r \in Procs : alone'[r] => (r = p \/ proc[r].at = "idle") /\ exportCuts = 0
      /\ \A r \in Procs : alone'[p] => proc[r].at = "idle"
  BY <1>1 DEF Export!Busy
<1>8. ended' \in [Procs -> {"none", "ok", "failed"}] /\ attempts' \in 0..MaxRuns
  <2>1. ended' \in [Procs -> {"none", "ok", "failed"}]
    BY <1>1 DEF ExportInv, ExportTyped
  <2>2. attempts' \in 0..MaxRuns
    <3>1. MaxRuns \in Nat
      BY RecordsAssumption
    <3> QED
      BY <1>1, <1>2, <3>1
  <2> QED
    BY <2>1, <2>2
<1>13. /\ bak' \in [Procs -> Kept] /\ bak'[p] = Export!None
       /\ \A r \in Procs \ {p} : bak'[r] = bak[r]
  BY <1>1 DEF ExportInv, ExportTyped
<1>9. ExportTyped'
  BY <1>1, <1>3, <1>4, <1>5, <1>6, <1>7, <1>8, <1>13 DEF ExportInv, ExportTyped
<1>10. Own(p)'
  <2>1. ~lost => staging[p] = Export!Gone
    BY <1>1 DEF ExportInv, Own
  <2>2. \A f \in Export!Files : bak'[p][f] = 0
    BY <1>13 DEF Export!None
  <2>3. Taken(w.plan, w.next - 1) = {} /\ 1 \in 1..Len(w.plan)
    <3>1. Len(w.plan) >= 1 /\ Len(w.plan) \in Nat
      BY <1>2, PlansFit
    <3> QED
      BY <1>2, <3>1 DEF Taken
  <2>4. \A f \in Export!Files : Export!None[f] = 0
    BY DEF Export!None
  <2>5. CASE q.at = "stage"
    BY <1>1, <1>2, <1>3, <1>4, <1>5, <2>2, <2>3, <2>4, <2>5 DEF Own
  <2>6. CASE q.at = "import"
    BY <1>1, <1>2, <1>3, <1>4, <1>5, <2>1, <2>3, <2>6 DEF Own
  <2> QED
    BY <2>5, <2>6
<1>11. Undisturbed(p)'
  <2>1. alone'[p] => Sole(p)'
    BY <1>1, <1>3, <1>7 DEF Sole, ExportInv, ExportTyped
  <2>2. Differs(p)'
    BY <1>2, <1>3, <1>4, <1>6 DEF Differs
  <2> QED
    BY <2>1, <2>2 DEF Undisturbed
<1>12. ASSUME NEW r \in Procs \ {p} PROVE Own(r)' /\ Undisturbed(r)'
  <2>1. Own(r)
    BY DEF ExportInv
  <2>2. Own(r)'
    BY <1>1, <1>3, <1>4, <1>5, <1>13, <2>1 DEF Own
  <2>3. Undisturbed(r)'
    BY <1>3, <1>7 DEF Undisturbed
  <2> QED
    BY <2>2, <2>3
<1> QED
  BY <1>9, <1>10, <1>11, <1>12 DEF ExportInv

LEMMA ExportBegins ==
  ASSUME ExportInv, NEW p \in Procs, NEW over \in BOOLEAN, NEW plan \in Export!Plans, Export!Export(p, over, plan)
  PROVE  ExportInv'
<1> DEFINE q == [Export!Quiet EXCEPT !.at = "stage", !.plan = plan, !.over = over]
<1>1. Export!Begins(p, q) /\ staging' = [staging EXCEPT ![p] = Export!None] /\ UNCHANGED dest
  BY DEF Export!Export
<1>2. /\ q \in Frame /\ q.plan = plan /\ q.next = 1 /\ q.backups = {} /\ q.installed = {} /\ q.left = {}
      /\ q.at = "stage"
  BY FilesAre DEF Frame, Stages, Export!Quiet
<1> HIDE DEF q
<1> QED
  BY <1>1, <1>2, OneBegins

LEMMA ImportBegins == ASSUME ExportInv, NEW p \in Procs, Export!Import(p) PROVE ExportInv'
<1> DEFINE plan == <<Export!Main>>
           q == [Export!Quiet EXCEPT !.at = "import", !.plan = plan]
<1>1. Export!Begins(p, q) /\ UNCHANGED staging /\ dest' = [dest EXCEPT !.there = TRUE]
  BY DEF Export!Import
<1>2. plan \in Export!Plans
  BY PlansFit
<1> HIDE DEF plan
<1>3. q \in Frame /\ q.plan = plan /\ q.next = 1 /\ q.backups = {} /\ q.installed = {} /\ q.left = {}
      /\ q.at = "import"
  BY <1>2, FilesAre DEF Frame, Stages, Export!Quiet
<1> HIDE DEF q
<1> QED
  BY <1>1, <1>2, <1>3, OneBegins

LEMMA CutStep == ASSUME ExportInv, NEW p \in Procs, Export!Cut(p) PROVE ExportInv'
<1>1. /\ proc' \in [Procs -> Frame] /\ proc'[p].at = "idle" /\ \A q \in Procs \ {p} : proc'[q] = proc[q]
  BY FilesAre DEF Export!Cut, Export!Quiet, ExportInv, ExportTyped
<1>2. /\ exportCuts' \in 0..MaxCuts /\ exportCuts' # 0 /\ alone' \in [Procs -> BOOLEAN]
      /\ \A q \in Procs : ~alone'[q]
  BY RecordsAssumption DEF Export!Cut, ExportInv, ExportTyped
<1>3. lost' \in BOOLEAN /\ lost' /\ UNCHANGED <<dest, staging, bak, attempts, fails, before>>
  BY Zenon DEF Export!Cut
<1>4. ended' \in [Procs -> {"none", "ok", "failed"}]
  BY DEF Export!Cut, ExportInv, ExportTyped
<1>5. ExportTyped'
  BY <1>1, <1>2, <1>3, <1>4 DEF ExportInv, ExportTyped
<1>6. ASSUME NEW q \in Procs PROVE Own(q)' /\ Undisturbed(q)'
  <2>1. Own(q)'
    <3>1. Own(q)
      BY DEF ExportInv
    <3> QED
      BY <1>1, <1>3, <3>1 DEF Own
  <2>2. Undisturbed(q)'
    BY <1>2 DEF Undisturbed
  <2> QED
    BY <2>1, <2>2
<1> QED
  BY <1>5, <1>6 DEF ExportInv

LEMMA ExportStep == ASSUME ExportInv, Export!Next PROVE ExportInv'
  BY StageStep, LookStep, MoveStep, BackupStep, InstallStep, UndoStep, RestoreStep, DropStep, TidyStep,
     ExportBegins, ImportBegins, ImportWriteStep, CutStep DEF Export!Next

\* With no command under way nothing staged is left to be found.
LEMMA ExportMeans == ExportInv => Export!TypeOK /\ Export!FoundIsCommitted
<1> SUFFICES ASSUME ExportInv PROVE Export!TypeOK /\ Export!FoundIsCommitted
  OBVIOUS
<1>1. ASSUME NEW p \in Procs
      PROVE  /\ proc[p].at \in Stages /\ proc[p].num \in Export!Nums /\ proc[p].plan \in Export!Plans \cup {<<>>}
             /\ proc[p].backups \subseteq Export!Files /\ proc[p].installed \subseteq Export!Files
             /\ proc[p].left \subseteq Export!Files
             /\ staging[p] \in Kept \cup {Export!Gone} /\ bak[p] \in Kept /\ ended[p] \in {"none", "ok", "failed"}
  <2>1. proc[p] \in Frame /\ staging[p] \in Kept \cup {Export!Gone} /\ bak[p] \in Kept
    BY DEF ExportInv, ExportTyped
  <2>2. ended[p] \in {"none", "ok", "failed"}
    BY DEF ExportInv, ExportTyped
  <2> QED
    BY <2>1, <2>2 DEF Frame
<1>2. Export!TypeOK
  BY <1>1 DEF Export!TypeOK, ExportInv, ExportTyped, Stages, Kept
<1>3. Export!FoundIsCommitted
  <2> SUFFICES ASSUME Export!Busy = {}, ~lost PROVE Export!Found \subseteq {dest.file[Export!Main]}
    BY DEF Export!FoundIsCommitted
  <2>1. \A p \in Procs : staging[p] = Export!Gone
    BY DEF Export!Busy, ExportInv, Own
  <2> QED
    BY <2>1 DEF Export!Found
<1> QED
  BY <1>2, <1>3

\* The last step of an export that no other command met leaves all of it, or
\* nothing, but for what its guards could not see to.
LEMMA ExportEnds ==
  ASSUME ExportInv, Export!Next, NEW p \in Procs, Export!Ends(p), alone[p]
  PROVE  Export!Whole(p)
<1> DEFINE w == proc[p]
<1>1. PICK r \in Procs :
        \/ \E over \in BOOLEAN, plan \in Export!Plans : Export!Export(r, over, plan)
        \/ Export!Stage(r) \/ Export!Look(r) \/ Export!Move(r) \/ Export!Backup(r) \/ Export!Install(r)
        \/ Export!Undo(r) \/ Export!Restore(r) \/ Export!Drop(r) \/ Export!Tidy(r)
        \/ Export!Import(r) \/ Export!ImportWrite(r) \/ Export!Cut(r)
  BY DEF Export!Next
<1>2. w.at \notin {"idle", "import"} /\ proc'[p].at = "idle" /\ ended'[p] # "none" /\ w \in Frame
  BY Unplanned, SMTT(30) DEF Export!Ends
<1>3. \A q \in Procs : q # r => proc'[q] = proc[q]
  BY <1>1 DEF Export!Export, Export!Begins, Export!Stage, Export!Look, Export!Move, Export!Backup, Export!Install,
     Export!Undo, Export!Restore, Export!Drop, Export!Tidy, Export!Import, Export!ImportWrite, Export!Cut,
     Export!Over, Export!Goto, ExportInv, ExportTyped
<1>4. r = p
  BY <1>2, <1>3
<1>5. Own(p) /\ Sole(p) /\ Differs(p) /\ proc \in [Procs -> Frame] /\ bak[p] \in Kept /\ p \in DOMAIN ended
  BY <1>2 DEF ExportInv, ExportTyped, Undisturbed
<1>6. \A how : Export!Over(p, how) => ended'[p] = how
  BY <1>5 DEF Export!Over
<1>7. Taken(w.plan, Len(w.plan)) = {w.plan[i] : i \in DOMAIN w.plan}
  BY <1>2, Unplanned, TakenGrows
<1>8. CASE Export!Move(p)
  <2>1. w.at = "move" /\ ~Export!Goto(p, "tidy") /\ UNCHANGED bak
    BY <1>2, <1>5, <1>8 DEF Export!Move, Export!Goto, Frame
  <2>2. /\ dest.file = Export!None /\ dest' = [there |-> TRUE, file |-> staging[p]]
        /\ staging' = [staging EXCEPT ![p] = Export!Gone] /\ Export!Over(p, "ok")
    BY <1>8, <2>1 DEF Export!Move, Export!Bare
  <2>3. ended'[p] = "ok" /\ staging'[p] = Export!Gone
    BY <1>6, <2>2 DEF ExportInv, ExportTyped
  <2>4. \A f \in Export!Files : bak'[p][f] = 0
    BY <1>5, <2>1 DEF Own
  <2>5. /\ \A f \in Export!Files : dest'.file[f] = IF f \in Taken(w.plan, Len(w.plan)) THEN w.num ELSE 0
        /\ \A f \in Export!Files : before[p].file[f] = 0
    BY <1>5, <2>1, <2>2 DEF Own, Differs, Export!None
  <2> QED
    BY <1>7, <2>3, <2>4, <2>5 DEF Export!Whole
<1>9. CASE Export!Tidy(p)
  <2>1. /\ UNCHANGED <<dest, bak>> /\ w.at \in {"clear", "tidy"}
        /\ ended'[p] = IF w.at = "clear" THEN "ok" ELSE "failed"
    BY <1>6, <1>9 DEF Export!Tidy
  <2>2. staging'[p] = Export!Gone \/ fails' # fails
    <3>1. fails \in Nat
      BY RecordsAssumption DEF ExportInv, ExportTyped
    <3>2. staging'[p] = Export!Gone \/ Export!Fails
      BY <1>9, TidyLeaves DEF Export!Leaves
    <3> QED
      BY <3>1, <3>2 DEF Export!Fails
  <2>3. \A f \in Export!Files \ w.left : bak'[p][f] = 0
    BY <1>5, <2>1 DEF Own
  <2>4. CASE w.at = "clear"
    BY <1>5, <1>7, <2>1, <2>2, <2>3, <2>4 DEF Export!Whole, Differs
  <2>5. CASE w.at = "tidy"
    BY <1>5, <2>1, <2>2, <2>3, <2>5 DEF Export!Whole, Differs
  <2> QED
    BY <2>1, <2>4, <2>5
<1>10. CASE \E over \in BOOLEAN, plan \in Export!Plans : Export!Export(p, over, plan)
  BY <1>2, <1>10 DEF Export!Export, Export!Begins
<1>11. CASE Export!Look(p) \/ Export!Backup(p)
  BY <1>2, <1>5, <1>11 DEF Export!Look, Export!Backup, Export!Goto, Frame
<1>15. CASE Export!Undo(p)
  <2>1. ASSUME Export!Goto(p, "restore") PROVE FALSE
    BY <1>2, <1>5, <2>1 DEF Export!Goto, Frame
  <2>2. ASSUME NEW f, proc' = [proc EXCEPT ![p].installed = @ \ {f}] PROVE FALSE
    BY <1>2, <1>5, <2>2 DEF Frame
  <2>3. ASSUME NEW f, proc' = [proc EXCEPT ![p].installed = @ \ {f}, ![p].left = @ \cup {f}] PROVE FALSE
    BY <1>2, <1>5, <2>3 DEF Frame
  <2> QED
    BY <1>15, <2>1, <2>2, <2>3 DEF Export!Undo
<1>16. CASE Export!Restore(p)
  <2>1. ASSUME Export!Goto(p, "tidy") PROVE FALSE
    BY <1>2, <1>5, <2>1 DEF Export!Goto, Frame
  <2>2. ASSUME NEW f, proc' = [proc EXCEPT ![p].backups = @ \ {f}] PROVE FALSE
    BY <1>2, <1>5, <2>2 DEF Frame
  <2>3. ASSUME NEW f, proc' = [proc EXCEPT ![p].backups = @ \ {f}, ![p].left = @ \cup {f}] PROVE FALSE
    BY <1>2, <1>5, <2>3 DEF Frame
  <2> QED
    BY <1>16, <2>1, <2>2, <2>3 DEF Export!Restore
<1>17. CASE Export!Drop(p)
  <2>1. ASSUME Export!Goto(p, "clear") PROVE FALSE
    BY <1>2, <1>5, <2>1 DEF Export!Goto, Frame
  <2>2. ASSUME NEW f, proc' = [proc EXCEPT ![p].backups = @ \ {f}] PROVE FALSE
    BY <1>2, <1>5, <2>2 DEF Frame
  <2>3. ASSUME NEW f, proc' = [proc EXCEPT ![p].backups = @ \ {f}, ![p].left = @ \cup {f}] PROVE FALSE
    BY <1>2, <1>5, <2>3 DEF Frame
  <2> QED
    BY <1>17, <2>1, <2>2, <2>3 DEF Export!Drop
<1>12. CASE Export!Stage(p) \/ Export!Install(p)
  BY <1>2, <1>5, <1>12 DEF Export!Stage, Export!Install, Export!Goto, Frame
<1>13. CASE Export!Import(p) \/ Export!ImportWrite(p)
  BY <1>2, <1>13 DEF Export!Import, Export!Begins, Export!ImportWrite
<1>14. CASE Export!Cut(p)
  BY <1>2, <1>5, <1>14 DEF Export!Cut
<1> QED
  BY <1>1, <1>4, <1>8, <1>9, <1>10, <1>11, <1>12, <1>13, <1>14, <1>15, <1>16, <1>17

-----------------------------------------------------------------------------
(* Retries and dispatches *)

RetryCalls ==
  [at : {"idle", "note", "submit", "sleep", "record", "send", "stamp"},
   profile : Retried \cup {Nil}, read : 0..MaxTime, wake : 0..(MaxTime + Interval)]
RetryTyped ==
  /\ now \in 0..MaxTime /\ interval \in {0, Interval} /\ stamp \in 0..MaxTime \cup {Nil}
  /\ cooled \in [Retried -> 0..MaxTime \cup {Nil}]
  /\ retryJob \in [Retried -> {"none", "active", "retryable", "final"}]
  /\ op \in [Callers -> RetryCalls]
  /\ \A c \in Callers : op[c].at # "idle" => op[c].profile \in Retried
  /\ calls \in 0..MaxCalls /\ sentAt \in [Callers -> 0..MaxTime \cup {Nil}]
  /\ tooSoon \in BOOLEAN /\ hasty \in BOOLEAN /\ clash \in BOOLEAN

\* A caller that is not about to stamp its dispatch has had it stamped, by
\* itself or by a later one, so that it wakes, sends, an interval after it.
Spaced ==
  /\ stamp # Nil => stamp <= now
  /\ \A c \in Callers : sentAt[c] # Nil =>
       /\ sentAt[c] <= now
       /\ op[c].at # "stamp" => stamp # Nil /\ sentAt[c] <= stamp
       /\ op[c].at = "sleep" /\ interval # 0 => sentAt[c] + interval <= op[c].wake
       /\ op[c].at \in {"record", "send"} /\ interval # 0 => sentAt[c] + interval <= now

\* While no two retries have been between their check and their note, one at
\* a time is, and what it has checked still stands.
OneNotes ==
  ~clash => \A c \in Callers : op[c].at = "note" =>
    /\ \A d \in Callers : op[d].at = "note" => c = d
    /\ cooled[op[c].profile] # Nil => cooled[op[c].profile] + Window <= op[c].read

RetryInv == RetryTyped /\ Spaced /\ OneNotes /\ Retry!Paced

LEMMA RetryInit == Retry!Init => RetryInv
<1> SUFFICES ASSUME Retry!Init PROVE RetryInv
  OBVIOUS
<1> USE DEF Retry!Init, Retry!Idle
<1>1. /\ 0 \in 0..MaxTime /\ 0 \in 0..MaxCalls /\ 0 \in 0..(MaxTime + Interval)
  BY RecordsAssumption
<1>2. RetryTyped
  BY <1>1, Zenon DEF RetryTyped, RetryCalls
<1> QED
  BY <1>2 DEF RetryInv, Spaced, OneNotes, Retry!Paced

\* What a step of a caller does to the calls, and the types.
LEMMA RetryMoves ==
  ASSUME RetryTyped, NEW c \in Callers, NEW e \in RetryCalls,
         e.at # "idle" => e.profile \in Retried, op' = [op EXCEPT ![c] = e]
  PROVE  /\ op' \in [Callers -> RetryCalls] /\ op'[c] = e
         /\ \A d \in Callers : op'[d].at # "idle" => op'[d].profile \in Retried
         /\ \A d \in Callers : d # c => op'[d] = op[d]
BY DEF RetryTyped

LEMMA RetryGoes ==
  ASSUME RetryTyped, NEW c \in Callers, op[c].at # "idle",
         NEW l \in {"sleep", "record", "send", "stamp"}, NEW w \in 0..(MaxTime + Interval)
  PROVE  /\ [op[c] EXCEPT !.at = l] \in RetryCalls /\ [op[c] EXCEPT !.at = l, !.wake = w] \in RetryCalls
         /\ [op[c] EXCEPT !.at = l].profile = op[c].profile /\ op[c].profile \in Retried
         /\ [op[c] EXCEPT !.at = l, !.wake = w].profile = op[c].profile
BY DEF RetryTyped, RetryCalls

LEMMA RetryRests ==
  ASSUME NEW p \in Retried
  PROVE  /\ [at |-> "idle", profile |-> Nil, read |-> 0, wake |-> 0] \in RetryCalls
         /\ [at |-> "submit", profile |-> p, read |-> 0, wake |-> 0] \in RetryCalls
BY RecordsAssumption DEF RetryCalls

\* Each step keeps the types, and the two paces.
LEMMA RetryStep ==
  ASSUME RetryInv, Retry!Next
  PROVE  RetryInv'
<1>0. Nil \notin Nat /\ Window \in Nat /\ Interval \in Nat /\ MaxTime \in Nat /\ MaxCalls \in Nat
  BY RecordsAssumption
<1>i. RetryTyped /\ Spaced /\ OneNotes /\ Retry!Paced
  BY DEF RetryInv
<1>t. /\ now \in Nat /\ interval \in Nat /\ stamp \in Nat \cup {Nil}
      /\ \A p \in Retried : cooled[p] \in Nat \cup {Nil}
      /\ \A c \in Callers : /\ op[c].read \in 0..MaxTime /\ op[c].wake \in Nat
                            /\ sentAt[c] \in Nat \cup {Nil}
                            /\ op[c].at # "idle" => op[c].profile \in Retried
  BY <1>0, <1>i DEF RetryTyped, RetryCalls
<1>1. CASE Retry!Tick
  <2>1. RetryTyped'
    BY <1>0, <1>i, <1>1 DEF Retry!Tick, RetryTyped, Retry!pace, Retry!seen
  <2>2. Spaced'
    BY <1>0, <1>i, <1>t, <1>1 DEF Retry!Tick, Spaced, Retry!pace, Retry!seen
  <2>3. OneNotes' /\ Retry!Paced'
    BY <1>i, <1>1 DEF Retry!Tick, OneNotes, Retry!Paced, Retry!seen
  <2> QED
    BY <2>1, <2>2, <2>3 DEF RetryInv
<1>2. CASE Retry!Reconfigure
  <2>1. RetryTyped'
    BY <1>0, <1>i, <1>2 DEF Retry!Reconfigure, RetryTyped, Retry!seen
  <2>2. \A c \in Callers : op[c].at = "idle"
    BY <1>2 DEF Retry!Reconfigure, Retry!Idle
  <2>3. Spaced'
    BY <1>i, <2>2, <1>2 DEF Retry!Reconfigure, Spaced, Retry!seen
  <2>4. OneNotes' /\ Retry!Paced'
    BY <1>i, <1>2 DEF Retry!Reconfigure, OneNotes, Retry!Paced, Retry!seen
  <2> QED
    BY <2>1, <2>3, <2>4 DEF RetryInv
<1>3. ASSUME NEW p \in Retried, Retry!JobEnds(p)
      PROVE  RetryInv'
  <2>1. RetryTyped'
    BY <1>i, <1>3 DEF Retry!JobEnds, RetryTyped, Retry!pace, Retry!seen
  <2>2. Spaced' /\ OneNotes' /\ Retry!Paced'
    BY <1>i, <1>3 DEF Retry!JobEnds, Spaced, OneNotes, Retry!Paced, Retry!pace, Retry!seen
  <2> QED
    BY <2>1, <2>2 DEF RetryInv
<1>4. ASSUME NEW c \in Callers, NEW p \in Retried, Retry!Retry(c, p)
      PROVE  RetryInv'
  <2> DEFINE e == [at |-> "note", profile |-> p, read |-> now, wake |-> 0]
  <2>1. /\ op' = [op EXCEPT ![c] = e] /\ op[c].at = "idle" /\ calls < MaxCalls /\ calls' = calls + 1
        /\ ~Retry!Within(cooled[p], Window)
        /\ clash' = (clash \/ \E o \in Callers : op[o].at = "note")
        /\ UNCHANGED <<now, interval, stamp, cooled, retryJob, sentAt, tooSoon, hasty>>
    BY <1>4 DEF Retry!Retry, Retry!Opens, Retry!pace, Retry!seen
  <2>2. e \in RetryCalls /\ e.profile = p /\ e.at = "note" /\ e.read = now
    BY <1>0, <1>i DEF RetryTyped, RetryCalls
  <2> HIDE DEF e
  <2>3. /\ op' \in [Callers -> RetryCalls] /\ op'[c] = e
        /\ \A d \in Callers : op'[d].at # "idle" => op'[d].profile \in Retried
        /\ \A d \in Callers : d # c => op'[d] = op[d]
    BY <1>i, <2>1, <2>2, RetryMoves
  <2>4. RetryTyped'
    BY <1>0, <1>i, <2>1, <2>3 DEF RetryTyped
  <2>5. Spaced'
    BY <1>i, <2>1, <2>2, <2>3 DEF Spaced
  <2>6. OneNotes'
    <3> SUFFICES ASSUME ~clash', NEW d \in Callers, op'[d].at = "note"
                 PROVE  /\ \A o \in Callers : op'[o].at = "note" => d = o
                        /\ cooled'[op'[d].profile] # Nil => cooled'[op'[d].profile] + Window <= op'[d].read
      BY DEF OneNotes
    <3>1. ~clash /\ \A o \in Callers : op[o].at # "note"
      BY <2>1
    <3>2. \A o \in Callers : op'[o].at = "note" => o = c
      BY <2>3, <3>1
    <3>3. cooled[p] # Nil => cooled[p] + Window <= now
      BY <1>0, <1>t, <2>1 DEF Retry!Within
    <3> QED
      BY <2>1, <2>2, <2>3, <3>2, <3>3
  <2> QED
    BY <1>i, <2>1, <2>4, <2>5, <2>6 DEF RetryInv, Retry!Paced
<1>5. ASSUME NEW c \in Callers, Retry!NoteRetry(c)
      PROVE  RetryInv'
  <2> DEFINE p == op[c].profile
             e == [at |-> "submit", profile |-> p, read |-> 0, wake |-> 0]
  <2>1. /\ op[c].at = "note" /\ op' = [op EXCEPT ![c] = e]
        /\ cooled' = [cooled EXCEPT ![p] = op[c].read]
        /\ hasty' = (hasty \/ (cooled[p] # Nil /\ op[c].read < cooled[p] + Window))
        /\ UNCHANGED <<now, interval, stamp, retryJob, calls, sentAt, tooSoon, clash>>
    BY <1>5 DEF Retry!NoteRetry, Retry!pace, Retry!seen
  <2>2. p \in Retried /\ op[c].read \in 0..MaxTime
    BY <1>t, <2>1
  <2>3. e \in RetryCalls /\ e.profile = p /\ e.at = "submit"
    BY <2>2, RetryRests
  <2> HIDE DEF e
  <2>4. /\ op' \in [Callers -> RetryCalls] /\ op'[c] = e
        /\ \A d \in Callers : op'[d].at # "idle" => op'[d].profile \in Retried
        /\ \A d \in Callers : d # c => op'[d] = op[d]
    BY <1>i, <2>1, <2>2, <2>3, RetryMoves
  <2>5. ~clash => \A d \in Callers : op[d].at = "note" => d = c
    BY <1>i, <2>1 DEF OneNotes
  <2>6. RetryTyped'
    <3>1. hasty' \in BOOLEAN
      BY <2>1
    <3>2. cooled' \in [Retried -> 0..MaxTime \cup {Nil}]
      BY <1>i, <2>1, <2>2 DEF RetryTyped
    <3> QED
      BY <1>i, <2>1, <2>4, <3>1, <3>2 DEF RetryTyped
  <2>7. Spaced'
    BY <1>i, <2>1, <2>3, <2>4 DEF Spaced
  <2>8. OneNotes'
    BY <2>1, <2>3, <2>4, <2>5 DEF OneNotes
  <2>9. hasty' => clash'
    <3>1. ~clash /\ cooled[p] # Nil => cooled[p] + Window <= op[c].read
      BY <1>i, <2>1 DEF OneNotes
    <3>2. cooled[p] \in Nat \cup {Nil} /\ op[c].read \in Nat
      BY <1>0, <1>t, <2>2
    <3>3. cooled[p] # Nil /\ op[c].read < cooled[p] + Window => clash
      <4> HIDE DEF p
      <4> QED
        BY <1>0, <3>1, <3>2
    <3>4. hasty => clash
      BY <1>i DEF Retry!Paced
    <3> QED
      BY <2>1, <3>3, <3>4, Zenon
  <2> QED
    BY <1>i, <2>1, <2>6, <2>7, <2>8, <2>9 DEF RetryInv, Retry!Paced
\* The other steps of a caller leave the retries as they are.
<1>6. ASSUME NEW c \in Callers, NEW e \in RetryCalls, e.at # "idle" => e.profile \in Retried,
             e.at # "note", op' = [op EXCEPT ![c] = e], RetryTyped', Spaced', ~tooSoon',
             UNCHANGED <<cooled, hasty, clash>>
      PROVE  RetryInv'
  <2>1. op'[c] = e /\ \A d \in Callers : d # c => op'[d] = op[d]
    BY <1>i, <1>6, RetryMoves
  <2>2. OneNotes'
    BY <1>i, <1>6, <2>1 DEF OneNotes
  <2> QED
    BY <1>i, <1>6, <2>2 DEF RetryInv, Retry!Paced
<1>7. ASSUME NEW c \in Callers, NEW p \in Retried, Retry!Submit(c, p)
      PROVE  RetryInv'
  <2> DEFINE e == [at |-> "submit", profile |-> p, read |-> 0, wake |-> 0]
  <2>1. /\ op' = [op EXCEPT ![c] = e] /\ op[c].at = "idle" /\ calls < MaxCalls /\ calls' = calls + 1
        /\ UNCHANGED <<now, interval, stamp, cooled, retryJob, sentAt, tooSoon, hasty, clash>>
    BY <1>7 DEF Retry!Submit, Retry!Opens, Retry!pace, Retry!seen
  <2>2. e \in RetryCalls /\ e.profile = p /\ e.at = "submit"
    BY RetryRests
  <2> HIDE DEF e
  <2>3. /\ op' \in [Callers -> RetryCalls] /\ op'[c] = e
        /\ \A d \in Callers : op'[d].at # "idle" => op'[d].profile \in Retried
        /\ \A d \in Callers : d # c => op'[d] = op[d]
    BY <1>i, <2>1, <2>2, RetryMoves
  <2>4. RetryTyped'
    BY <1>0, <1>i, <2>1, <2>3 DEF RetryTyped
  <2>5. Spaced'
    BY <1>i, <2>1, <2>2, <2>3 DEF Spaced
  <2> QED
    BY <1>6, <1>i, <2>1, <2>2, <2>4, <2>5 DEF Retry!Paced
<1>8. ASSUME NEW c \in Callers, Retry!Occupied(c)
      PROVE  RetryInv'
  <2> DEFINE e == [at |-> "idle", profile |-> Nil, read |-> 0, wake |-> 0]
  <2>1. /\ op' = [op EXCEPT ![c] = e] /\ op[c].at \in {"submit", "record"}
        /\ UNCHANGED <<now, interval, stamp, cooled, retryJob, calls, sentAt, tooSoon, hasty, clash>>
    BY <1>8 DEF Retry!Occupied, Retry!Back, Retry!Idle, Retry!pace, Retry!seen
  <2>2. e \in RetryCalls /\ e.at = "idle"
    BY <1>t, <2>1, RetryRests
  <2> HIDE DEF e
  <2>3. /\ op' \in [Callers -> RetryCalls] /\ op'[c] = e
        /\ \A d \in Callers : op'[d].at # "idle" => op'[d].profile \in Retried
        /\ \A d \in Callers : d # c => op'[d] = op[d]
    BY <1>i, <2>1, <2>2, RetryMoves
  <2>4. RetryTyped' /\ Spaced'
    BY <1>i, <2>1, <2>2, <2>3 DEF RetryTyped, Spaced
  <2> QED
    BY <1>6, <1>i, <2>1, <2>2, <2>4 DEF Retry!Paced
<1>9. ASSUME NEW c \in Callers, Retry!WaitInterval(c)
      PROVE  RetryInv'
  <2> DEFINE e == [op[c] EXCEPT !.at = "sleep", !.wake = Retry!WakesAt]
  <2>1. /\ op' = [op EXCEPT ![c] = e] /\ op[c].at = "submit"
        /\ UNCHANGED <<now, interval, stamp, cooled, retryJob, calls, sentAt, tooSoon, hasty, clash>>
    BY <1>9 DEF Retry!WaitInterval, Retry!pace, Retry!seen
  <2>2. /\ Retry!WakesAt \in 0..(MaxTime + Interval)
        /\ stamp # Nil /\ interval # 0 => stamp + interval <= Retry!WakesAt
    BY <1>0, <1>t, <1>i DEF Retry!WakesAt, Retry!Within, RetryTyped
  <2>3. e \in RetryCalls /\ e.at = "sleep" /\ e.wake = Retry!WakesAt /\ e.profile \in Retried
    <3>1. e \in RetryCalls /\ e.profile = op[c].profile /\ op[c].profile \in Retried
      BY <1>i, <2>1, <2>2, RetryGoes
    <3>2. e.at = "sleep" /\ e.wake = Retry!WakesAt
      BY <1>i DEF RetryTyped, RetryCalls
    <3> QED
      BY <3>1, <3>2, SMTT(30)
  <2> HIDE DEF e
  <2>4. /\ op' \in [Callers -> RetryCalls] /\ op'[c] = e
        /\ \A d \in Callers : op'[d].at # "idle" => op'[d].profile \in Retried
        /\ \A d \in Callers : d # c => op'[d] = op[d]
    BY <1>i, <2>1, <2>3, RetryMoves
  <2>5. RetryTyped'
    BY <1>i, <2>1, <2>4 DEF RetryTyped
  <2>6. Spaced'
    BY <1>0, <1>t, <1>i, <2>1, <2>2, <2>3, <2>4 DEF Spaced
  <2> QED
    BY <1>6, <1>i, <2>1, <2>3, <2>5, <2>6 DEF Retry!Paced
<1>10. ASSUME NEW c \in Callers, Retry!Wake(c)
       PROVE  RetryInv'
  <2> DEFINE e == [op[c] EXCEPT !.at = "record", !.wake = 0]
  <2>1. /\ op' = [op EXCEPT ![c] = e] /\ op[c].at = "sleep" /\ op[c].wake <= now
        /\ UNCHANGED <<now, interval, stamp, cooled, retryJob, calls, sentAt, tooSoon, hasty, clash>>
    BY <1>t, <1>10 DEF Retry!Wake, Retry!pace, Retry!seen
  <2>2. e \in RetryCalls /\ e.at = "record" /\ e.profile \in Retried
    <3>1. 0 \in 0..(MaxTime + Interval)
      BY <1>0
    <3>2. e \in RetryCalls /\ e.profile = op[c].profile /\ op[c].profile \in Retried
      BY <1>i, <2>1, <3>1, RetryGoes
    <3>3. e.at = "record"
      BY <1>i DEF RetryTyped, RetryCalls
    <3> QED
      BY <3>2, <3>3
  <2> HIDE DEF e
  <2>3. /\ op' \in [Callers -> RetryCalls] /\ op'[c] = e
        /\ \A d \in Callers : op'[d].at # "idle" => op'[d].profile \in Retried
        /\ \A d \in Callers : d # c => op'[d] = op[d]
    BY <1>i, <2>1, <2>2, RetryMoves
  <2>4. RetryTyped'
    BY <1>i, <2>1, <2>3 DEF RetryTyped
  <2>5. Spaced'
    BY <1>0, <1>t, <1>i, <2>1, <2>2, <2>3 DEF Spaced
  <2> QED
    BY <1>6, <1>i, <2>1, <2>2, <2>4, <2>5 DEF Retry!Paced
<1>11. ASSUME NEW c \in Callers, Retry!Record(c)
       PROVE  RetryInv'
  <2> DEFINE e == [op[c] EXCEPT !.at = "send"]
  <2>1. /\ op' = [op EXCEPT ![c] = e] /\ op[c].at = "record"
        /\ retryJob' = [retryJob EXCEPT ![op[c].profile] = "active"]
        /\ UNCHANGED <<now, interval, stamp, cooled, calls, sentAt, tooSoon, hasty, clash>>
    BY <1>11 DEF Retry!Record, Retry!Go, Retry!pace, Retry!seen
  <2>2. e \in RetryCalls /\ e.at = "send" /\ e.profile \in Retried
    <3>1. 0 \in 0..(MaxTime + Interval)
      BY <1>0
    <3>2. e \in RetryCalls /\ e.profile = op[c].profile /\ op[c].profile \in Retried
      BY <1>i, <2>1, <3>1, RetryGoes
    <3>3. e.at = "send"
      BY <1>i DEF RetryTyped, RetryCalls
    <3> QED
      BY <3>2, <3>3, SMTT(30)
  <2> HIDE DEF e
  <2>3. /\ op' \in [Callers -> RetryCalls] /\ op'[c] = e
        /\ \A d \in Callers : op'[d].at # "idle" => op'[d].profile \in Retried
        /\ \A d \in Callers : d # c => op'[d] = op[d]
    BY <1>i, <2>1, <2>2, RetryMoves
  <2>4. RetryTyped'
    BY <1>i, <2>1, <2>3 DEF RetryTyped
  <2>5. Spaced'
    BY <1>i, <2>1, <2>2, <2>3 DEF Spaced
  <2> QED
    BY <1>6, <1>i, <2>1, <2>2, <2>4, <2>5 DEF Retry!Paced
<1>12. ASSUME NEW c \in Callers, Retry!Send(c)
       PROVE  RetryInv'
  <2>0. 0 \in 0..(MaxTime + Interval) /\ op[c].at = "send"
        /\ UNCHANGED <<now, interval, stamp, cooled, retryJob, calls, hasty, clash>>
    BY <1>0, <1>12 DEF Retry!Send, Retry!pace
  <2>1. CASE Retry!Back(c) /\ UNCHANGED Retry!seen
    <3> DEFINE e == [at |-> "idle", profile |-> Nil, read |-> 0, wake |-> 0]
    <3>1. op' = [op EXCEPT ![c] = e] /\ UNCHANGED <<sentAt, tooSoon>>
      BY <2>1 DEF Retry!Back, Retry!Idle, Retry!seen
    <3>2. e \in RetryCalls /\ e.at = "idle"
      BY <1>t, <2>0, RetryRests
    <3> HIDE DEF e
    <3>3. /\ op' \in [Callers -> RetryCalls] /\ op'[c] = e
          /\ \A d \in Callers : op'[d].at # "idle" => op'[d].profile \in Retried
          /\ \A d \in Callers : d # c => op'[d] = op[d]
      BY <1>i, <3>1, <3>2, RetryMoves
    <3>4. RetryTyped' /\ Spaced'
      BY <1>i, <2>0, <3>1, <3>2, <3>3 DEF RetryTyped, Spaced
    <3> QED
      BY <1>6, <1>i, <2>0, <3>1, <3>2, <3>4 DEF Retry!Paced
  <2>2. CASE /\ sentAt' = [sentAt EXCEPT ![c] = now] /\ Retry!Go(c, "stamp")
             /\ tooSoon' = (tooSoon \/ (interval # 0 /\ Retry!Within(sentAt[c], interval)))
    <3> DEFINE e == [op[c] EXCEPT !.at = "stamp"]
    <3>1. op' = [op EXCEPT ![c] = e]
      BY <2>2 DEF Retry!Go
    <3>2. e \in RetryCalls /\ e.at = "stamp" /\ e.profile \in Retried
      <4>1. e \in RetryCalls /\ e.profile = op[c].profile /\ op[c].profile \in Retried
        BY <1>i, <2>0, RetryGoes
      <4>2. e.at = "stamp"
        BY <1>i DEF RetryTyped, RetryCalls
      <4> QED
        BY <4>1, <4>2
    <3> HIDE DEF e
    <3>3. /\ op' \in [Callers -> RetryCalls] /\ op'[c] = e
          /\ \A d \in Callers : op'[d].at # "idle" => op'[d].profile \in Retried
          /\ \A d \in Callers : d # c => op'[d] = op[d]
      BY <1>i, <3>1, <3>2, RetryMoves
    <3>4. ~tooSoon'
      <4>1. sentAt[c] # Nil /\ interval # 0 => sentAt[c] + interval <= now
        BY <1>i, <2>0 DEF Spaced
      <4>2. ~(interval # 0 /\ Retry!Within(sentAt[c], interval))
        BY <1>0, <1>t, <4>1 DEF Retry!Within
      <4> QED
        BY <1>i, <2>2, <4>2, Zenon DEF Retry!Paced
    <3>5. RetryTyped'
      BY <1>i, <2>0, <2>2, <3>3, <3>4 DEF RetryTyped
    <3>6. Spaced'
      BY <1>0, <1>t, <1>i, <2>0, <2>2, <3>2, <3>3 DEF Spaced, RetryTyped
    <3> QED
      BY <1>6, <2>0, <3>1, <3>2, <3>4, <3>5, <3>6
  <2> QED
    BY <1>12, <2>1, <2>2 DEF Retry!Send
<1>13. ASSUME NEW c \in Callers, Retry!Stamp(c)
       PROVE  RetryInv'
  <2> DEFINE e == [at |-> "idle", profile |-> Nil, read |-> 0, wake |-> 0]
  <2>1. /\ op' = [op EXCEPT ![c] = e] /\ op[c].at = "stamp" /\ stamp' = now
        /\ UNCHANGED <<now, interval, cooled, retryJob, calls, sentAt, tooSoon, hasty, clash>>
    BY <1>13 DEF Retry!Stamp, Retry!Back, Retry!Idle, Retry!seen
  <2>2. e \in RetryCalls /\ e.at = "idle"
    BY <1>t, <2>1, RetryRests
  <2> HIDE DEF e
  <2>3. /\ op' \in [Callers -> RetryCalls] /\ op'[c] = e
        /\ \A d \in Callers : op'[d].at # "idle" => op'[d].profile \in Retried
        /\ \A d \in Callers : d # c => op'[d] = op[d]
    BY <1>i, <2>1, <2>2, RetryMoves
  <2>4. RetryTyped'
    BY <1>i, <2>1, <2>3 DEF RetryTyped
  <2>5. Spaced'
    BY <1>0, <1>t, <1>i, <2>1, <2>2, <2>3 DEF Spaced
  <2> QED
    BY <1>6, <1>i, <2>1, <2>2, <2>4, <2>5 DEF Retry!Paced
<1> QED
  BY <1>1, <1>2, <1>3, <1>4, <1>5, <1>7, <1>8, <1>9, <1>10, <1>11, <1>12, <1>13 DEF Retry!Next

LEMMA RetryMeans ==
  ASSUME RetryInv
  PROVE  Retry!TypeOK /\ Retry!Paced
<1>1. \A c \in Callers :
        /\ op[c].at \in {"idle", "note", "submit", "sleep", "record", "send", "stamp"}
        /\ op[c].profile \in Retried \cup {Nil}
        /\ op[c].read \in 0..MaxTime /\ op[c].wake \in 0..(MaxTime + Interval)
  BY DEF RetryInv, RetryTyped, RetryCalls
<1> QED
  BY <1>1, Zenon DEF RetryInv, RetryTyped, Retry!TypeOK, Retry!Times

-----------------------------------------------------------------------------
(* Parks *)

\* While no two writes have overlapped and none was cut short there is one at a
\* time; it has read every park that was answered, and they are in the file
\* unless it is just being written.
OneParks ==
  /\ \A v, w \in Park!Writers : Park!AtWork(v) /\ Park!AtWork(w) => v = w
  /\ \A w \in Park!Writers : parker[w].at \in {"truncate", "write"} => parks \subseteq parker[w].seen
  /\ (\A w \in Park!Writers : parker[w].at # "write") => file.whole /\ parks \subseteq file.parked

ParkInv == Park!TypeOK /\ (~spoilt /\ parkCuts = 0 => OneParks)

LEMMA ParkInit == Park!Init => ParkInv
<1> SUFFICES ASSUME Park!Init PROVE ParkInv
  OBVIOUS
<1> USE DEF Park!Init, Park!Idle
<1>0. 0 \in 0..MaxCuts /\ [w \in Park!Writers |-> Park!Idle] \in
        [Park!Writers -> [at : {"idle", "load", "truncate", "write", "done"}, seen : SUBSET Jobs]]
  BY RecordsAssumption
<1>1. Park!TypeOK
  BY <1>0 DEF Park!TypeOK
<1>2. OneParks
  BY DEF OneParks, Park!AtWork
<1> QED
  BY <1>1, <1>2 DEF ParkInv

LEMMA ParkStep ==
  ASSUME ParkInv, Park!Next
  PROVE  ParkInv'
<1>0. MaxCuts \in Nat
  BY RecordsAssumption
<1>i. Park!TypeOK /\ (~spoilt /\ parkCuts = 0 => OneParks)
  BY DEF ParkInv
<1>1. ASSUME NEW w \in Park!Writers, Park!Starts(w), UNCHANGED <<file, parkJob, parks, parkCuts>>
      PROVE  ParkInv'
  <2>1. Park!TypeOK'
    BY <1>i, <1>1 DEF Park!TypeOK, Park!Starts, Park!To
  <2>2. ~spoilt' => ~spoilt /\ \A v \in Park!Writers \ {w} : ~Park!AtWork(v)
    BY <1>1 DEF Park!Starts
  <2>3. /\ parker[w].at = "idle" /\ parker'[w].at = "load"
        /\ \A v \in Park!Writers \ {w} : parker'[v] = parker[v]
    BY <1>i, <1>1 DEF Park!TypeOK, Park!Starts, Park!To
  <2>4. ~spoilt' /\ parkCuts' = 0 => OneParks'
    BY <1>i, <1>1, <2>2, <2>3 DEF OneParks, Park!AtWork
  <2> QED
    BY <2>1, <2>4 DEF ParkInv
<1>2. ASSUME NEW w \in Park!Writers, Park!Load(w)
      PROVE  ParkInv'
  <2>1. /\ parker[w].at = "load" /\ parker'[w] = [at |-> "truncate", seen |-> Park!Read]
        /\ \A v \in Park!Writers \ {w} : parker'[v] = parker[v]
        /\ UNCHANGED <<file, parkJob, parks, spoilt, parkCuts>>
    BY <1>i, <1>2 DEF Park!TypeOK, Park!Load
  <2>2. Park!TypeOK'
    BY <1>i, <1>2 DEF Park!TypeOK, Park!Load, Park!Read
  <2>3. ASSUME ~spoilt, parkCuts = 0
        PROVE  OneParks'
    <3>1. \A v \in Park!Writers : parker[v].at # "write"
      BY <1>i, <2>1, <2>3 DEF OneParks, Park!AtWork
    <3>2. parks \subseteq Park!Read
      BY <1>i, <2>3, <3>1 DEF OneParks, Park!Read
    <3> QED
      BY <1>i, <2>1, <2>3, <3>2 DEF OneParks, Park!AtWork
  <2> QED
    BY <2>1, <2>2, <2>3 DEF ParkInv
<1>3. ASSUME NEW w \in Park!Writers, Park!Truncate(w)
      PROVE  ParkInv'
  <2>1. /\ parker[w].at = "truncate" /\ parker'[w].at = "write" /\ parker'[w].seen = parker[w].seen
        /\ \A v \in Park!Writers \ {w} : parker'[v] = parker[v]
        /\ UNCHANGED <<parkJob, parks, spoilt, parkCuts>>
    BY <1>i, <1>3 DEF Park!TypeOK, Park!Truncate, Park!To
  <2>2. Park!TypeOK'
    BY <1>i, <1>3 DEF Park!TypeOK, Park!Truncate, Park!To
  <2>3. ~spoilt /\ parkCuts = 0 => OneParks'
    BY <1>i, <2>1 DEF OneParks, Park!AtWork
  <2> QED
    BY <2>1, <2>2, <2>3 DEF ParkInv
<1>4. ASSUME NEW w \in Park!Writers, Park!Write(w)
      PROVE  ParkInv'
  <2>1. /\ parker[w].at = "write" /\ parker'[w].at = "done"
        /\ \A v \in Park!Writers \ {w} : parker'[v] = parker[v]
        /\ file' = [whole |-> TRUE, parked |-> parker[w].seen \cup {parkJob[w[1]]}]
        /\ parks' \subseteq parks \cup {parkJob[w[1]]}
        /\ UNCHANGED <<parkJob, spoilt, parkCuts>>
    BY <1>i, <1>4 DEF Park!TypeOK, Park!Write, Park!With, Park!To
  <2>2. Park!TypeOK'
    <3>1. parkJob[w[1]] \in Jobs /\ parker[w].seen \subseteq Jobs
      BY <1>i DEF Park!TypeOK, Park!Writers
    <3>2. parker' \in [Park!Writers -> [at : {"idle", "load", "truncate", "write", "done"}, seen : SUBSET Jobs]]
      BY <1>i, <1>4 DEF Park!TypeOK, Park!Write, Park!To
    <3> QED
      BY <1>i, <2>1, <3>1, <3>2 DEF Park!TypeOK
  <2>3. ~spoilt /\ parkCuts = 0 => OneParks'
    BY <1>i, <2>1 DEF OneParks, Park!AtWork
  <2> QED
    BY <2>1, <2>2, <2>3 DEF ParkInv
<1>5. ASSUME NEW w \in Park!Writers, Park!Cut(w)
      PROVE  ParkInv'
  <2>1. Park!TypeOK'
    BY <1>0, <1>i, <1>5 DEF Park!TypeOK, Park!Cut, Park!To
  <2>2. parkCuts' # 0
    BY <1>0, <1>i, <1>5 DEF Park!TypeOK, Park!Cut
  <2> QED
    BY <2>1, <2>2 DEF ParkInv
<1>6. ASSUME NEW c \in Calls, Park!Request(c) \/ Park!FallBack(c)
      PROVE  ParkInv'
  <2>1. << c, "hub" >> \in Park!Writers /\ << c, "desktop" >> \in Park!Writers
    BY DEF Park!Writers
  <2> QED
    BY <1>1, <1>6, <2>1 DEF Park!Request, Park!FallBack
<1> QED
  BY <1>2, <1>3, <1>4, <1>5, <1>6 DEF Park!Next

LEMMA ParkMeans ==
  ASSUME ParkInv
  PROVE  Park!TypeOK /\ Park!ParkStays
BY DEF ParkInv, OneParks, Park!ParkStays, Park!Shown, Park!Read

-----------------------------------------------------------------------------
(* Clicks *)

\* The catalog keeps one record of a version.
Shelf ==
  /\ shelf \in Seq(Clicks!Releases)
  /\ \A i, j \in 1..Len(shelf) : i # j => shelf[i].version # shelf[j].version

Click   == [version : Versions, digest : Digests]
HubCall == [at : {"none", "resolve", "wait", "record", "send", "sent", "refused"},
            version : Versions \cup {Nil}, digest : Digests \cup {Nil}]
HubJob  == [click : Clicks!Clicks, version : Versions, digest : Digests,
            state : {"active", "retryable", "ended"}]

ClicksTyped ==
  /\ Shelf /\ acked \subseteq Digests /\ edits \in 0..MaxChanges
  /\ clicks \in Seq(Click) /\ Len(clicks) <= MaxClicks /\ desk \in 0..Len(clicks)
  /\ marks \subseteq Versions \X Digests
  /\ request \in [Clicks!Clicks -> HubCall] /\ jobs \in Seq(HubJob)

\* A call of the hub is of its click's release, and past its resolution the
\* client has that.
Asked ==
  \A k \in Clicks!Clicks : request[k].at # "none" =>
    /\ k \in 1..Len(clicks)
    /\ request[k].version = clicks[k].version /\ request[k].digest = clicks[k].digest
    /\ request[k].at \in {"wait", "record", "send", "sent"} => request[k].digest \in acked

\* So is a job of its click's, and one at a time is active.
Recorded ==
  /\ \A i \in 1..Len(jobs) :
       /\ jobs[i].click \in 1..Len(clicks)
       /\ jobs[i].version = clicks[jobs[i].click].version
       /\ jobs[i].digest = clicks[jobs[i].click].digest /\ jobs[i].digest \in acked
  /\ \A i, j \in 1..Len(jobs) : jobs[i].state = "active" /\ jobs[j].state = "active" => i = j

ClicksInv == ClicksTyped /\ Asked /\ Recorded

LEMMA ClicksInit == Clicks!Init => ClicksInv
<1> SUFFICES ASSUME Clicks!Init PROVE ClicksInv
  OBVIOUS
<1> USE DEF Clicks!Init, Clicks!NoCall
<1>1. 0 \in 0..MaxChanges /\ 0 <= MaxClicks
  BY RecordsAssumption
<1>2. [at |-> "none", version |-> Nil, digest |-> Nil] \in HubCall
  BY DEF HubCall
<1>3. ClicksTyped
  BY <1>1, <1>2 DEF ClicksTyped, Shelf
<1>4. Asked /\ Recorded
  BY DEF Asked, Recorded
<1> QED
  BY <1>3, <1>4 DEF ClicksInv

\* What is packed replaces the record of its version.
LEMMA ShelfPacks ==
  ASSUME Shelf, NEW v \in Versions, NEW d \in Digests, NEW b \in BOOLEAN, Clicks!Pack(v, d, b)
  PROVE  Shelf'
<1> DEFINE w == Clicks!Without(v)
           e == [version |-> v, digest |-> d, published |-> b]
<1>0. Len(shelf) \in Nat /\ DOMAIN shelf = 1..Len(shelf) /\ e \in Clicks!Releases /\ e.version = v
  BY DEF Shelf, Clicks!Releases
<1>1. /\ w \in Seq(Clicks!Releases)
      /\ \A i, j \in 1..Len(w) : i # j => w[i].version # w[j].version
      /\ \A i \in 1..Len(w) : w[i].version # v
  <2>1. CASE Clicks!Of(v) = {}
    BY <1>0, <2>1 DEF Shelf, Clicks!Without, Clicks!Of
  <2>2. CASE Clicks!Of(v) # {}
    <3> DEFINE i == CHOOSE i \in Clicks!Of(v) : TRUE
    <3>1. i \in 1..Len(shelf) /\ shelf[i].version = v
      BY <1>0, <2>2 DEF Clicks!Of
    <3>2. w = Removed(shelf, i)
      BY <2>2 DEF Clicks!Without, Removed
    <3> HIDE DEF i, w
    <3>3. /\ w \in Seq(Clicks!Releases) /\ Len(w) = Len(shelf) - 1
          /\ \A j \in 1..Len(w) : w[j] = IF j < i THEN shelf[j] ELSE shelf[j + 1]
      <4>1. shelf \in Seq(Clicks!Releases) /\ i \in 1..Len(shelf)
        BY <3>1 DEF Shelf
      <4> QED
        BY <3>2, <4>1, RemovedAt
    <3>4. \A j \in 1..Len(w) : /\ (IF j < i THEN j ELSE j + 1) \in 1..Len(shelf)
                              /\ (IF j < i THEN j ELSE j + 1) # i
                              /\ w[j] = shelf[IF j < i THEN j ELSE j + 1]
      BY <1>0, <3>1, <3>3
    <3>5. ASSUME NEW j \in 1..Len(w) PROVE w[j].version # v
      BY <3>1, <3>4, <3>5 DEF Shelf
    <3>6. ASSUME NEW j \in 1..Len(w), NEW k \in 1..Len(w), j # k PROVE w[j].version # w[k].version
      <4>1. (IF j < i THEN j ELSE j + 1) # (IF k < i THEN k ELSE k + 1)
        BY <1>0, <3>1, <3>3, <3>6
      <4> QED
        BY <3>4, <4>1 DEF Shelf
    <3> QED
      BY <3>3, <3>5, <3>6
  <2> QED
    BY <2>1, <2>2
<1>2. shelf' = Append(w, e)
  BY DEF Clicks!Pack
<1> HIDE DEF w, e
<1>3. /\ shelf' \in Seq(Clicks!Releases) /\ Len(shelf') = Len(w) + 1
      /\ \A i \in 1..Len(w) : shelf'[i] = w[i]
      /\ shelf'[Len(w) + 1] = e
  BY <1>0, <1>1, <1>2
<1> QED
  BY <1>0, <1>1, <1>3 DEF Shelf

LEMMA ShelfPublishes ==
  ASSUME Shelf, NEW v \in Versions, Clicks!Publish(v)
  PROVE  Shelf'
<1>0. Len(shelf) \in Nat /\ DOMAIN shelf = 1..Len(shelf) /\ shelf \in Seq(Clicks!Releases)
      /\ \A i \in 1..Len(shelf) : shelf[i] \in Clicks!Releases
  BY DEF Shelf
<1>1. PICK i \in Clicks!Of(v) : shelf' = [shelf EXCEPT ![i].published = TRUE]
  BY DEF Clicks!Publish
<1> DEFINE e == [shelf[i] EXCEPT !.published = TRUE]
<1>2. i \in 1..Len(shelf) /\ e \in Clicks!Releases /\ e.version = shelf[i].version
  BY <1>0 DEF Clicks!Of, Clicks!Releases
<1>3. shelf' = [shelf EXCEPT ![i] = e]
  BY <1>1
<1> HIDE DEF e
<1>4. /\ shelf' \in Seq(Clicks!Releases) /\ Len(shelf') = Len(shelf)
      /\ \A j \in 1..Len(shelf) : shelf'[j] = IF j = i THEN e ELSE shelf[j]
  BY <1>0, <1>2, <1>3, Replaced
<1> QED
  BY <1>0, <1>2, <1>4 DEF Shelf

\* A click opens a call of the hub for a release, or for the job it retries.
LEMMA ClickOpens ==
  ASSUME ClicksInv, NEW r, r.version \in Versions, r.digest \in Digests, Clicks!Opens(r),
         marks' \subseteq Versions \X Digests
  PROVE  ClicksInv'
<1> DEFINE n == Len(clicks) + 1
           c == [version |-> r.version, digest |-> r.digest]
           e == [at |-> "resolve", version |-> r.version, digest |-> r.digest]
<1>0. /\ Len(clicks) \in Nat /\ MaxClicks \in Nat /\ n \in Clicks!Clicks
      /\ c \in Click /\ c.version = r.version /\ c.digest = r.digest
      /\ e \in HubCall /\ e.at = "resolve" /\ e.version = r.version /\ e.digest = r.digest
  BY RecordsAssumption DEF ClicksInv, ClicksTyped, Clicks!Opens, Clicks!Clicks, Click, HubCall
<1>1. /\ clicks' = Append(clicks, c) /\ request' = [request EXCEPT ![n] = e] /\ desk' = n
      /\ UNCHANGED <<shelf, acked, jobs, edits>>
  BY DEF Clicks!Opens, Clicks!Ask
<1> HIDE DEF c, e
<1>2. /\ clicks' \in Seq(Click) /\ Len(clicks') = n /\ clicks'[n] = c
      /\ \A k \in 1..Len(clicks) : clicks'[k] = clicks[k]
  BY <1>0, <1>1 DEF ClicksInv, ClicksTyped
<1>3. /\ request' \in [Clicks!Clicks -> HubCall] /\ request'[n] = e
      /\ \A k \in Clicks!Clicks : k # n => request'[k] = request[k]
  BY <1>0, <1>1 DEF ClicksInv, ClicksTyped
<1>4. ClicksTyped'
  BY <1>0, <1>1, <1>2, <1>3 DEF ClicksInv, ClicksTyped, Shelf, Clicks!Clicks
<1>5. Asked'
  BY <1>0, <1>1, <1>2, <1>3 DEF ClicksInv, Asked
<1>6. Recorded'
  BY <1>0, <1>1, <1>2 DEF ClicksInv, Recorded
<1> QED
  BY <1>4, <1>5, <1>6 DEF ClicksInv

\* What a step of the hub does to one call.
LEMMA CallMoves ==
  ASSUME ClicksInv, NEW k \in Clicks!Clicks, request[k].at # "none",
         NEW e \in HubCall, e.version = request[k].version, e.digest = request[k].digest, e.at # "none",
         e.at \in {"wait", "record", "send", "sent"} => e.digest \in acked,
         request' = [request EXCEPT ![k] = e],
         UNCHANGED <<shelf, acked, desk, marks, clicks, edits>>
  PROVE  /\ Asked' /\ (jobs' \in Seq(HubJob) => ClicksTyped')
         /\ (UNCHANGED jobs => ClicksInv')
<1>1. /\ request' \in [Clicks!Clicks -> HubCall] /\ request'[k] = e
      /\ \A l \in Clicks!Clicks : l # k => request'[l] = request[l]
  BY DEF ClicksInv, ClicksTyped
<1>2. Asked'
  BY <1>1 DEF ClicksInv, Asked
<1>3. jobs' \in Seq(HubJob) => ClicksTyped'
  BY <1>1 DEF ClicksInv, ClicksTyped, Shelf
<1>4. UNCHANGED jobs => Recorded' /\ jobs' \in Seq(HubJob)
  BY DEF ClicksInv, ClicksTyped, Recorded
<1> QED
  BY <1>2, <1>3, <1>4 DEF ClicksInv

\* A call that goes on to a place.
LEMMA CallGoes ==
  ASSUME ClicksInv, NEW k \in Clicks!Clicks, NEW l \in {"wait", "record", "send", "sent", "refused"}
  PROVE  /\ [request[k] EXCEPT !.at = l] \in HubCall
         /\ [request[k] EXCEPT !.at = l].at = l
         /\ [request[k] EXCEPT !.at = l].version = request[k].version
         /\ [request[k] EXCEPT !.at = l].digest = request[k].digest
BY DEF ClicksInv, ClicksTyped, HubCall

LEMMA CallGoesOn ==
  ASSUME ClicksInv, NEW k \in Clicks!Clicks, request[k].at # "none",
         NEW l \in {"wait", "record", "send", "sent", "refused"},
         l # "refused" => request[k].at \in {"wait", "record", "send"},
         Clicks!Goto(k, l), Clicks!Hub
  PROVE  /\ Asked' /\ (jobs' \in Seq(HubJob) => ClicksTyped')
         /\ (UNCHANGED jobs => ClicksInv')
<1> DEFINE e == [request[k] EXCEPT !.at = l]
<1>1. /\ e \in HubCall /\ e.at = l /\ e.version = request[k].version /\ e.digest = request[k].digest
  BY CallGoes
<1>2. request' = [request EXCEPT ![k] = e] /\ UNCHANGED <<shelf, acked, desk, marks, clicks, edits>>
  BY DEF Clicks!Goto, Clicks!Hub
<1>3. e.at # "none" /\ (e.at \in {"wait", "record", "send", "sent"} => e.digest \in acked)
  BY <1>1 DEF ClicksInv, Asked
<1> HIDE DEF e
<1> QED
  BY <1>1, <1>2, <1>3, CallMoves

LEMMA ClicksStep ==
  ASSUME ClicksInv, Clicks!Next
  PROVE  ClicksInv'
<1>0. /\ MaxClicks \in Nat /\ MaxChanges \in Nat /\ Nil \notin Versions /\ Nil \notin Digests
      /\ Len(clicks) \in Nat /\ Len(jobs) \in Nat /\ Len(shelf) \in Nat
      /\ DOMAIN shelf = 1..Len(shelf) /\ DOMAIN jobs = 1..Len(jobs) /\ DOMAIN clicks = 1..Len(clicks)
      /\ \A i \in 1..Len(shelf) : shelf[i] \in Clicks!Releases
      /\ \A i \in 1..Len(clicks) : clicks[i] \in Click
      /\ \A i \in 1..Len(jobs) : jobs[i] \in HubJob
  BY RecordsAssumption DEF ClicksInv, ClicksTyped, Shelf
<1>1. ASSUME NEW v \in Versions, Shelf', Clicks!Edits
      PROVE  ClicksInv'
  <2>1. edits' \in 0..MaxChanges
    BY <1>0, <1>1 DEF ClicksInv, ClicksTyped, Clicks!Edits
  <2> QED
    BY <1>1, <2>1 DEF ClicksInv, ClicksTyped, Asked, Recorded, Clicks!Edits
<1>2. ASSUME NEW v \in Versions, NEW d \in Digests, NEW b \in BOOLEAN, Clicks!Pack(v, d, b)
      PROVE  ClicksInv'
  <2>1. Shelf' /\ Clicks!Edits
    BY <1>2, ShelfPacks DEF ClicksInv, ClicksTyped, Clicks!Pack
  <2> QED
    BY <1>1, <2>1
<1>3. ASSUME NEW v \in Versions, Clicks!Publish(v)
      PROVE  ClicksInv'
  <2>1. Shelf' /\ Clicks!Edits
    BY <1>3, ShelfPublishes DEF ClicksInv, ClicksTyped, Clicks!Publish
  <2> QED
    BY <1>1, <2>1
<1>4. ASSUME NEW d \in Digests, Clicks!Sync(d)
      PROVE  ClicksInv'
  <2>1. acked' = acked \cup {d} /\ UNCHANGED <<shelf, jobs, desk, marks, request, clicks, edits>>
    BY <1>4 DEF Clicks!Sync
  <2>2. ClicksTyped'
    BY <2>1 DEF ClicksInv, ClicksTyped, Shelf
  <2>3. Asked' /\ Recorded'
    BY <2>1 DEF ClicksInv, Asked, Recorded
  <2> QED
    BY <2>2, <2>3 DEF ClicksInv
<1>5. ASSUME NEW w \in Clicks!Wanted, Clicks!Submit(w)
      PROVE  ClicksInv'
  <2>1. PICK i \in Clicks!Resolved(w) :
          Clicks!Opens(shelf[i]) /\ marks' = marks \cup {<< shelf[i].version, shelf[i].digest >>}
    BY <1>5 DEF Clicks!Submit
  <2>2. i \in 1..Len(shelf)
    BY <1>0 DEF Clicks!Resolved, Clicks!Latest
  <2>3. shelf[i].version \in Versions /\ shelf[i].digest \in Digests
    BY <1>0, <2>2 DEF Clicks!Releases
  <2>4. marks' \subseteq Versions \X Digests
    BY <2>1, <2>3 DEF ClicksInv, ClicksTyped
  <2> QED
    BY <2>1, <2>3, <2>4, ClickOpens
<1>6. ASSUME NEW i \in DOMAIN jobs, Clicks!Retry(i)
      PROVE  ClicksInv'
  <2>1. jobs[i].version \in Versions /\ jobs[i].digest \in Digests
    BY <1>0, <1>6 DEF HubJob
  <2>2. marks' \subseteq Versions \X Digests /\ Clicks!Opens(jobs[i])
    BY <1>6 DEF Clicks!Retry, ClicksInv, ClicksTyped
  <2> QED
    BY <2>1, <2>2, ClickOpens
<1>7. ASSUME NEW i \in DOMAIN jobs, NEW s \in {"retryable", "ended"}, Clicks!JobEnds(i, s)
      PROVE  ClicksInv'
  <2> DEFINE e == [jobs[i] EXCEPT !.state = s]
  <2>1. /\ e \in HubJob /\ e.click = jobs[i].click /\ e.version = jobs[i].version
        /\ e.digest = jobs[i].digest /\ e.state # "active"
    BY <1>0, <1>7 DEF HubJob
  <2>2. jobs' = [jobs EXCEPT ![i] = e] /\ UNCHANGED <<shelf, acked, desk, marks, request, clicks, edits>>
    BY <1>7 DEF Clicks!JobEnds, Clicks!Hub
  <2> HIDE DEF e
  <2>3. /\ jobs' \in Seq(HubJob) /\ Len(jobs') = Len(jobs)
        /\ \A j \in 1..Len(jobs) : jobs'[j] = IF j = i THEN e ELSE jobs[j]
    <3>1. jobs \in Seq(HubJob) /\ i \in 1..Len(jobs)
      BY <1>0 DEF ClicksInv, ClicksTyped
    <3> QED
      BY <2>1, <2>2, <3>1, Replaced
  <2>4. ClicksTyped' /\ Asked'
    BY <2>2, <2>3 DEF ClicksInv, ClicksTyped, Shelf, Asked
  <2>5. Recorded'
    BY <1>0, <2>1, <2>2, <2>3 DEF ClicksInv, Recorded
  <2> QED
    BY <2>4, <2>5 DEF ClicksInv
<1>8. CASE Clicks!Answered \/ Clicks!TimesOut
  <2>1. /\ marks' \subseteq marks /\ desk' = 0
        /\ UNCHANGED <<shelf, acked, jobs, request, clicks, edits>>
    BY <1>8 DEF Clicks!Answered, Clicks!TimesOut, Clicks!Free
  <2>2. ClicksTyped'
    BY <1>0, <2>1 DEF ClicksInv, ClicksTyped, Shelf
  <2>3. Asked' /\ Recorded'
    BY <2>1 DEF ClicksInv, Asked, Recorded
  <2> QED
    BY <2>2, <2>3 DEF ClicksInv
<1>9. ASSUME NEW k \in Clicks!Clicks, Clicks!Resolve(k)
      PROVE  ClicksInv'
  <2>1. request[k].at = "resolve" /\ UNCHANGED jobs /\ Clicks!Hub
    BY <1>9 DEF Clicks!Resolve
  <2>2. CASE Clicks!Goto(k, "refused")
    BY <2>1, <2>2, CallGoesOn
  <2>3. ASSUME NEW i \in Clicks!Matches(request[k]), shelf[i].digest \in acked,
               request' = [request EXCEPT ![k] =
                 [at |-> "wait", version |-> shelf[i].version, digest |-> shelf[i].digest]]
        PROVE  ClicksInv'
    <3> DEFINE e == [at |-> "wait", version |-> shelf[i].version, digest |-> shelf[i].digest]
    <3>1. /\ request[k].version \in Versions /\ request[k].digest \in Digests
      BY <1>0, <2>1 DEF ClicksInv, Asked, Click
    <3>2. shelf[i].version = request[k].version /\ shelf[i].digest = request[k].digest
      BY <1>0, <3>1 DEF Clicks!Matches
    <3>3. /\ e \in HubCall /\ e.at = "wait" /\ e.version = request[k].version
          /\ e.digest = request[k].digest /\ e.digest \in acked
      BY <2>3, <3>1, <3>2 DEF HubCall
    <3>4. request' = [request EXCEPT ![k] = e]
      BY <2>3
    <3>5. request[k].at # "none" /\ e.at # "none" /\ UNCHANGED <<shelf, acked, desk, marks, clicks, edits>>
      BY <2>1 DEF Clicks!Hub
    <3> HIDE DEF e
    <3> QED
      BY <2>1, <3>3, <3>4, <3>5, CallMoves
  <2> QED
    BY <1>9, <2>1, <2>2, <2>3 DEF Clicks!Resolve, Clicks!Goto
<1>10. ASSUME NEW k \in Clicks!Clicks, Clicks!Wait(k) \/ Clicks!Send(k)
       PROVE  ClicksInv'
  BY <1>10, CallGoesOn DEF Clicks!Wait, Clicks!Send
<1>11. ASSUME NEW k \in Clicks!Clicks, Clicks!Record(k)
       PROVE  ClicksInv'
  <2>1. request[k].at = "record" /\ Clicks!Hub
    BY <1>11 DEF Clicks!Record
  <2>2. CASE Clicks!Occupied
    <3>1. Clicks!Goto(k, "refused") /\ UNCHANGED jobs
      BY <1>11, <2>2 DEF Clicks!Record
    <3> QED
      BY <2>1, <3>1, CallGoesOn
  <2>3. CASE ~Clicks!Occupied
    <3> DEFINE e == [click |-> k, version |-> request[k].version, digest |-> request[k].digest, state |-> "active"]
    <3>1. Clicks!Goto(k, "send") /\ jobs' = Append(jobs, e)
      BY <1>11, <2>3 DEF Clicks!Record
    <3>2. /\ k \in 1..Len(clicks) /\ request[k].version = clicks[k].version
          /\ request[k].digest = clicks[k].digest /\ request[k].digest \in acked
      BY <2>1 DEF ClicksInv, Asked
    <3>3. /\ e \in HubJob /\ e.click = k /\ e.version = clicks[k].version /\ e.digest = clicks[k].digest
      BY <1>0, <3>2 DEF HubJob, Click
    <3> HIDE DEF e
    <3>4. /\ jobs' \in Seq(HubJob) /\ Len(jobs') = Len(jobs) + 1 /\ jobs'[Len(jobs) + 1] = e
          /\ \A i \in 1..Len(jobs) : jobs'[i] = jobs[i]
      BY <3>1, <3>3 DEF ClicksInv, ClicksTyped
    <3>5. ClicksTyped' /\ Asked'
      BY <2>1, <3>1, <3>4, CallGoesOn
    <3>6. \A i \in 1..Len(jobs) : jobs[i].state # "active"
      BY <1>0, <2>3 DEF Clicks!Occupied
    <3>7. UNCHANGED <<clicks, acked>>
      BY <2>1 DEF Clicks!Hub
    <3>8. Recorded'
      BY <1>0, <3>2, <3>3, <3>4, <3>6, <3>7, SMTT(30) DEF ClicksInv, Recorded
    <3> QED
      BY <3>5, <3>8 DEF ClicksInv
  <2> QED
    BY <2>2, <2>3
<1> QED
  BY <1>2, <1>3, <1>4, <1>5, <1>6, <1>7, <1>8, <1>9, <1>10, <1>11 DEF Clicks!Next

LEMMA ClicksMeans ==
  ASSUME ClicksInv
  PROVE  Clicks!TypeOK /\ Clicks!NoRetarget /\ Clicks!ClicksShareNoProfile
<1>0. /\ MaxClicks \in Nat /\ Len(clicks) \in Nat /\ Len(jobs) \in Nat /\ Len(shelf) \in Nat
      /\ DOMAIN shelf = 1..Len(shelf) /\ DOMAIN jobs = 1..Len(jobs)
      /\ \A i \in 1..Len(shelf) : shelf[i] \in Clicks!Releases
      /\ \A i \in 1..Len(jobs) : jobs[i] \in HubJob
      /\ \A k \in Clicks!Clicks : request[k] \in HubCall
  BY RecordsAssumption DEF ClicksInv, ClicksTyped, Shelf
<1>1. desk \in 0..MaxClicks
  BY <1>0 DEF ClicksInv, ClicksTyped
<1>2. Clicks!TypeOK
  BY <1>0, <1>1 DEF ClicksInv, ClicksTyped, Shelf, Clicks!TypeOK, HubJob, HubCall
<1> QED
  BY <1>0, <1>2 DEF ClicksInv, Recorded, Clicks!NoRetarget, Clicks!ClicksShareNoProfile

-----------------------------------------------------------------------------
(* The command of a teach session *)

\* What the command holds, has staged and has started, by where it is.
PlaceInv ==
  /\ command.at \in {"checks", "lock"} => holds = {} /\ staged = "none" /\ browser = "none"
  /\ command.at = "hub" => holds = {"lock"} /\ staged = "none" /\ browser = "none"
  /\ command.at = "stage" => /\ holds = {"lock", "hub"} /\ staged = "none" /\ browser = "none"
                             /\ command.of # "chat without browser"
  /\ command.at = "spawn" => /\ {"lock", "hub"} \subseteq holds /\ staged = "full" /\ browser = "none"
                             /\ command.of # "chat without browser"
  /\ command.at = "runs" => {"lock", "hub"} \subseteq holds /\ (browser # "none" => staged = "full")
  /\ command.at = "kill" => {"lock", "hub"} \subseteq holds /\ staged = "full"
  /\ command.at \in {"clear", "ended"} => browser # "up"
  /\ command.at = "ended" => /\ holds = {}
                             /\ staged # "none" => command.failed = "stage"
                                   \/ (command.failed = "spawn" /\ command.of = "chat")
  \* requests are handled while the server of teach start runs
  /\ "server" \in holds => command.of = "start" /\ command.at \in {"spawn", "runs", "kill", "clear"}
  /\ \A h \in Handlers : handler[h].at # "idle" => "server" \in holds

\* Questions asked, answers not yet counted, and what may still be asked or
\* counted of what was read below the limit.
Asking   == {h \in Handlers : handler[h].at = "asking"}
Counting == {h \in Handlers : handler[h].at = "count"}
Below    == {h \in Handlers : /\ handler[h].at \in {"read", "ask", "asking", "count"}
                              /\ handler[h].calls < AssistMax}

CountInv ==
  /\ answered + Cardinality(Asking) <= asked
  /\ assists.calls + Cardinality(Counting) <= answered
  /\ command.at # "ended" => assists.calls + Cardinality(Counting) = answered
  /\ Asking \subseteq Below /\ Counting \subseteq Below
  /\ assists.calls >= AssistMax => assists.calls + Cardinality(Below) < AssistMax + Cardinality(Handlers)
  /\ answered < AssistMax + Cardinality(Handlers)

\* Once a slow answer has been noted with no request at work, every request
\* reads that there was one.
SettledInv ==
  settled # MaxAsked + 1 =>
    /\ asked = settled /\ assists.slow /\ assists.calls > 0
    /\ \A h \in Handlers :
         /\ handler[h].at \in {"idle", "read", "ask"}
         /\ handler[h].at # "idle" => handler[h].calls > 0
         /\ handler[h].at = "ask" => handler[h].slow

SessionInv == Session!TypeOK /\ PlaceInv /\ CountInv /\ SettledInv

\* The sets that are counted are finite.
LEMMA Countable ==
  ASSUME NEW S, S \subseteq Handlers
  PROVE  /\ IsFiniteSet(S) /\ Cardinality(S) \in Nat /\ Cardinality(S) <= Cardinality(Handlers)
         /\ Cardinality(Handlers) \in Nat
<1>1. IsFiniteSet(Handlers)
  BY RecordsAssumption
<1>2. IsFiniteSet(S) /\ Cardinality(S) <= Cardinality(Handlers)
  BY <1>1, FS_Subset
<1> QED
  BY <1>1, <1>2, FS_CardinalityType

LEMMA SessionInit == Session!Init => SessionInv
<1> SUFFICES ASSUME Session!Init PROVE SessionInv
  OBVIOUS
<1> USE DEF Session!Init, Session!Quiet, Session!Never
<1>0. /\ 0 \in 0..MaxAsked /\ MaxAsked + 1 \in 0..(MaxAsked + 1) /\ AssistMax \in Nat \ {0}
      /\ Cardinality(Handlers) \in Nat
  BY RecordsAssumption, Countable
<1>1. PICK c \in Session!Commands : command = [of |-> c, at |-> "checks", failed |-> "nowhere"]
  OBVIOUS
<1>2. Session!TypeOK
  BY <1>0, <1>1 DEF Session!TypeOK, Session!Commands, Session!Places
<1>3. PlaceInv
  BY <1>1 DEF PlaceInv
<1>4. Asking = {} /\ Counting = {} /\ Below = {}
  BY DEF Asking, Counting, Below
<1>5. CountInv
  BY <1>0, <1>4, FS_EmptySet DEF CountInv
<1> QED
  BY <1>2, <1>3, <1>5 DEF SessionInv, SettledInv

\* The steps of the command, whose handlers are at rest once it has ended.
LEMMA CommandStep ==
  ASSUME SessionInv,
         \/ Session!Checks \/ Session!Lock \/ Session!Hub \/ Session!Stage \/ Session!Spawn
         \/ Session!Closes \/ Session!Runs \/ Session!Kill
  PROVE  SessionInv'
<1>i. Session!TypeOK /\ PlaceInv /\ CountInv /\ SettledInv
  BY DEF SessionInv
<1>1. UNCHANGED <<handler, assists, asked, answered, settled>>
  BY DEF Session!Checks, Session!Lock, Session!Hub, Session!Stage, Session!Spawn, Session!Closes,
         Session!Runs, Session!Kill, Session!ServerVars
<1>2. command.at # "ended" \/ command' = command
  BY DEF Session!Checks, Session!Lock, Session!Hub, Session!Stage, Session!Spawn, Session!Closes,
         Session!Runs, Session!Kill, Session!At
<1>3. CountInv' /\ SettledInv'
  BY <1>i, <1>1, <1>2 DEF CountInv, SettledInv, Asking, Counting, Below
<1>4. ASSUME NEW l \in Session!Places, Session!Goto(l)
      PROVE  /\ command' \in [of : Session!Commands, at : Session!Places, failed : Session!Places \cup {"nowhere"}]
             /\ command'.of = command.of /\ command'.at = l /\ command'.failed = command.failed
  BY <1>i, <1>4 DEF Session!TypeOK, Session!Goto
<1>5. ASSUME Session!Returns
      PROVE  /\ command' \in [of : Session!Commands, at : Session!Places, failed : Session!Places \cup {"nowhere"}]
             /\ command'.of = command.of /\ command'.at = "ended" /\ command'.failed = command.at
             /\ holds' = {}
  BY <1>i, <1>5 DEF Session!TypeOK, Session!Returns, Session!Places
<1> USE DEF Session!At
<1>6. CASE Session!Checks
  <2>1. Session!TypeOK' /\ PlaceInv'
    BY <1>i, <1>1, <1>4, <1>5, <1>6 DEF Session!Checks, Session!TypeOK, PlaceInv, Session!Places
  <2> QED
    BY <1>3, <2>1 DEF SessionInv
<1>7. CASE Session!Lock
  <2>1. Session!TypeOK' /\ PlaceInv'
    BY <1>i, <1>1, <1>4, <1>5, <1>7 DEF Session!Lock, Session!TypeOK, PlaceInv, Session!Places
  <2> QED
    BY <1>3, <2>1 DEF SessionInv
<1>8. CASE Session!Hub
  <2>1. CASE Session!Returns
    <3>1. Session!TypeOK' /\ PlaceInv'
      BY <1>i, <1>1, <1>5, <1>8, <2>1 DEF Session!Hub, Session!TypeOK, PlaceInv
    <3> QED
      BY <1>3, <3>1 DEF SessionInv
  <2>2. CASE Session!Goto(IF command.of = "chat without browser" THEN "runs" ELSE "stage") /\ holds' = holds \cup {"hub"}
    <3>1. Session!TypeOK' /\ PlaceInv'
      BY <1>i, <1>1, <1>4, <1>8, <2>2 DEF Session!Hub, Session!TypeOK, PlaceInv, Session!Places
    <3> QED
      BY <1>3, <3>1 DEF SessionInv
  <2> QED
    BY <1>8, <2>1, <2>2 DEF Session!Hub
<1>9. CASE Session!Stage
  <2>1. CASE staged' \in {"none", "part"} /\ Session!Returns
    <3>1. Session!TypeOK' /\ PlaceInv'
      BY <1>i, <1>1, <1>5, <1>9, <2>1 DEF Session!Stage, Session!TypeOK, PlaceInv
    <3> QED
      BY <1>3, <3>1 DEF SessionInv
  <2>2. CASE /\ staged' = "full" /\ Session!Goto("spawn")
             /\ holds' = holds \cup (IF command.of = "start" THEN {"server"} ELSE {})
    <3>1. Session!TypeOK' /\ PlaceInv'
      BY <1>i, <1>1, <1>4, <1>9, <2>2 DEF Session!Stage, Session!TypeOK, PlaceInv, Session!Places
    <3> QED
      BY <1>3, <3>1 DEF SessionInv
  <2> QED
    BY <1>9, <2>1, <2>2 DEF Session!Stage
<1>10. CASE Session!Spawn
  <2>1. CASE browser' = "up" /\ Session!Goto("runs") /\ UNCHANGED holds
    <3>1. Session!TypeOK' /\ PlaceInv'
      BY <1>i, <1>1, <1>4, <1>10, <2>1 DEF Session!Spawn, Session!TypeOK, PlaceInv, Session!Places
    <3> QED
      BY <1>3, <3>1 DEF SessionInv
  <2>2. CASE command.of = "start" /\ Session!Goto("clear") /\ UNCHANGED <<browser, holds>>
    <3>1. Session!TypeOK' /\ PlaceInv'
      BY <1>i, <1>1, <1>4, <1>10, <2>2 DEF Session!Spawn, Session!TypeOK, PlaceInv, Session!Places
    <3> QED
      BY <1>3, <3>1 DEF SessionInv
  <2>3. CASE command.of = "chat" /\ Session!Returns /\ UNCHANGED browser
    <3>1. Session!TypeOK' /\ PlaceInv'
      BY <1>i, <1>1, <1>5, <1>10, <2>3 DEF Session!Spawn, Session!TypeOK, PlaceInv
    <3> QED
      BY <1>3, <3>1 DEF SessionInv
  <2> QED
    BY <1>10, <2>1, <2>2, <2>3 DEF Session!Spawn
<1>11. CASE Session!Closes
  <2>1. Session!TypeOK' /\ PlaceInv'
    BY <1>i, <1>1, <1>11 DEF Session!Closes, Session!TypeOK, PlaceInv
  <2> QED
    BY <1>3, <2>1 DEF SessionInv
<1>12. CASE Session!Runs
  <2>1. Session!TypeOK' /\ PlaceInv'
    BY <1>i, <1>1, <1>4, <1>12 DEF Session!Runs, Session!TypeOK, PlaceInv, Session!Places
  <2> QED
    BY <1>3, <2>1 DEF SessionInv
<1>13. CASE Session!Kill
  <2>1. Session!TypeOK' /\ PlaceInv'
    BY <1>i, <1>1, <1>4, <1>13 DEF Session!Kill, Session!TypeOK, PlaceInv, Session!Places
  <2> QED
    BY <1>3, <2>1 DEF SessionInv
<1> QED
  BY <1>6, <1>7, <1>8, <1>9, <1>10, <1>11, <1>12, <1>13

\* The sets of what a request may still do, when one of them goes on: those of
\* the others stay.
LEMMA OneGoesOn ==
  ASSUME NEW h \in Handlers, NEW e, handler' = [handler EXCEPT ![h] = e],
         Session!TypeOK
  PROVE  /\ \A g \in Handlers : handler'[g] = IF g = h THEN e ELSE handler[g]
         /\ Asking'   = IF e.at = "asking" THEN Asking \cup {h} ELSE Asking \ {h}
         /\ Counting' = IF e.at = "count" THEN Counting \cup {h} ELSE Counting \ {h}
         /\ Below'    = IF e.at \in {"read", "ask", "asking", "count"} /\ e.calls < AssistMax
                        THEN Below \cup {h} ELSE Below \ {h}
<1>1. \A g \in Handlers : handler'[g] = IF g = h THEN e ELSE handler[g]
  BY DEF Session!TypeOK
<1>2. Asking' = IF e.at = "asking" THEN Asking \cup {h} ELSE Asking \ {h}
  BY <1>1 DEF Asking
<1>3. Counting' = IF e.at = "count" THEN Counting \cup {h} ELSE Counting \ {h}
  BY <1>1 DEF Counting
<1>4. Below' = IF e.at \in {"read", "ask", "asking", "count"} /\ e.calls < AssistMax
               THEN Below \cup {h} ELSE Below \ {h}
  BY <1>1 DEF Below
<1> QED
  BY <1>1, <1>2, <1>3, <1>4

\* How many there are then.
LEMMA Counted ==
  ASSUME NEW S, S \subseteq Handlers, NEW h \in Handlers
  PROVE  /\ h \in S => Cardinality(S \ {h}) = Cardinality(S) - 1 /\ Cardinality(S) >= 1
         /\ h \notin S => S \ {h} = S /\ Cardinality(S \cup {h}) = Cardinality(S) + 1
         /\ h \in S => S \cup {h} = S
<1>1. IsFiniteSet(S) /\ Cardinality(S) \in Nat
  BY Countable
<1>2. h \in S => Cardinality(S \ {h}) = Cardinality(S) - 1
  BY <1>1, FS_RemoveElement
<1>3. h \in S => Cardinality(S) >= 1
  <2>1. IsFiniteSet(S \ {h})
    BY Countable
  <2>2. Cardinality(S \ {h}) \in Nat
    BY Countable
  <2> QED
    BY <1>1, <1>2, <2>2
<1>4. h \notin S => Cardinality(S \cup {h}) = Cardinality(S) + 1
  BY <1>1, FS_AddElement
<1> QED
  BY <1>2, <1>3, <1>4

\* The numbers that are compared are whole ones.
LEMMA Numbers ==
  ASSUME SessionInv
  PROVE  /\ assists.calls \in Nat /\ asked \in Nat /\ answered \in Nat /\ AssistMax \in Nat \ {0}
         /\ MaxAsked \in Nat
         /\ Asking \subseteq Handlers /\ Counting \subseteq Handlers /\ Below \subseteq Handlers
         /\ Cardinality(Asking) \in Nat /\ Cardinality(Counting) \in Nat /\ Cardinality(Below) \in Nat
         /\ Cardinality(Handlers) \in Nat
         /\ Cardinality(Asking) <= Cardinality(Handlers) /\ Cardinality(Counting) <= Cardinality(Handlers)
         /\ Cardinality(Below) <= Cardinality(Handlers)
<1>1. Asking \subseteq Handlers /\ Counting \subseteq Handlers /\ Below \subseteq Handlers
  BY DEF Asking, Counting, Below
<1> QED
  BY <1>1, Countable, RecordsAssumption DEF SessionInv, Session!TypeOK

\* Once the command clears up, no request is handled.
LEMMA ClearStep == ASSUME SessionInv, Session!Clear PROVE SessionInv'
<1>i. Session!TypeOK /\ PlaceInv /\ CountInv /\ SettledInv
  BY DEF SessionInv
<1>1. /\ command' = [command EXCEPT !.at = "ended"] /\ command.at = "clear" /\ staged' = "none"
      /\ holds' = {} /\ handler' = [h \in Handlers |-> [at |-> "idle", calls |-> 0, slow |-> FALSE]]
      /\ UNCHANGED <<browser, assists, asked, answered, settled>>
  BY DEF Session!Clear, Session!At, Session!Goto, Session!Quiet
<1>2. 0 \in 0..MaxAsked
  BY RecordsAssumption
<1>3. Session!TypeOK'
  BY <1>i, <1>1, <1>2 DEF Session!TypeOK, Session!Places, Session!Never
<1>4. PlaceInv'
  BY <1>i, <1>1 DEF PlaceInv, Session!TypeOK
<1>5. Asking' = {} /\ Counting' = {} /\ Below' = {}
  BY <1>1 DEF Asking, Counting, Below
<1>6. command'.at = "ended"
  BY <1>i, <1>1 DEF Session!TypeOK
<1>7. CountInv'
  BY <1>i, <1>1, <1>5, <1>6, FS_EmptySet, Numbers DEF CountInv
<1>8. SettledInv'
  BY <1>i, <1>1 DEF SettledInv
<1> QED
  BY <1>3, <1>4, <1>7, <1>8 DEF SessionInv

\* What of a step of a request is the same in all of them.
LEMMA HandledAlike ==
  ASSUME SessionInv, NEW h \in Handlers, NEW e,
         e \in [at : {"idle", "read", "ask", "asking", "count", "note"},
                calls : 0..MaxAsked, slow : BOOLEAN],
         handler' = [handler EXCEPT ![h] = e], Session!Same, "server" \in holds
  PROVE  /\ command'.at # "ended" /\ command.at # "ended" /\ PlaceInv'
         /\ handler' \in [Handlers -> [at : {"idle", "read", "ask", "asking", "count", "note"},
                                       calls : 0..MaxAsked, slow : BOOLEAN]]
         /\ UNCHANGED <<command, holds, staged, browser>>
<1>i. Session!TypeOK /\ PlaceInv
  BY DEF SessionInv
<1>1. UNCHANGED <<command, holds, staged, browser>>
  BY DEF Session!Same
<1>2. command.at # "ended"
  BY <1>i DEF PlaceInv
<1>3. PlaceInv'
  BY <1>i, <1>1, <1>2 DEF PlaceInv
<1>4. handler' \in [Handlers -> [at : {"idle", "read", "ask", "asking", "count", "note"},
                                 calls : 0..MaxAsked, slow : BOOLEAN]]
  BY <1>i DEF Session!TypeOK
<1> QED
  BY <1>1, <1>2, <1>3, <1>4

\* The count a request reads is below the limit, or it will not ask.
LEMMA ReadCallsStep ==
  ASSUME SessionInv, NEW h \in Handlers, Session!ReadCalls(h)
  PROVE  SessionInv'
<1> DEFINE e == [handler[h] EXCEPT !.at = "read", !.calls = assists.calls]
<1>i. Session!TypeOK /\ CountInv /\ SettledInv
  BY DEF SessionInv
<1>1. /\ "server" \in holds /\ handler[h].at = "idle" /\ handler' = [handler EXCEPT ![h] = e]
      /\ Session!Same /\ UNCHANGED <<assists, asked, answered, settled>>
  BY <1>i DEF Session!ReadCalls, Session!TypeOK
<1>2. /\ e.at = "read" /\ e.calls = assists.calls
      /\ e \in [at : {"idle", "read", "ask", "asking", "count", "note"},
                calls : 0..MaxAsked, slow : BOOLEAN]
  BY <1>i DEF Session!TypeOK
<1> HIDE DEF e
<1>3. /\ command'.at # "ended" /\ command.at # "ended" /\ PlaceInv'
      /\ handler' \in [Handlers -> [at : {"idle", "read", "ask", "asking", "count", "note"},
                                    calls : 0..MaxAsked, slow : BOOLEAN]]
      /\ UNCHANGED <<command, holds, staged, browser>>
  BY <1>1, <1>2, HandledAlike
<1>4. Session!TypeOK'
  BY <1>i, <1>1, <1>3 DEF Session!TypeOK
<1>5. h \notin Asking /\ h \notin Counting /\ h \notin Below
  BY <1>1 DEF Asking, Counting, Below
<1>e. Asking \ {h} = Asking /\ Counting \ {h} = Counting /\ Below \ {h} = Below
  BY <1>5
<1>o. /\ \A g \in Handlers : handler'[g] = IF g = h THEN e ELSE handler[g]
      /\ Asking'   = IF e.at = "asking" THEN Asking \cup {h} ELSE Asking \ {h}
      /\ Counting' = IF e.at = "count" THEN Counting \cup {h} ELSE Counting \ {h}
      /\ Below'    = IF e.at \in {"read", "ask", "asking", "count"} /\ e.calls < AssistMax
                     THEN Below \cup {h} ELSE Below \ {h}
  BY <1>i, <1>1, OneGoesOn
<1>6. /\ \A g \in Handlers : handler'[g] = IF g = h THEN e ELSE handler[g]
      /\ Asking' = Asking /\ Counting' = Counting
      /\ Below' = IF assists.calls < AssistMax THEN Below \cup {h} ELSE Below
  BY <1>2, <1>5, <1>e, <1>o
<1>7. CountInv'
  BY <1>i, <1>1, <1>3, <1>6, Numbers DEF CountInv
<1>8. SettledInv'
  BY <1>i, <1>1, <1>2, <1>6 DEF SettledInv
<1> QED
  BY <1>3, <1>4, <1>7, <1>8 DEF SessionInv

LEMMA ReadLastStep ==
  ASSUME SessionInv, NEW h \in Handlers, Session!ReadLast(h)
  PROVE  SessionInv'
<1> DEFINE e == [handler[h] EXCEPT !.at = "ask", !.slow = assists.slow]
<1>i. Session!TypeOK /\ PlaceInv /\ CountInv /\ SettledInv
  BY DEF SessionInv
<1>1. /\ handler[h].at = "read" /\ handler' = [handler EXCEPT ![h] = e]
      /\ Session!Same /\ UNCHANGED <<assists, asked, answered, settled>>
  BY <1>i DEF Session!ReadLast, Session!TypeOK
<1>2. /\ e.at = "ask" /\ e.calls = handler[h].calls /\ e.slow = assists.slow
      /\ e \in [at : {"idle", "read", "ask", "asking", "count", "note"},
                calls : 0..MaxAsked, slow : BOOLEAN]
  BY <1>i DEF Session!TypeOK
<1> HIDE DEF e
<1>s. "server" \in holds
  BY <1>i, <1>1 DEF PlaceInv
<1>3. /\ command'.at # "ended" /\ command.at # "ended" /\ PlaceInv'
      /\ handler' \in [Handlers -> [at : {"idle", "read", "ask", "asking", "count", "note"},
                                    calls : 0..MaxAsked, slow : BOOLEAN]]
      /\ UNCHANGED <<command, holds, staged, browser>>
  BY <1>1, <1>2, <1>s, HandledAlike
<1>4. Session!TypeOK'
  BY <1>i, <1>1, <1>3 DEF Session!TypeOK
<1>5. /\ h \notin Asking /\ h \notin Counting
      /\ h \in Below <=> handler[h].calls < AssistMax
  BY <1>1 DEF Asking, Counting, Below
<1>e. Asking \ {h} = Asking /\ Counting \ {h} = Counting
      /\ (handler[h].calls < AssistMax => Below \cup {h} = Below)
      /\ (~(handler[h].calls < AssistMax) => Below \ {h} = Below)
  BY <1>5
<1>o. /\ \A g \in Handlers : handler'[g] = IF g = h THEN e ELSE handler[g]
      /\ Asking'   = IF e.at = "asking" THEN Asking \cup {h} ELSE Asking \ {h}
      /\ Counting' = IF e.at = "count" THEN Counting \cup {h} ELSE Counting \ {h}
      /\ Below'    = IF e.at \in {"read", "ask", "asking", "count"} /\ e.calls < AssistMax
                     THEN Below \cup {h} ELSE Below \ {h}
  BY <1>i, <1>1, OneGoesOn
<1>6. /\ \A g \in Handlers : handler'[g] = IF g = h THEN e ELSE handler[g]
      /\ Asking' = Asking /\ Counting' = Counting /\ Below' = Below
  BY <1>2, <1>5, <1>e, <1>o
<1>7. CountInv'
  BY <1>i, <1>1, <1>3, <1>6, Numbers DEF CountInv
<1>8. SettledInv'
  BY <1>i, <1>1, <1>2, <1>6 DEF SettledInv
<1> QED
  BY <1>3, <1>4, <1>7, <1>8 DEF SessionInv

\* A request asks by what it has read: below the limit, and with no slow
\* answer before it.
LEMMA AskStep ==
  ASSUME SessionInv, NEW h \in Handlers, Session!Ask(h), Session!Cheap(h)
  PROVE  SessionInv'
<1> DEFINE e == [handler[h] EXCEPT !.at = "asking"]
<1>i. Session!TypeOK /\ PlaceInv /\ CountInv /\ SettledInv
  BY DEF SessionInv
<1>1. /\ handler[h].at = "ask" /\ handler' = [handler EXCEPT ![h] = e]
      /\ asked < MaxAsked /\ asked' = asked + 1
      /\ Session!Same /\ UNCHANGED <<assists, answered, settled>>
  BY <1>i DEF Session!Ask, Session!Step, Session!TypeOK
<1>2. /\ e.at = "asking" /\ e.calls = handler[h].calls
      /\ e \in [at : {"idle", "read", "ask", "asking", "count", "note"},
                calls : 0..MaxAsked, slow : BOOLEAN]
  BY <1>i DEF Session!TypeOK
<1> HIDE DEF e
<1>s. "server" \in holds
  BY <1>i, <1>1 DEF PlaceInv
<1>3. /\ command'.at # "ended" /\ command.at # "ended" /\ PlaceInv'
      /\ handler' \in [Handlers -> [at : {"idle", "read", "ask", "asking", "count", "note"},
                                    calls : 0..MaxAsked, slow : BOOLEAN]]
      /\ UNCHANGED <<command, holds, staged, browser>>
  BY <1>1, <1>2, <1>s, HandledAlike
<1>a. asked + 1 \in 0..MaxAsked
  BY <1>i, <1>1, Numbers DEF Session!TypeOK
<1>4. Session!TypeOK'
  BY <1>i, <1>1, <1>3, <1>a DEF Session!TypeOK
<1>c. handler[h].calls < AssistMax /\ (handler[h].calls = 0 \/ ~handler[h].slow)
  BY DEF Session!Cheap
<1>5. h \notin Asking /\ h \notin Counting /\ h \in Below
  BY <1>1, <1>c DEF Asking, Counting, Below
<1>e. Counting \ {h} = Counting /\ Below \cup {h} = Below
  BY <1>5
<1>6. /\ \A g \in Handlers : handler'[g] = IF g = h THEN e ELSE handler[g]
      /\ Asking' = Asking \cup {h} /\ Counting' = Counting /\ Below' = Below
  BY <1>i, <1>1, <1>2, <1>e, <1>c, OneGoesOn
<1>7. Cardinality(Asking \cup {h}) = Cardinality(Asking) + 1
  BY <1>5, Counted, Numbers
<1>8. CountInv'
  BY <1>i, <1>1, <1>3, <1>5, <1>6, <1>7, Numbers DEF CountInv
<1>9. settled = MaxAsked + 1
  BY <1>i, <1>1, <1>c DEF SettledInv, Session!TypeOK
<1>10. SettledInv'
  BY <1>1, <1>9 DEF SettledInv
<1> QED
  BY <1>3, <1>4, <1>8, <1>10 DEF SessionInv

\* A request is at rest again, when it did not ask, its question failed or its
\* answer was noted.
LEMMA RestsStep ==
  ASSUME SessionInv, NEW h \in Handlers, NEW slow \in BOOLEAN,
         \/ handler[h].at \in {"ask", "asking"} /\ slow = assists.slow
         \/ handler[h].at = "note",
         Session!Idles(h), Session!Quietens(h, slow, assists.calls),
         assists' = [assists EXCEPT !.slow = slow], Session!Same, UNCHANGED <<asked, answered>>
  PROVE  SessionInv'
<1> DEFINE e == [at |-> "idle", calls |-> 0, slow |-> FALSE]
<1>i. Session!TypeOK /\ PlaceInv /\ CountInv /\ SettledInv
  BY DEF SessionInv
<1>0. 0 \in 0..MaxAsked
  BY RecordsAssumption
<1>1. handler' = [handler EXCEPT ![h] = e]
  BY DEF Session!Idles, Session!Quiet
<1>2. /\ e.at = "idle"
      /\ e \in [at : {"idle", "read", "ask", "asking", "count", "note"},
                calls : 0..MaxAsked, slow : BOOLEAN]
  BY <1>0
<1> HIDE DEF e
<1>s. "server" \in holds
  BY <1>i DEF PlaceInv
<1>3. /\ command'.at # "ended" /\ command.at # "ended" /\ PlaceInv'
      /\ handler' \in [Handlers -> [at : {"idle", "read", "ask", "asking", "count", "note"},
                                    calls : 0..MaxAsked, slow : BOOLEAN]]
      /\ UNCHANGED <<command, holds, staged, browser>>
  BY <1>1, <1>2, <1>s, HandledAlike
<1>4. /\ assists' \in [calls : 0..MaxAsked, slow : BOOLEAN]
      /\ assists'.calls = assists.calls /\ assists'.slow = slow
  BY <1>i DEF Session!TypeOK
<1>5. settled' = IF settled = MaxAsked + 1 /\ slow /\ assists.calls > 0
                    /\ \A g \in Handlers \ {h} : handler[g].at = "idle"
                 THEN asked ELSE settled
  BY DEF Session!Quietens, Session!Never
<1>6. settled' \in 0..(MaxAsked + 1)
  <2>1. MaxAsked \in Nat /\ asked \in 0..MaxAsked /\ settled \in 0..(MaxAsked + 1)
    BY <1>i, RecordsAssumption DEF Session!TypeOK, Session!Never
  <2> QED
    BY <1>5, <2>1
<1>7. Session!TypeOK'
  BY <1>i, <1>3, <1>4, <1>6 DEF Session!TypeOK, Session!Never
<1>8. h \notin Counting
  BY DEF Counting
<1>e. Counting \ {h} = Counting
  BY <1>8
<1>9. /\ \A g \in Handlers : handler'[g] = IF g = h THEN e ELSE handler[g]
      /\ Asking' = Asking \ {h} /\ Counting' = Counting /\ Below' = Below \ {h}
  BY <1>i, <1>1, <1>2, <1>e, OneGoesOn
<1>10. /\ Cardinality(Asking \ {h}) \in Nat /\ Cardinality(Asking \ {h}) <= Cardinality(Asking)
       /\ Cardinality(Below \ {h}) \in Nat /\ Cardinality(Below \ {h}) <= Cardinality(Below)
  <2>1. ASSUME NEW S, S \subseteq Handlers
        PROVE  Cardinality(S \ {h}) \in Nat /\ Cardinality(S \ {h}) <= Cardinality(S)
    <3>1. IsFiniteSet(S) /\ S \ {h} \subseteq S /\ S \ {h} \subseteq Handlers
      BY <2>1, Countable
    <3>2. Cardinality(S \ {h}) <= Cardinality(S)
      BY <3>1, FS_Subset
    <3> QED
      BY <3>1, <3>2, Countable
  <2> QED
    BY <2>1, Numbers
<1>11. Asking' \subseteq Below' /\ Counting' \subseteq Below'
  BY <1>i, <1>8, <1>9 DEF CountInv
<1>12. CountInv'
  BY <1>i, <1>3, <1>4, <1>9, <1>10, <1>11, Numbers DEF CountInv
<1>13. SettledInv'
  <2>1. CASE settled # MaxAsked + 1
    BY <1>i, <1>2, <1>4, <1>5, <1>9, <2>1 DEF SettledInv
  <2>2. CASE settled = MaxAsked + 1
    BY <1>2, <1>4, <1>5, <1>9, <2>2 DEF SettledInv
  <2> QED
    BY <2>1, <2>2
<1> QED
  BY <1>3, <1>7, <1>12, <1>13 DEF SessionInv

\* An answer is one more than were counted, and no more than may be.
LEMMA AnswersStep ==
  ASSUME SessionInv, NEW h \in Handlers, Session!Answers(h)
  PROVE  SessionInv'
<1> DEFINE e == [handler[h] EXCEPT !.at = "count"]
<1>i. Session!TypeOK /\ PlaceInv /\ CountInv /\ SettledInv
  BY DEF SessionInv
<1>1. /\ handler[h].at = "asking" /\ handler' = [handler EXCEPT ![h] = e]
      /\ answered' = answered + 1 /\ Session!Same /\ UNCHANGED <<assists, asked, settled>>
  BY <1>i DEF Session!Answers, Session!Step, Session!TypeOK
<1>2. /\ e.at = "count" /\ e.calls = handler[h].calls
      /\ e \in [at : {"idle", "read", "ask", "asking", "count", "note"},
                calls : 0..MaxAsked, slow : BOOLEAN]
  BY <1>i DEF Session!TypeOK
<1> HIDE DEF e
<1>s. "server" \in holds
  BY <1>i, <1>1 DEF PlaceInv
<1>3. /\ command'.at # "ended" /\ command.at # "ended" /\ PlaceInv'
      /\ handler' \in [Handlers -> [at : {"idle", "read", "ask", "asking", "count", "note"},
                                    calls : 0..MaxAsked, slow : BOOLEAN]]
      /\ UNCHANGED <<command, holds, staged, browser>>
  BY <1>1, <1>2, <1>s, HandledAlike
<1>5. h \in Asking /\ h \notin Counting /\ h \in Below /\ handler[h].calls < AssistMax
  BY <1>i, <1>1 DEF CountInv, Asking, Counting, Below
<1>e. Below \cup {h} = Below
  BY <1>5
<1>o. /\ \A g \in Handlers : handler'[g] = IF g = h THEN e ELSE handler[g]
      /\ Asking'   = IF e.at = "asking" THEN Asking \cup {h} ELSE Asking \ {h}
      /\ Counting' = IF e.at = "count" THEN Counting \cup {h} ELSE Counting \ {h}
      /\ Below'    = IF e.at \in {"read", "ask", "asking", "count"} /\ e.calls < AssistMax
                     THEN Below \cup {h} ELSE Below \ {h}
  BY <1>i, <1>1, OneGoesOn
<1>6. /\ \A g \in Handlers : handler'[g] = IF g = h THEN e ELSE handler[g]
      /\ Asking' = Asking \ {h} /\ Counting' = Counting \cup {h} /\ Below' = Below
  BY <1>2, <1>5, <1>e, <1>o
<1>7. /\ Cardinality(Asking \ {h}) = Cardinality(Asking) - 1 /\ Cardinality(Asking) >= 1
      /\ Cardinality(Counting \cup {h}) = Cardinality(Counting) + 1
  BY <1>5, Counted, Numbers
<1>8. Asking' \subseteq Below' /\ Counting' \subseteq Below'
  BY <1>i, <1>5, <1>6 DEF CountInv
<1>9. /\ Cardinality(Counting \cup {h}) <= Cardinality(Below)
  <2>1. IsFiniteSet(Below) /\ Counting \cup {h} \subseteq Below
    BY <1>6, <1>8, Countable, Numbers
  <2> QED
    BY <2>1, FS_Subset
<1>10. answered + 1 < AssistMax + Cardinality(Handlers)
  <2>1. answered + 1 = assists.calls + (Cardinality(Counting) + 1)
    BY <1>i, <1>3, Numbers DEF CountInv
  <2>2. answered + 1 <= assists.calls + Cardinality(Below)
    BY <1>7, <1>9, <2>1, Numbers
  <2>3. CASE assists.calls >= AssistMax
    BY <1>i, <2>2, <2>3, Numbers DEF CountInv
  <2>4. CASE ~(assists.calls >= AssistMax)
    BY <2>2, <2>4, Numbers
  <2> QED
    BY <2>3, <2>4
<1>11. answered + 1 <= asked
  BY <1>i, <1>7, Numbers DEF CountInv
<1>a. answered + 1 \in 0..MaxAsked
  BY <1>i, <1>11, Numbers DEF Session!TypeOK
<1>12. Session!TypeOK'
  BY <1>i, <1>1, <1>3, <1>a DEF Session!TypeOK
<1>13. CountInv'
  BY <1>i, <1>1, <1>3, <1>6, <1>7, <1>8, <1>10, Numbers DEF CountInv
<1>14. SettledInv'
  BY <1>i, <1>1 DEF SettledInv
<1> QED
  BY <1>3, <1>12, <1>13, <1>14 DEF SessionInv

\* What is counted is no longer to be counted: it was read below the limit.
LEMMA CountStep ==
  ASSUME SessionInv, NEW h \in Handlers, Session!Count(h)
  PROVE  SessionInv'
<1> DEFINE e == [handler[h] EXCEPT !.at = "note"]
<1>i. Session!TypeOK /\ PlaceInv /\ CountInv /\ SettledInv
  BY DEF SessionInv
<1>1. /\ handler[h].at = "count" /\ handler' = [handler EXCEPT ![h] = e]
      /\ assists' = [assists EXCEPT !.calls = @ + 1]
      /\ Session!Same /\ UNCHANGED <<asked, answered, settled>>
  BY <1>i DEF Session!Count, Session!Step, Session!TypeOK
<1>2. /\ e.at = "note"
      /\ e \in [at : {"idle", "read", "ask", "asking", "count", "note"},
                calls : 0..MaxAsked, slow : BOOLEAN]
  BY <1>i DEF Session!TypeOK
<1> HIDE DEF e
<1>s. "server" \in holds
  BY <1>i, <1>1 DEF PlaceInv
<1>3. /\ command'.at # "ended" /\ command.at # "ended" /\ PlaceInv'
      /\ handler' \in [Handlers -> [at : {"idle", "read", "ask", "asking", "count", "note"},
                                    calls : 0..MaxAsked, slow : BOOLEAN]]
      /\ UNCHANGED <<command, holds, staged, browser>>
  BY <1>1, <1>2, <1>s, HandledAlike
<1>5. h \notin Asking /\ h \in Counting /\ h \in Below
  BY <1>i, <1>1 DEF CountInv, Asking, Counting
<1>e. Asking \ {h} = Asking
  BY <1>5
<1>6. /\ \A g \in Handlers : handler'[g] = IF g = h THEN e ELSE handler[g]
      /\ Asking' = Asking /\ Counting' = Counting \ {h} /\ Below' = Below \ {h}
  BY <1>i, <1>1, <1>2, <1>e, OneGoesOn
<1>7. /\ Cardinality(Counting \ {h}) = Cardinality(Counting) - 1 /\ Cardinality(Counting) >= 1
      /\ Cardinality(Below \ {h}) = Cardinality(Below) - 1 /\ Cardinality(Below) >= 1
  BY <1>5, Counted, Numbers
<1>8. assists'.calls = assists.calls + 1 /\ assists'.slow = assists.slow
  BY <1>i, <1>1 DEF Session!TypeOK
<1>9. assists.calls + 1 <= answered /\ answered <= asked
  BY <1>i, <1>7, Numbers DEF CountInv
<1>10. assists' \in [calls : 0..MaxAsked, slow : BOOLEAN]
  BY <1>i, <1>1, <1>9, Numbers DEF Session!TypeOK
<1>11. Session!TypeOK'
  BY <1>i, <1>1, <1>3, <1>10 DEF Session!TypeOK
<1>12. Asking' \subseteq Below' /\ Counting' \subseteq Below'
  BY <1>i, <1>5, <1>6 DEF CountInv
<1>13. CountInv'
  BY <1>i, <1>1, <1>3, <1>6, <1>7, <1>8, <1>12, Numbers DEF CountInv
<1>14. SettledInv'
  BY <1>i, <1>1 DEF SettledInv
<1> QED
  BY <1>3, <1>11, <1>13, <1>14 DEF SessionInv

LEMMA SessionStep == ASSUME SessionInv, Session!Next PROVE SessionInv'
<1>1. CASE \/ Session!Checks \/ Session!Lock \/ Session!Hub \/ Session!Stage \/ Session!Spawn
           \/ Session!Closes \/ Session!Runs \/ Session!Kill
  BY <1>1, CommandStep
<1>2. CASE Session!Clear
  BY <1>2, ClearStep
<1>3. ASSUME NEW h \in Handlers, Session!Ask(h) \/ Session!Errs(h) \/ \E slow \in BOOLEAN : Session!Note(h, slow)
      PROVE  SessionInv'
  <2>a. assists.slow \in BOOLEAN /\ [assists EXCEPT !.slow = assists.slow] = assists
    BY DEF SessionInv, Session!TypeOK
  <2>1. CASE Session!Ask(h) /\ Session!Cheap(h)
    BY <2>1, AskStep
  <2>2. CASE Session!Ask(h) /\ ~Session!Cheap(h)
    BY <2>2, <2>a, RestsStep DEF Session!Ask
  <2>3. CASE Session!Errs(h)
    BY <2>3, <2>a, RestsStep DEF Session!Errs
  <2>4. ASSUME NEW slow \in BOOLEAN, Session!Note(h, slow) PROVE SessionInv'
    BY <2>4, RestsStep DEF Session!Note
  <2> QED
    BY <1>3, <2>1, <2>2, <2>3, <2>4
<1> QED
  BY <1>1, <1>2, <1>3, ReadCallsStep, ReadLastStep, AnswersStep, CountStep DEF Session!Next

LEMMA SessionMeans ==
  SessionInv => Session!TypeOK /\ Session!BrowserUnderLock /\ Session!AssistBounded
<1> SUFFICES ASSUME SessionInv PROVE Session!TypeOK /\ Session!BrowserUnderLock /\ Session!AssistBounded
  OBVIOUS
<1>i. Session!TypeOK /\ PlaceInv /\ CountInv /\ SettledInv
  BY DEF SessionInv
<1>1. Session!BrowserUnderLock
  BY <1>i DEF PlaceInv, Session!BrowserUnderLock, Session!At, Session!TypeOK, Session!Places
<1>2. Session!AssistBounded
  BY <1>i DEF CountInv, SettledInv, Session!AssistBounded, Session!Never, Session!Cardinality, Cardinality
<1> QED
  BY <1>i, <1>1, <1>2

-----------------------------------------------------------------------------
(* The desktop's teach children and its history *)

\* What a file of the history may hold.
Runs == {r \in Seq(Desktop!Kids) : Len(r) <= MaxHistory}

DesktopTyped ==
  /\ teachSlot \in [child : 0..MaxKids, session : 0..MaxKids, status : 0..MaxKids]
  /\ kid \in [Desktop!Kids -> [at : {"unborn", "up", "dead"}, profile : Profiles,
                               said : BOOLEAN, read : BOOLEAN]]
  /\ pipe \in [Desktop!Kids -> Seq(Desktop!Lines)] /\ \A k \in Desktop!Kids : Len(pipe[k]) <= MaxLines
  /\ starting \in 0..MaxKids
  /\ history \in [runs : Runs, torn : BOOLEAN, was : Runs]
  /\ writing \in [Desktop!Kids -> [at : {"no", "noted", "loaded", "truncated"}, runs : Runs]]
  /\ teachOverlap \in BOOLEAN

\* The one child alive is the slot's or the start's, never one of each.
Slotted ==
  /\ starting # 0 => teachSlot.child = 0
  /\ Desktop!OneTeachChild /\ Desktop!OnlyEndedIntrude

\* Children are born in their order, and the slot's or the start's is the last;
\* only one that was born tells anything.
InOrder ==
  /\ \A k \in Desktop!Kids : kid[k].said => kid[k].at # "unborn"
  /\ \A k \in Desktop!Kids : writing[k].at = "noted" => kid[k].said
  /\ \A k \in Desktop!Kids : k = starting \/ k = teachSlot.child => kid[k].at # "unborn"
  /\ \A j, k \in Desktop!Kids : kid[k].at = "unborn" /\ k < j => kid[j].at = "unborn"
  /\ \A k \in Desktop!Kids : kid[k].at # "unborn" =>
       (starting # 0 => k <= starting) /\ (teachSlot.child # 0 => k <= teachSlot.child)

\* A child tells its session first and once.
ToldOnce ==
  \A k \in Desktop!Kids :
    /\ ~kid[k].said => pipe[k] = <<>> /\ ~kid[k].read
    /\ \A i \in 1..Len(pipe[k]) : pipe[k][i] = "session" => i = 1 /\ ~kid[k].read

\* While readers come to the file one at a time, the one at it has put its run
\* to those the file held.
OneReader ==
  ~teachOverlap =>
    /\ \A j, k \in Desktop!Kids : Desktop!Busy(j) /\ Desktop!Busy(k) => j = k
    /\ \A k \in Desktop!Kids :
         /\ writing[k].at = "loaded" => ~history.torn /\ writing[k].runs = Desktop!Upsert(history.runs, k)
         /\ writing[k].at = "truncated" => writing[k].runs = Desktop!Upsert(history.was, k)
    /\ (\A k \in Desktop!Kids : writing[k].at # "truncated") => ~history.torn
    /\ Desktop!HistoryKept

DesktopInv == DesktopTyped /\ Slotted /\ InOrder /\ ToldOnce /\ OneReader

\* What is left of the runs without those of a child: the others, each where it
\* was or one place before.
LEMMA LeftOfRuns ==
  ASSUME NEW r \in Seq(Desktop!Kids), NEW k \in Desktop!Kids
  PROVE  /\ Desktop!Without(r, k) \in Seq(Desktop!Kids)
         /\ \A i \in 1..Len(r) :
              r[i] = k \/ \E j \in 1..Len(Desktop!Without(r, k)) : j <= i /\ Desktop!Without(r, k)[j] = r[i]
<1> DEFINE w == Desktop!Without(r, k)
<1>0. Len(r) \in Nat /\ DOMAIN r = 1..Len(r)
  OBVIOUS
<1>1. CASE k \notin Desktop!Range(r)
  <2>1. Desktop!Without(r, k) = r
    BY <1>1 DEF Desktop!Without
  <2>2. \A i \in 1..Len(r) : i <= i
    BY <1>0
  <2> QED
    BY <2>1, <2>2
<1>2. CASE k \in Desktop!Range(r)
  <2> DEFINE n == CHOOSE i \in DOMAIN r : r[i] = k
  <2>1. n \in 1..Len(r) /\ r[n] = k
    BY <1>0, <1>2 DEF Desktop!Range
  <2>2. w = Removed(r, n)
    BY <1>2 DEF Desktop!Without, Removed
  <2>w. Desktop!Without(r, k) = w
    OBVIOUS
  <2> HIDE DEF w, n
  <2>3. /\ w \in Seq(Desktop!Kids) /\ Len(w) = Len(r) - 1
        /\ \A j \in 1..Len(w) : w[j] = IF j < n THEN r[j] ELSE r[j + 1]
    BY <2>1, <2>2, RemovedAt
  <2>4. ASSUME NEW i \in 1..Len(r)
        PROVE  r[i] = k \/ \E j \in 1..Len(w) : j <= i /\ w[j] = r[i]
    <3>1. CASE i < n
      <4>1. i \in 1..Len(w) /\ i <= i /\ w[i] = r[i]
        BY <1>0, <2>1, <2>3, <3>1
      <4> QED
        BY <4>1
    <3>2. CASE i = n
      BY <2>1, <3>2
    <3>3. CASE n < i
      <4>1. i - 1 \in 1..Len(w) /\ i - 1 <= i /\ ~(i - 1 < n) /\ (i - 1) + 1 = i
        BY <1>0, <2>1, <2>3, <3>3
      <4>2. w[i - 1] = r[i]
        BY <2>3, <4>1
      <4> QED
        BY <4>1, <4>2
    <3> QED
      BY <1>0, <2>1, <3>1, <3>2, <3>3
  <2> QED
    BY <2>w, <2>3, <2>4
<1> QED
  BY <1>1, <1>2

\* A child's run is put first, and of the others only the last of a full
\* history goes.
LEMMA Upserted ==
  ASSUME NEW r \in Seq(Desktop!Kids), NEW k \in Desktop!Kids
  PROVE  /\ Desktop!Upsert(r, k) \in Runs
         /\ \A i \in DOMAIN r : i < MaxHistory => r[i] \in Desktop!Range(Desktop!Upsert(r, k))
<1> DEFINE w   == Desktop!Without(r, k)
           one == << k >>
           all == one \o w
           n   == IF Len(all) < MaxHistory THEN Len(all) ELSE MaxHistory
           u   == SubSeq(all, 1, n)
<1>1. /\ w \in Seq(Desktop!Kids)
      /\ \A i \in 1..Len(r) : r[i] = k \/ \E j \in 1..Len(w) : j <= i /\ w[j] = r[i]
  BY LeftOfRuns, Zenon
<1>2. Desktop!Upsert(r, k) = u
  BY DEF Desktop!Upsert
<1> HIDE DEF w
<1>0. Len(w) \in Nat /\ MaxHistory \in Nat /\ Len(r) \in Nat /\ DOMAIN r = 1..Len(r)
  BY <1>1, RecordsAssumption
<1>3. one \in Seq(Desktop!Kids) /\ Len(one) = 1 /\ one[1] = k
  OBVIOUS
<1> HIDE DEF one
<1>4. /\ all \in Seq(Desktop!Kids) /\ Len(all) = Len(w) + 1 /\ all[1] = k
      /\ \A j \in 1..Len(w) : all[j + 1] = w[j]
  <2>1. /\ all \in Seq(Desktop!Kids) /\ Len(all) = Len(one) + Len(w)
        /\ \A i \in 1..(Len(one) + Len(w)) : all[i] = IF i <= Len(one) THEN one[i] ELSE w[i - Len(one)]
    BY <1>1, <1>3, ConcatProperties, ZenonT(40)
  <2> HIDE DEF all
  <2>2. all[1] = k
    BY <1>0, <1>3, <2>1
  <2>3. ASSUME NEW j \in 1..Len(w) PROVE all[j + 1] = w[j]
    <3>1. j + 1 \in 1..(1 + Len(w)) /\ ~(j + 1 <= 1) /\ (j + 1) - 1 = j
      BY <1>0
    <3> QED
      BY <1>3, <2>1, <3>1
  <2> QED
    BY <1>0, <1>3, <2>1, <2>2, <2>3
<1> HIDE DEF all
<1>5. n \in Nat /\ n <= MaxHistory /\ n <= Len(w) + 1 /\ (n = Len(w) + 1 \/ n = MaxHistory)
  BY <1>0, <1>4
<1> HIDE DEF n
<1>6. u \in Seq(Desktop!Kids) /\ Len(u) = n /\ \A j \in 1..n : u[j] = all[j]
  <2>1. \A j \in 1..Len(all) : all[j] \in Desktop!Kids
    BY <1>4
  <2>2. 1 \in Int /\ n \in Int /\ \A j \in 1..n : all[j] \in Desktop!Kids
    BY <1>0, <1>4, <1>5, <2>1
  <2>3. /\ u \in Seq(Desktop!Kids) /\ Len(u) = (IF 1 <= n THEN n - 1 + 1 ELSE 0)
        /\ \A j \in 1..(n - 1 + 1) : u[j] = all[1 + j - 1]
    BY <2>2, SubSeqProperties
  <2>4. n - 1 + 1 = n /\ (IF 1 <= n THEN n - 1 + 1 ELSE 0) = n /\ \A j \in 1..n : 1 + j - 1 = j
    BY <1>5
  <2> HIDE DEF u
  <2> QED
    BY <2>3, <2>4
<1> HIDE DEF u
<1>7. \A j \in 1..n : u[j] \in Desktop!Range(u)
  BY <1>6 DEF Desktop!Range
<1>8. ASSUME NEW i \in DOMAIN r, i < MaxHistory
      PROVE  r[i] \in Desktop!Range(u)
  <2>0. i \in 1..Len(r) /\ i \in Nat /\ i >= 1
    BY <1>0
  <2>1. CASE r[i] = k
    <3>1. 1 \in 1..n
      BY <1>0, <1>5, <1>8, <2>0
    <3> QED
      BY <1>4, <1>6, <1>7, <2>1, <3>1
  <2>2. ASSUME NEW j \in 1..Len(w), j <= i, w[j] = r[i]
        PROVE  r[i] \in Desktop!Range(u)
    <3>1. j + 1 \in 1..n
      BY <1>0, <1>5, <1>8, <2>0, <2>2
    <3> QED
      BY <1>4, <1>6, <1>7, <2>2, <3>1
  <2> QED
    BY <1>1, <2>0, <2>1, <2>2
<1>9. u \in Runs
  BY <1>5, <1>6 DEF Runs
<1> QED
  BY <1>2, <1>8, <1>9

LEMMA DesktopInit == Desktop!Init => DesktopInv
<1> SUFFICES ASSUME Desktop!Init PROVE DesktopInv
  OBVIOUS
<1>0. MaxKids \in Nat /\ MaxLines \in Nat /\ MaxHistory \in Nat /\ Profiles # {} /\ 0 \in 0..MaxKids
  BY RecordsAssumption
<1>1. <<>> \in Runs /\ <<>> \in Seq(Desktop!Lines)
  BY <1>0 DEF Runs
<1>a. /\ Desktop!Unborn \in [at : {"unborn", "up", "dead"}, profile : Profiles, said : BOOLEAN, read : BOOLEAN]
      /\ Len(<<>>) <= MaxLines
  BY <1>0 DEF Desktop!Unborn
<1>b. /\ teachSlot \in [child : 0..MaxKids, session : 0..MaxKids, status : 0..MaxKids] /\ starting \in 0..MaxKids
      /\ teachOverlap \in BOOLEAN
  BY <1>0 DEF Desktop!Init, Desktop!None
<1>c. /\ kid \in [Desktop!Kids -> [at : {"unborn", "up", "dead"}, profile : Profiles,
                                   said : BOOLEAN, read : BOOLEAN]]
      /\ pipe \in [Desktop!Kids -> Seq(Desktop!Lines)] /\ \A k \in Desktop!Kids : Len(pipe[k]) <= MaxLines
  BY <1>1, <1>a DEF Desktop!Init
<1>d. /\ history \in [runs : Runs, torn : BOOLEAN, was : Runs]
      /\ writing \in [Desktop!Kids -> [at : {"no", "noted", "loaded", "truncated"}, runs : Runs]]
  BY <1>1 DEF Desktop!Init
<1>2. DesktopTyped
  BY <1>b, <1>c, <1>d DEF DesktopTyped
<1>3. \A k \in Desktop!Kids : /\ kid[k].at = "unborn" /\ ~kid[k].said /\ ~kid[k].read
                              /\ pipe[k] = <<>> /\ writing[k].at = "no"
  BY DEF Desktop!Init, Desktop!Unborn
<1>4. Slotted
  BY <1>3 DEF Slotted, Desktop!Init, Desktop!None, Desktop!OneTeachChild, Desktop!OnlyEndedIntrude
<1>o. InOrder
  <2>1. teachSlot.child = 0 /\ starting = 0
    BY DEF Desktop!Init, Desktop!None
  <2>2. 0 \notin Desktop!Kids
    BY <1>0 DEF Desktop!Kids
  <2> QED
    BY <1>3, <2>1, <2>2 DEF InOrder
<1>5. ToldOnce
  BY <1>3 DEF ToldOnce
<1>6. OneReader
  BY <1>3 DEF OneReader, Desktop!Init, Desktop!Busy, Desktop!HistoryKept
<1> QED
  BY <1>2, <1>4, <1>5, <1>6, <1>o DEF DesktopInv

\* The child that is started is one that was not yet.
LEMMA SpawnedIsNew ==
  ASSUME DesktopTyped, NEW ks, NEW p, \E k \in Desktop!Kids : kid[k].at = "unborn"
  PROVE  \E k \in Desktop!Kids :
           /\ kid[k].at = "unborn"
           /\ \A y \in Desktop!Kids : y < k => kid[y].at # "unborn"
           /\ Desktop!Spawned(ks, p)[1] = k
           /\ Desktop!Spawned(ks, p)[2] = [ks EXCEPT ![k].at = "up", ![k].profile = p]
<1> DEFINE New(x) == kid[x].at = "unborn" /\ \A y \in 1..(x - 1) : kid[y].at # "unborn"
           k == CHOOSE x \in Desktop!Kids : New(x)
<1>0. MaxKids \in Nat /\ Desktop!Kids = 1..MaxKids
  BY RecordsAssumption DEF Desktop!Kids
<1>1. \E x \in Desktop!Kids : New(x)
  <2> DEFINE T == {x \in Desktop!Kids : kid[x].at = "unborn"}
  <2>1. T \in SUBSET Nat /\ T # {}
    BY <1>0
  <2>2. PICK n \in T : \A m \in T : ~(m < n)
    BY <2>1, Least
  <2>3. n \in Desktop!Kids /\ kid[n].at = "unborn"
    OBVIOUS
  <2>4. ASSUME NEW y \in 1..(n - 1) PROVE kid[y].at # "unborn"
    <3>1. y \in Desktop!Kids /\ y < n
      BY <1>0, <2>3
    <3> QED
      BY <2>2, <3>1
  <2> QED
    BY <2>3, <2>4
<1>2. k \in Desktop!Kids /\ New(k)
  BY <1>1
<1>3. Desktop!Spawned(ks, p) = <<k, [ks EXCEPT ![k].at = "up", ![k].profile = p]>>
  BY DEF Desktop!Spawned
<1>4. kid[k].at = "unborn" /\ \A y \in Desktop!Kids : y < k => kid[y].at # "unborn"
  BY <1>0, <1>2
<1>5. /\ Desktop!Spawned(ks, p)[1] = k
      /\ Desktop!Spawned(ks, p)[2] = [ks EXCEPT ![k].at = "up", ![k].profile = p]
  BY <1>3
<1> HIDE DEF k, New
<1> QED
  BY <1>2, <1>4, <1>5

\* What a step leaves of the history when it does not come to it.
LEMMA HistoryAside ==
  ASSUME OneReader, UNCHANGED <<history, teachOverlap>>,
         \A k \in Desktop!Kids : \/ writing'[k] = writing[k]
                                 \/ ~Desktop!Busy(k) /\ ~Desktop!Busy(k)'
  PROVE  OneReader'
<1>1. history' = history /\ teachOverlap' = teachOverlap
  OBVIOUS
<1>2. \A k \in Desktop!Kids : /\ Desktop!Upsert(history.runs, k)' = Desktop!Upsert(history.runs, k)
                              /\ Desktop!Upsert(history.was, k)' = Desktop!Upsert(history.was, k)
                              /\ Desktop!Busy(k)' <=> Desktop!Busy(k)
                              /\ Desktop!Busy(k) => writing'[k] = writing[k]
                              /\ writing'[k].at = "truncated" <=> writing[k].at = "truncated"
                              /\ writing'[k].at = "loaded" <=> writing[k].at = "loaded"
  BY <1>1 DEF Desktop!Upsert, Desktop!Without, Desktop!Busy
<1>3. Desktop!HistoryKept' <=> Desktop!HistoryKept
  BY <1>1 DEF Desktop!HistoryKept
<1>4. \A k \in Desktop!Kids : writing[k].at \in {"loaded", "truncated"} <=> Desktop!Busy(k)
  BY DEF Desktop!Busy
<1> QED
  BY <1>1, <1>2, <1>3, <1>4 DEF OneReader

LEMMA EmitStep ==
  ASSUME DesktopInv, NEW k \in Desktop!Kids, NEW line \in Desktop!Lines, Desktop!Emit(k, line)
  PROVE  DesktopInv'
<1>i. DesktopTyped /\ Slotted /\ InOrder /\ ToldOnce /\ OneReader
  BY DEF DesktopInv
<1> DEFINE q == Append(pipe[k], line)
<1>1. /\ kid[k].at = "up" /\ Len(pipe[k]) < MaxLines /\ (line = "session") = ~kid[k].said
      /\ pipe' = [pipe EXCEPT ![k] = q] /\ kid' = [kid EXCEPT ![k].said = TRUE]
      /\ UNCHANGED <<teachSlot, starting, history, writing, teachOverlap>>
  BY DEF Desktop!Emit
<1>2. /\ pipe[k] \in Seq(Desktop!Lines) /\ Len(pipe[k]) \in Nat
      /\ kid[k].said \in BOOLEAN /\ kid[k].read \in BOOLEAN
  BY <1>i DEF DesktopTyped
<1>3. /\ q \in Seq(Desktop!Lines) /\ Len(q) = Len(pipe[k]) + 1
      /\ \A i \in 1..Len(pipe[k]) : q[i] = pipe[k][i]
      /\ q[Len(pipe[k]) + 1] = line
  BY <1>2, AppendProperties
<1> HIDE DEF q
<1>4. \A j \in Desktop!Kids : /\ kid'[j].at = kid[j].at /\ kid'[j].read = kid[j].read
                              /\ kid'[j].said = IF j = k THEN TRUE ELSE kid[j].said
                              /\ pipe'[j] = IF j = k THEN q ELSE pipe[j]
  BY <1>i, <1>1 DEF DesktopTyped
<1>5. DesktopTyped'
  <2>1. MaxLines \in Nat
    BY RecordsAssumption
  <2>2. Len(q) <= MaxLines
    BY <1>1, <1>2, <1>3, <2>1
  <2>3. kid' \in [Desktop!Kids -> [at : {"unborn", "up", "dead"}, profile : Profiles,
                                   said : BOOLEAN, read : BOOLEAN]]
    BY <1>i, <1>1, ZenonT(40) DEF DesktopTyped
  <2>4. pipe' \in [Desktop!Kids -> Seq(Desktop!Lines)] /\ \A j \in Desktop!Kids : Len(pipe'[j]) <= MaxLines
    BY <1>i, <1>1, <1>3, <1>4, <2>2 DEF DesktopTyped
  <2> QED
    BY <1>i, <1>1, <2>3, <2>4 DEF DesktopTyped
<1>6. Slotted'
  BY <1>i, <1>1, <1>4 DEF Slotted, DesktopTyped, Desktop!OneTeachChild, Desktop!OnlyEndedIntrude
<1>o. InOrder'
  BY <1>i, <1>1, <1>4 DEF InOrder
<1>7. ToldOnce'
  <2>1. ASSUME NEW i \in 1..Len(q), q[i] = "session" PROVE i = 1 /\ ~kid[k].read
    <3>1. CASE line = "session"
      <4>1. pipe[k] = <<>> /\ ~kid[k].read
        BY <1>i, <1>1, <1>2, <3>1 DEF ToldOnce
      <4> QED
        BY <1>3, <2>1, <4>1
    <3>2. CASE line # "session"
      <4>1. i \in 1..Len(pipe[k]) /\ pipe[k][i] = "session"
        BY <1>2, <1>3, <2>1, <3>2
      <4> QED
        BY <1>i, <4>1 DEF ToldOnce
    <3> QED
      BY <3>1, <3>2
  <2>2. ASSUME NEW j \in Desktop!Kids
        PROVE  /\ ~kid'[j].said => pipe'[j] = <<>> /\ ~kid'[j].read
               /\ \A i \in 1..Len(pipe'[j]) : pipe'[j][i] = "session" => i = 1 /\ ~kid'[j].read
    <3>1. CASE j = k
      BY <1>4, <2>1, <3>1
    <3>2. CASE j # k
      <4>1. kid'[j].said = kid[j].said /\ kid'[j].read = kid[j].read /\ pipe'[j] = pipe[j]
        BY <1>4, <3>2
      <4> QED
        BY <1>i, <4>1 DEF ToldOnce
    <3> QED
      BY <3>1, <3>2
  <2> QED
    BY <2>2 DEF ToldOnce
<1>8. OneReader'
  BY <1>i, <1>1, HistoryAside
<1> QED
  BY <1>5, <1>6, <1>7, <1>8, <1>o DEF DesktopInv

\* Children that end, by themselves or by a command.
LEMMA ChildEndsStep ==
  ASSUME DesktopInv, NEW k \in Desktop!Kids, Desktop!ChildEnds(k)
  PROVE  DesktopInv'
<1>i. DesktopTyped /\ Slotted /\ InOrder /\ ToldOnce /\ OneReader
  BY DEF DesktopInv
<1>1. /\ kid[k].at = "up" /\ kid' = [kid EXCEPT ![k].at = "dead"]
      /\ UNCHANGED <<teachSlot, pipe, starting, history, writing, teachOverlap>>
  BY DEF Desktop!ChildEnds
<1>2. \A j \in Desktop!Kids : /\ kid'[j].at = IF j = k THEN "dead" ELSE kid[j].at
                              /\ kid'[j].read = kid[j].read /\ kid'[j].said = kid[j].said
  BY <1>i, <1>1 DEF DesktopTyped
<1>3. DesktopTyped'
  BY <1>i, <1>1, ZenonT(40) DEF DesktopTyped
<1>4. Slotted'
  BY <1>i, <1>1, <1>2 DEF Slotted, DesktopTyped, Desktop!OneTeachChild, Desktop!OnlyEndedIntrude
<1>o. InOrder'
  BY <1>i, <1>1, <1>2 DEF InOrder
<1>5. ToldOnce'
  BY <1>i, <1>1, <1>2 DEF ToldOnce
<1>6. OneReader'
  BY <1>i, <1>1, HistoryAside
<1> QED
  BY <1>3, <1>4, <1>5, <1>6, <1>o DEF DesktopInv

LEMMA StartStep ==
  ASSUME DesktopInv, NEW p \in Profiles, Desktop!Start(p)
  PROVE  DesktopInv'
<1>i. DesktopTyped /\ Slotted /\ InOrder /\ ToldOnce /\ OneReader
  BY DEF DesktopInv
<1> DEFINE ks == IF teachSlot.child = 0 THEN kid ELSE Desktop!Terminated(teachSlot.child)
<1>1. /\ starting = 0 /\ \E k \in Desktop!Kids : kid[k].at = "unborn"
      /\ starting' = Desktop!Spawned(ks, p)[1] /\ kid' = Desktop!Spawned(ks, p)[2]
      /\ teachSlot' = [child |-> 0, session |-> 0, status |-> 0]
      /\ UNCHANGED <<pipe, history, writing, teachOverlap>>
  BY DEF Desktop!Start, Desktop!None
<1>0. MaxKids \in Nat /\ Desktop!Kids = 1..MaxKids /\ 0 \in 0..MaxKids
  BY RecordsAssumption DEF Desktop!Kids
<1>2. /\ ks \in [Desktop!Kids -> [at : {"unborn", "up", "dead"}, profile : Profiles,
                                  said : BOOLEAN, read : BOOLEAN]]
      /\ \A j \in Desktop!Kids : /\ ks[j].at = "up" => kid[j].at = "up" /\ j # teachSlot.child
                                 /\ (ks[j].at = "unborn") = (kid[j].at = "unborn")
                                 /\ ks[j].read = kid[j].read /\ ks[j].said = kid[j].said
  <2>1. CASE teachSlot.child = 0
    BY <1>i, <1>0, <2>1 DEF DesktopTyped
  <2>2. CASE teachSlot.child # 0
    <3>1. ks = [kid EXCEPT ![teachSlot.child].at = "dead"]
      BY <2>2 DEF Desktop!Terminated
    <3>2. teachSlot.child \in Desktop!Kids
      BY <1>i, <1>0, <2>2 DEF DesktopTyped
    <3> DEFINE c == teachSlot.child
    <3> HIDE DEF ks
    <3>3. ks = [kid EXCEPT ![c].at = "dead"] /\ c \in Desktop!Kids
      BY <3>1, <3>2
    <3> HIDE DEF c
    <3>k. kid \in [Desktop!Kids -> [at : {"unborn", "up", "dead"}, profile : Profiles,
                                    said : BOOLEAN, read : BOOLEAN]]
      BY <1>i DEF DesktopTyped
    <3>4. ks \in [Desktop!Kids -> [at : {"unborn", "up", "dead"}, profile : Profiles,
                                  said : BOOLEAN, read : BOOLEAN]]
      <4> DEFINE r == [kid[c] EXCEPT !.at = "dead"]
      <4>1. r \in [at : {"unborn", "up", "dead"}, profile : Profiles, said : BOOLEAN, read : BOOLEAN]
        BY <3>3, <3>k
      <4>2. ks = [kid EXCEPT ![c] = r]
        BY <3>3
      <4> HIDE DEF r
      <4> QED
        BY <3>3, <3>k, <4>1, <4>2
    <3>5. \A j \in Desktop!Kids : /\ ks[j].at = IF j = c THEN "dead" ELSE kid[j].at
                                  /\ ks[j].read = kid[j].read /\ ks[j].said = kid[j].said
      BY <3>3, <3>k
    <3>b. kid[c].at # "unborn"
      BY <1>i, <2>2, <3>3 DEF Slotted, InOrder, c
    <3>6. \A j \in Desktop!Kids : /\ ks[j].at = "up" => j # c /\ kid[j].at = "up"
                                  /\ (ks[j].at = "unborn") = (kid[j].at = "unborn")
      BY <3>5, <3>b
    <3> QED
      BY <3>4, <3>5, <3>6 DEF c
  <2> QED
    BY <2>1, <2>2
<1> HIDE DEF ks
<1>u. \E k \in Desktop!Kids : kid[k].at = "unborn"
  BY <1>1
<1>v. PICK k \in Desktop!Kids :
        /\ kid[k].at = "unborn"
        /\ \A y \in Desktop!Kids : y < k => kid[y].at # "unborn"
        /\ Desktop!Spawned(ks, p)[1] = k
        /\ Desktop!Spawned(ks, p)[2] = [ks EXCEPT ![k].at = "up", ![k].profile = p]
  BY <1>i, <1>u, SpawnedIsNew, Zenon
<1>3. starting' = k /\ kid' = [ks EXCEPT ![k].at = "up", ![k].profile = p]
  BY <1>1, <1>v
<1>4. \A j \in Desktop!Kids : /\ (kid'[j].at = "unborn") = (kid[j].at = "unborn" /\ j # k)
                              /\ kid'[j].at = "up" => j = k \/ (kid[j].at = "up" /\ j # teachSlot.child)
                              /\ kid'[j].read = kid[j].read /\ kid'[j].said = kid[j].said
  BY <1>2, <1>3
<1>5. DesktopTyped'
  <2>1. kid' \in [Desktop!Kids -> [at : {"unborn", "up", "dead"}, profile : Profiles,
                                   said : BOOLEAN, read : BOOLEAN]]
    <3> DEFINE d == [ks[k] EXCEPT !.at = "up"]
               e == [d EXCEPT !.profile = p]
    <3>1. kid' = [ks EXCEPT ![k] = e]
      BY <1>2, <1>3
    <3>a. d \in [at : {"unborn", "up", "dead"}, profile : Profiles, said : BOOLEAN, read : BOOLEAN]
      BY <1>2
    <3> HIDE DEF d
    <3>2. e \in [at : {"unborn", "up", "dead"}, profile : Profiles, said : BOOLEAN, read : BOOLEAN]
      BY <3>a
    <3> HIDE DEF e
    <3> QED
      BY <1>2, <3>1, <3>2
  <2>2. starting' \in 0..MaxKids
    BY <1>0, <1>3
  <2> QED
    BY <1>i, <1>0, <1>1, <2>1, <2>2 DEF DesktopTyped
<1>6. Desktop!OneTeachChild'
  <2> SUFFICES ASSUME NEW j \in Desktop!Kids, kid'[j].at = "up" PROVE j = starting'
    BY DEF Desktop!OneTeachChild
  <2>1. CASE j # k
    <3>1. kid[j].at = "up" /\ j # teachSlot.child /\ j # 0
      BY <1>0, <1>4, <2>1
    <3> QED
      BY <1>i, <1>1, <3>1 DEF Slotted, Desktop!OneTeachChild
  <2> QED
    BY <1>3, <2>1
<1>7. InOrder'
  <2>1. \A j \in Desktop!Kids : kid[j].at # "unborn" => j < k
    BY <1>i, <1>0, <1>v DEF InOrder
  <2>2. \A j \in Desktop!Kids : kid'[j].at # "unborn" => j <= k
    BY <1>0, <1>4, <2>1
  <2>3. \A x, j \in Desktop!Kids : kid'[x].at = "unborn" /\ x < j => kid'[j].at = "unborn"
    BY <1>i, <1>0, <1>4, <1>v DEF InOrder
  <2>4. \A j \in Desktop!Kids : kid'[j].said => kid'[j].at # "unborn"
    BY <1>i, <1>4 DEF InOrder
  <2>5. \A j \in Desktop!Kids : writing'[j].at = "noted" => kid'[j].said
    BY <1>i, <1>1, <1>4 DEF InOrder
  <2>6. kid'[k].at # "unborn" /\ teachSlot'.child = 0 /\ 0 \notin Desktop!Kids
    BY <1>0, <1>1, <1>4
  <2> QED
    BY <1>3, <2>2, <2>3, <2>4, <2>5, <2>6 DEF InOrder
<1>8. Slotted'
  BY <1>i, <1>1, <1>6 DEF Slotted, Desktop!OnlyEndedIntrude
<1>9. ToldOnce'
  BY <1>i, <1>1, <1>4 DEF ToldOnce
<1>10. OneReader'
  BY <1>i, <1>1, HistoryAside
<1> QED
  BY <1>5, <1>7, <1>8, <1>9, <1>10 DEF DesktopInv

LEMMA StartEndsStep ==
  ASSUME DesktopInv, Desktop!StartAnswers \/ Desktop!StartFails
  PROVE  DesktopInv'
<1>i. DesktopTyped /\ Slotted /\ InOrder /\ ToldOnce /\ OneReader
  BY DEF DesktopInv
<1>0. MaxKids \in Nat /\ Desktop!Kids = 1..MaxKids /\ 0 \in 0..MaxKids
  BY RecordsAssumption DEF Desktop!Kids
<1>k. starting \in Desktop!Kids
  BY <1>i, <1>0 DEF DesktopTyped, Desktop!StartAnswers, Desktop!StartFails, Desktop!Started
<1>1. CASE Desktop!StartAnswers
  <2>1. /\ kid[starting].read /\ starting # 0
        /\ teachSlot' = [child |-> starting, session |-> starting, status |-> 0]
        /\ starting' = 0
        /\ UNCHANGED <<kid, pipe, history, writing, teachOverlap>>
    BY <1>1 DEF Desktop!StartAnswers, Desktop!Started
  <2>2. DesktopTyped'
    BY <1>i, <1>0, <1>k, <2>1 DEF DesktopTyped
  <2>3. Desktop!OneTeachChild'
    <3> SUFFICES ASSUME NEW j \in Desktop!Kids, kid[j].at = "up" PROVE j = starting
      BY <2>1 DEF Desktop!OneTeachChild
    <3> QED
      BY <1>i, <1>0, <2>1 DEF Slotted, Desktop!OneTeachChild
  <2>4. Slotted'
    BY <1>i, <2>1, <2>3 DEF Slotted, Desktop!OnlyEndedIntrude
  <2>o. InOrder'
    BY <1>i, <1>0, <2>1 DEF InOrder
  <2>5. ToldOnce'
    BY <1>i, <2>1 DEF ToldOnce
  <2>6. OneReader'
    BY <1>i, <2>1, HistoryAside
  <2> QED
    BY <2>2, <2>4, <2>5, <2>6, <2>o DEF DesktopInv
<1>2. CASE Desktop!StartFails
  <2>1. /\ starting # 0 /\ kid' = [kid EXCEPT ![starting].at = "dead"] /\ starting' = 0
        /\ UNCHANGED <<teachSlot, pipe, history, writing, teachOverlap>>
    BY <1>2 DEF Desktop!StartFails
  <2>2. \A j \in Desktop!Kids : /\ kid'[j].at = IF j = starting THEN "dead" ELSE kid[j].at
                                /\ kid'[j].read = kid[j].read /\ kid'[j].said = kid[j].said
    BY <1>i, <1>k, <2>1 DEF DesktopTyped
  <2>k. kid' \in [Desktop!Kids -> [at : {"unborn", "up", "dead"}, profile : Profiles,
                                   said : BOOLEAN, read : BOOLEAN]]
    BY <1>i, <1>k, <2>1, ZenonT(40) DEF DesktopTyped
  <2>3. DesktopTyped'
    BY <1>i, <1>0, <2>1, <2>k DEF DesktopTyped
  <2>4. Desktop!OneTeachChild'
    BY <1>i, <2>1, <2>2 DEF Slotted, Desktop!OneTeachChild
  <2>5. Slotted'
    BY <1>i, <2>1, <2>2, <2>4 DEF Slotted, DesktopTyped, Desktop!OnlyEndedIntrude
  <2>b. kid[starting].at # "unborn"
    BY <1>i, <1>k, <2>1 DEF InOrder
  <2>o. InOrder'
    BY <1>i, <1>0, <2>1, <2>2, <2>b DEF InOrder
  <2>6. ToldOnce'
    BY <1>i, <2>1, <2>2 DEF ToldOnce
  <2>7. OneReader'
    BY <1>i, <2>1, HistoryAside
  <2> QED
    BY <2>3, <2>5, <2>6, <2>7, <2>o DEF DesktopInv
<1> QED
  BY <1>1, <1>2

LEMMA StopStep == ASSUME DesktopInv, Desktop!Stop PROVE DesktopInv'
<1>i. DesktopTyped /\ Slotted /\ InOrder /\ ToldOnce /\ OneReader
  BY DEF DesktopInv
<1> DEFINE c == teachSlot.child
<1>0. MaxKids \in Nat /\ Desktop!Kids = 1..MaxKids /\ 0 \in 0..MaxKids
  BY RecordsAssumption DEF Desktop!Kids
<1>1. /\ starting = 0 /\ c # 0 /\ kid' = [kid EXCEPT ![c].at = "dead"]
      /\ teachSlot' = [child |-> 0, session |-> 0, status |-> 0]
      /\ UNCHANGED <<pipe, starting, history, writing, teachOverlap>>
  BY DEF Desktop!Stop, Desktop!Terminated, Desktop!None
<1>2. c \in Desktop!Kids
  BY <1>i, <1>0, <1>1 DEF DesktopTyped
<1>a. \A j \in Desktop!Kids : kid[j].at = "up" => j = c
  BY <1>i, <1>0, <1>1 DEF Slotted, Desktop!OneTeachChild
<1> HIDE DEF c
<1>3. \A j \in Desktop!Kids : /\ kid'[j].at = IF j = c THEN "dead" ELSE kid[j].at
                              /\ kid'[j].read = kid[j].read /\ kid'[j].said = kid[j].said
  BY <1>i, <1>1, <1>2 DEF DesktopTyped
<1>k. kid' \in [Desktop!Kids -> [at : {"unborn", "up", "dead"}, profile : Profiles,
                                 said : BOOLEAN, read : BOOLEAN]]
  BY <1>i, <1>1, <1>2, ZenonT(40) DEF DesktopTyped
<1>4. DesktopTyped'
  BY <1>i, <1>0, <1>1, <1>k DEF DesktopTyped
<1>5. Desktop!OneTeachChild'
  BY <1>a, <1>3 DEF Desktop!OneTeachChild
<1>b. kid[c].at # "unborn"
  BY <1>i, <1>1, <1>2 DEF InOrder, c
<1>6. InOrder'
  BY <1>i, <1>0, <1>1, <1>3, <1>b DEF InOrder
<1>7. Slotted'
  BY <1>i, <1>1, <1>5 DEF Slotted, Desktop!OnlyEndedIntrude
<1>8. ToldOnce'
  BY <1>i, <1>1, <1>3 DEF ToldOnce
<1>9. OneReader'
  BY <1>i, <1>1, HistoryAside
<1> QED
  BY <1>4, <1>6, <1>7, <1>8, <1>9 DEF DesktopInv

\* What a reader takes out of its pipe is the first line of it.
LEMMA LineRead ==
  ASSUME DesktopInv, NEW k \in Desktop!Kids, NEW line \in Desktop!Lines, Desktop!Next1(k, line),
         pipe' = [pipe EXCEPT ![k] = Tail(@)]
  PROVE  /\ pipe' \in [Desktop!Kids -> Seq(Desktop!Lines)]
         /\ \A j \in Desktop!Kids : Len(pipe'[j]) <= MaxLines
         /\ \A j \in Desktop!Kids : j # k => pipe'[j] = pipe[j]
         /\ \A j \in Desktop!Kids : ~kid[j].said => pipe'[j] = <<>>
         /\ \A i \in 1..Len(pipe'[k]) : pipe'[k][i] # "session"
         /\ line = "session" => ~kid[k].read
         /\ kid[k].said
<1>i. DesktopTyped /\ ToldOnce
  BY DEF DesktopInv
<1> DEFINE q == Tail(pipe[k])
<1>1. pipe[k] \in Seq(Desktop!Lines) /\ pipe[k] # <<>> /\ pipe[k][1] = line /\ Len(pipe[k]) <= MaxLines
  BY <1>i DEF DesktopTyped, Desktop!Next1
<1>2. /\ q \in Seq(Desktop!Lines) /\ Len(q) = Len(pipe[k]) - 1 /\ Len(pipe[k]) \in Nat /\ Len(pipe[k]) >= 1
      /\ \A i \in 1..(Len(pipe[k]) - 1) : q[i] = pipe[k][i + 1]
  BY <1>1
<1>3. pipe' = [pipe EXCEPT ![k] = q]
  OBVIOUS
<1> HIDE DEF q
<1>4. \A j \in Desktop!Kids : pipe'[j] = IF j = k THEN q ELSE pipe[j]
  BY <1>i, <1>3 DEF DesktopTyped
<1>5. Len(q) <= MaxLines
  BY <1>1, <1>2, RecordsAssumption
<1>6. pipe' \in [Desktop!Kids -> Seq(Desktop!Lines)]
  BY <1>i, <1>2, <1>3 DEF DesktopTyped
<1>7. \A j \in Desktop!Kids : Len(pipe'[j]) <= MaxLines
  BY <1>i, <1>4, <1>5 DEF DesktopTyped
<1>8. ASSUME NEW i \in 1..Len(q) PROVE q[i] # "session"
  <2>1. i + 1 \in 1..Len(pipe[k]) /\ i + 1 # 1 /\ q[i] = pipe[k][i + 1]
    BY <1>2
  <2> QED
    BY <1>i, <2>1 DEF ToldOnce
<1>9. line = "session" => ~kid[k].read
  <2>1. 1 \in 1..Len(pipe[k])
    BY <1>2
  <2> QED
    BY <1>i, <1>1, <2>1 DEF ToldOnce
<1>10. kid[k].said
  BY <1>i, <1>1 DEF ToldOnce
<1> QED
  BY <1>i, <1>4, <1>6, <1>7, <1>8, <1>9, <1>10 DEF ToldOnce

LEMMA ReadSessionStep ==
  ASSUME DesktopInv, NEW k \in Desktop!Kids, Desktop!ReadSession(k)
  PROVE  DesktopInv'
<1>i. DesktopTyped /\ Slotted /\ InOrder /\ ToldOnce /\ OneReader
  BY DEF DesktopInv
<1>1. /\ Desktop!Next1(k, "session") /\ pipe' = [pipe EXCEPT ![k] = Tail(@)]
      /\ kid' = [kid EXCEPT ![k].read = TRUE]
      /\ writing' = [writing EXCEPT ![k].at = "noted"]
      /\ UNCHANGED <<teachSlot, starting, history, teachOverlap>>
  BY DEF Desktop!ReadSession
<1>2. "session" \in Desktop!Lines
  BY DEF Desktop!Lines
<1>3. /\ pipe' \in [Desktop!Kids -> Seq(Desktop!Lines)]
      /\ \A j \in Desktop!Kids : Len(pipe'[j]) <= MaxLines
      /\ \A j \in Desktop!Kids : j # k => pipe'[j] = pipe[j]
      /\ \A j \in Desktop!Kids : ~kid[j].said => pipe'[j] = <<>>
      /\ \A i \in 1..Len(pipe'[k]) : pipe'[k][i] # "session"
      /\ ~kid[k].read /\ kid[k].said
  BY <1>1, <1>2, LineRead
<1>4. \A j \in Desktop!Kids : /\ kid'[j].at = kid[j].at /\ kid'[j].said = kid[j].said
                              /\ kid'[j].read = IF j = k THEN TRUE ELSE kid[j].read
  BY <1>i, <1>1 DEF DesktopTyped
<1>5. /\ kid' \in [Desktop!Kids -> [at : {"unborn", "up", "dead"}, profile : Profiles,
                                    said : BOOLEAN, read : BOOLEAN]]
      /\ writing' \in [Desktop!Kids -> [at : {"no", "noted", "loaded", "truncated"}, runs : Runs]]
  BY <1>i, <1>1, ZenonT(40) DEF DesktopTyped
<1>6. \A j \in Desktop!Kids : /\ j # k => writing'[j] = writing[j]
                              /\ writing[k].at = "no" /\ writing'[k].at = "noted"
  BY <1>i, <1>1 DEF DesktopTyped, Desktop!Next1
<1>7. DesktopTyped'
  BY <1>i, <1>1, <1>3, <1>5 DEF DesktopTyped
<1>8. Slotted'
  BY <1>i, <1>1, <1>4 DEF Slotted, DesktopTyped, Desktop!OneTeachChild, Desktop!OnlyEndedIntrude, Desktop!Kids
<1>9. InOrder'
  BY <1>i, <1>1, <1>3, <1>4, <1>6 DEF InOrder
<1>10. ToldOnce'
  <2>1. ASSUME NEW j \in Desktop!Kids
        PROVE  /\ ~kid'[j].said => pipe'[j] = <<>> /\ ~kid'[j].read
               /\ \A i \in 1..Len(pipe'[j]) : pipe'[j][i] = "session" => i = 1 /\ ~kid'[j].read
    <3>1. CASE j = k
      BY <1>3, <1>4, <3>1
    <3>2. CASE j # k
      <4>1. pipe'[j] = pipe[j] /\ kid'[j].said = kid[j].said /\ kid'[j].read = kid[j].read
        BY <1>3, <1>4, <3>2
      <4> QED
        BY <1>i, <4>1 DEF ToldOnce
    <3> QED
      BY <3>1, <3>2
  <2> QED
    BY <2>1 DEF ToldOnce
<1>11. OneReader'
  BY <1>i, <1>1, <1>6, HistoryAside DEF Desktop!Busy
<1> QED
  BY <1>7, <1>8, <1>9, <1>10, <1>11 DEF DesktopInv

\* A line put in the slot is of its child, or of one that came before: readers
\* outlive their children.
LEMMA LineComes ==
  ASSUME DesktopInv, NEW k \in Desktop!Kids, kid[k].said, teachSlot.child # 0, k # teachSlot.child
  PROVE  k < teachSlot.child /\ kid[k].at = "dead"
<1>i. DesktopTyped /\ Slotted /\ InOrder
  BY DEF DesktopInv
<1>0. MaxKids \in Nat /\ Desktop!Kids = 1..MaxKids
  BY RecordsAssumption DEF Desktop!Kids
<1>1. starting = 0 /\ kid[k].at # "unborn" /\ k <= teachSlot.child
  BY <1>i DEF Slotted, InOrder
<1>2. kid[k].at # "up"
  BY <1>i, <1>0, <1>1 DEF Slotted, Desktop!OneTeachChild
<1>3. kid[k].at \in {"unborn", "up", "dead"} /\ teachSlot.child \in 0..MaxKids
  BY <1>i DEF DesktopTyped
<1> QED
  BY <1>0, <1>1, <1>2, <1>3

LEMMA PutSessionStep ==
  ASSUME DesktopInv, NEW k \in Desktop!Kids, Desktop!PutSession(k)
  PROVE  DesktopInv'
<1>i. DesktopTyped /\ Slotted /\ InOrder /\ ToldOnce /\ OneReader
  BY DEF DesktopInv
<1>0. MaxKids \in Nat /\ Desktop!Kids = 1..MaxKids /\ k \in 0..MaxKids
  BY RecordsAssumption DEF Desktop!Kids
<1>1. /\ writing[k].at = "noted" /\ writing' = [writing EXCEPT ![k].at = "no"]
      /\ teachSlot' = IF teachSlot.child = 0 THEN teachSlot ELSE [teachSlot EXCEPT !.session = k]
      /\ UNCHANGED <<kid, pipe, starting, history, teachOverlap>>
  BY DEF Desktop!PutSession
<1>2. kid[k].said
  BY <1>i, <1>1 DEF InOrder
<1>3. /\ teachSlot' \in [child : 0..MaxKids, session : 0..MaxKids, status : 0..MaxKids]
      /\ teachSlot'.child = teachSlot.child /\ teachSlot'.status = teachSlot.status
      /\ teachSlot'.session = IF teachSlot.child = 0 THEN teachSlot.session ELSE k
  BY <1>i, <1>0, <1>1 DEF DesktopTyped
<1>4. writing' \in [Desktop!Kids -> [at : {"no", "noted", "loaded", "truncated"}, runs : Runs]]
  BY <1>i, <1>1, ZenonT(40) DEF DesktopTyped
<1>5. \A j \in Desktop!Kids : /\ j # k => writing'[j] = writing[j]
                              /\ writing'[k].at = "no"
  BY <1>i, <1>1 DEF DesktopTyped
<1>6. DesktopTyped'
  BY <1>i, <1>1, <1>3, <1>4 DEF DesktopTyped
<1>7. Slotted'
  BY <1>i, <1>1, <1>2, <1>3, LineComes DEF Slotted, Desktop!OneTeachChild, Desktop!OnlyEndedIntrude
<1>8. InOrder'
  BY <1>i, <1>1, <1>3, <1>5 DEF InOrder
<1>9. ToldOnce'
  BY <1>i, <1>1 DEF ToldOnce
<1>10. OneReader'
  BY <1>i, <1>1, <1>5, HistoryAside DEF Desktop!Busy
<1> QED
  BY <1>6, <1>7, <1>8, <1>9, <1>10 DEF DesktopInv

LEMMA ReadStatusStep ==
  ASSUME DesktopInv, NEW k \in Desktop!Kids, Desktop!ReadStatus(k)
  PROVE  DesktopInv'
<1>i. DesktopTyped /\ Slotted /\ InOrder /\ ToldOnce /\ OneReader
  BY DEF DesktopInv
<1>0. MaxKids \in Nat /\ Desktop!Kids = 1..MaxKids /\ k \in 0..MaxKids
  BY RecordsAssumption DEF Desktop!Kids
<1>1. /\ Desktop!Next1(k, "status") /\ pipe' = [pipe EXCEPT ![k] = Tail(@)]
      /\ teachSlot' = IF teachSlot.child = 0 THEN teachSlot ELSE [teachSlot EXCEPT !.status = k]
      /\ UNCHANGED <<kid, starting, history, writing, teachOverlap>>
  BY DEF Desktop!ReadStatus
<1>2. "status" \in Desktop!Lines
  BY DEF Desktop!Lines
<1>3. /\ pipe' \in [Desktop!Kids -> Seq(Desktop!Lines)]
      /\ \A j \in Desktop!Kids : Len(pipe'[j]) <= MaxLines
      /\ \A j \in Desktop!Kids : j # k => pipe'[j] = pipe[j]
      /\ \A j \in Desktop!Kids : ~kid[j].said => pipe'[j] = <<>>
      /\ \A i \in 1..Len(pipe'[k]) : pipe'[k][i] # "session"
      /\ kid[k].said
  BY <1>1, <1>2, LineRead
<1>4. /\ teachSlot' \in [child : 0..MaxKids, session : 0..MaxKids, status : 0..MaxKids]
      /\ teachSlot'.child = teachSlot.child /\ teachSlot'.session = teachSlot.session
      /\ teachSlot'.status = IF teachSlot.child = 0 THEN teachSlot.status ELSE k
  BY <1>i, <1>0, <1>1 DEF DesktopTyped
<1>5. DesktopTyped'
  BY <1>i, <1>1, <1>3, <1>4 DEF DesktopTyped
<1>6. Slotted'
  BY <1>i, <1>1, <1>3, <1>4, LineComes DEF Slotted, Desktop!OneTeachChild, Desktop!OnlyEndedIntrude
<1>7. InOrder'
  BY <1>i, <1>1, <1>4 DEF InOrder
<1>8. ToldOnce'
  BY <1>i, <1>1, <1>3 DEF ToldOnce
<1>9. OneReader'
  BY <1>i, <1>1, HistoryAside
<1> QED
  BY <1>5, <1>6, <1>7, <1>8, <1>9 DEF DesktopInv

\* A job line: the reader that comes to the file alone finds it as it was left.
LEMMA RecordLoadStep ==
  ASSUME DesktopInv, NEW k \in Desktop!Kids, Desktop!RecordLoad(k)
  PROVE  DesktopInv'
<1> DEFINE runs == Desktop!Upsert(Desktop!Loaded, k)
           e    == [at |-> "loaded", runs |-> runs]
<1>i. DesktopTyped /\ Slotted /\ InOrder /\ ToldOnce /\ OneReader
  BY DEF DesktopInv
<1>1. /\ Desktop!Next1(k, "job") /\ pipe' = [pipe EXCEPT ![k] = Tail(@)]
      /\ writing' = [writing EXCEPT ![k] = e]
      /\ teachOverlap' = (teachOverlap \/ \E j \in Desktop!Kids : Desktop!Busy(j))
      /\ UNCHANGED <<teachSlot, kid, starting, history>>
  BY DEF Desktop!RecordLoad
<1>2. runs \in Runs
  <2>1. Desktop!Loaded \in Seq(Desktop!Kids)
    BY <1>i DEF DesktopTyped, Desktop!Loaded, Runs
  <2> QED
    BY <2>1, Upserted
<1>3. ~history.torn => runs = Desktop!Upsert(history.runs, k)
  BY DEF Desktop!Loaded
<1> HIDE DEF runs
<1>4. "job" \in Desktop!Lines /\ "job" # "session"
  BY DEF Desktop!Lines
<1>5. /\ pipe' \in [Desktop!Kids -> Seq(Desktop!Lines)]
      /\ \A j \in Desktop!Kids : Len(pipe'[j]) <= MaxLines
      /\ \A j \in Desktop!Kids : j # k => pipe'[j] = pipe[j]
      /\ \A j \in Desktop!Kids : ~kid[j].said => pipe'[j] = <<>>
      /\ \A i \in 1..Len(pipe'[k]) : pipe'[k][i] # "session"
  BY <1>1, <1>4, LineRead
<1>6. writing' \in [Desktop!Kids -> [at : {"no", "noted", "loaded", "truncated"}, runs : Runs]]
  BY <1>i, <1>1, <1>2 DEF DesktopTyped
<1>7. \A j \in Desktop!Kids : writing'[j] = IF j = k THEN e ELSE writing[j]
  BY <1>i, <1>1 DEF DesktopTyped
<1>8. DesktopTyped'
  BY <1>i, <1>1, <1>5, <1>6 DEF DesktopTyped
<1>9. Slotted'
  BY <1>i, <1>1 DEF Slotted, Desktop!OneTeachChild, Desktop!OnlyEndedIntrude
<1>o. InOrder'
  BY <1>i, <1>1, <1>7 DEF InOrder
<1>10. ToldOnce'
  BY <1>i, <1>1, <1>5 DEF ToldOnce
<1>11. OneReader'
  <2> SUFFICES ASSUME ~teachOverlap' PROVE OneReader'
    BY DEF OneReader
  <2>1. ~teachOverlap /\ \A j \in Desktop!Kids : ~Desktop!Busy(j)
    BY <1>1
  <2>2. ~history.torn /\ Desktop!HistoryKept
    BY <1>i, <2>1 DEF OneReader, Desktop!Busy
  <2>3. \A j \in Desktop!Kids : /\ writing'[j].at \in {"loaded", "truncated"} <=> j = k
                                /\ j = k => writing'[j].at = "loaded"
                                /\ j = k => writing'[j].runs = Desktop!Upsert(history.runs, k)
    BY <1>3, <1>7, <2>1, <2>2 DEF Desktop!Busy
  <2>4. \A j \in Desktop!Kids : writing'[j].at = "loaded" =>
          ~history'.torn /\ writing'[j].runs = Desktop!Upsert(history.runs, j)
    BY <1>1, <2>2, <2>3
  <2>5. Desktop!HistoryKept'
    BY <1>1, <2>1, <2>2 DEF Desktop!HistoryKept
  <2>6. \A j \in Desktop!Kids : Desktop!Upsert(history.runs, j)' = Desktop!Upsert(history.runs, j)
    BY <1>1 DEF Desktop!Upsert, Desktop!Without
  <2> QED
    BY <1>1, <2>2, <2>3, <2>4, <2>5, <2>6 DEF OneReader, Desktop!Busy
<1> QED
  BY <1>8, <1>9, <1>10, <1>11, <1>o DEF DesktopInv

LEMMA SaveTruncatesStep ==
  ASSUME DesktopInv, NEW k \in Desktop!Kids, Desktop!SaveTruncates(k)
  PROVE  DesktopInv'
<1>i. DesktopTyped /\ Slotted /\ InOrder /\ ToldOnce /\ OneReader
  BY DEF DesktopInv
<1>1. /\ writing[k].at = "loaded" /\ writing' = [writing EXCEPT ![k].at = "truncated"]
      /\ history' = [runs |-> <<>>, torn |-> TRUE, was |-> history.runs]
      /\ UNCHANGED <<teachSlot, kid, pipe, starting, teachOverlap>>
  BY DEF Desktop!SaveTruncates
<1>2. <<>> \in Runs
  BY RecordsAssumption DEF Runs
<1>3. \A j \in Desktop!Kids : /\ writing'[j].at = IF j = k THEN "truncated" ELSE writing[j].at
                              /\ writing'[j].runs = writing[j].runs
  BY <1>i, <1>1 DEF DesktopTyped
<1>4. DesktopTyped'
  BY <1>i, <1>1, <1>2, ZenonT(40) DEF DesktopTyped
<1>5. Slotted'
  BY <1>i, <1>1 DEF Slotted, Desktop!OneTeachChild, Desktop!OnlyEndedIntrude
<1>o. InOrder'
  BY <1>i, <1>1, <1>3 DEF InOrder
<1>6. ToldOnce'
  BY <1>i, <1>1 DEF ToldOnce
<1>7. OneReader'
  <2> SUFFICES ASSUME ~teachOverlap PROVE OneReader'
    BY <1>1 DEF OneReader
  <2>1. /\ \A j \in Desktop!Kids : Desktop!Busy(j) => j = k
        /\ writing[k].runs = Desktop!Upsert(history.runs, k)
    BY <1>i, <1>1 DEF OneReader, Desktop!Busy
  <2>2. \A j \in Desktop!Kids : /\ j = k => writing'[j].at = "truncated"
                                /\ j # k => writing'[j].at \notin {"loaded", "truncated"}
    BY <1>i, <1>3, <2>1 DEF DesktopTyped, Desktop!Busy
  <2>3. history'.torn /\ history'.was = history.runs
    BY <1>1
  <2>4. \A j \in Desktop!Kids : Desktop!Upsert(history.was, j)' = Desktop!Upsert(history.runs, j)
    BY <2>3 DEF Desktop!Upsert, Desktop!Without
  <2>5. Desktop!HistoryKept'
    BY <2>3 DEF Desktop!HistoryKept
  <2> QED
    BY <1>3, <2>1, <2>2, <2>3, <2>4, <2>5 DEF OneReader, Desktop!Busy
<1> QED
  BY <1>4, <1>5, <1>6, <1>7, <1>o DEF DesktopInv

LEMMA SaveWritesStep ==
  ASSUME DesktopInv, NEW k \in Desktop!Kids, Desktop!SaveWrites(k)
  PROVE  DesktopInv'
<1>i. DesktopTyped /\ Slotted /\ InOrder /\ ToldOnce /\ OneReader
  BY DEF DesktopInv
<1>1. /\ writing[k].at = "truncated"
      /\ history' = [history EXCEPT !.runs = writing[k].runs, !.torn = FALSE]
      /\ writing' = [writing EXCEPT ![k] = [at |-> "no", runs |-> <<>>]]
      /\ UNCHANGED <<teachSlot, kid, pipe, starting, teachOverlap>>
  BY DEF Desktop!SaveWrites
<1>2. <<>> \in Runs
  BY RecordsAssumption DEF Runs
<1>3. /\ history' \in [runs : Runs, torn : BOOLEAN, was : Runs]
      /\ history'.runs = writing[k].runs /\ ~history'.torn /\ history'.was = history.was
      /\ history.was \in Seq(Desktop!Kids)
  BY <1>i, <1>1 DEF DesktopTyped, Runs
<1>4. \A j \in Desktop!Kids : writing'[j].at = IF j = k THEN "no" ELSE writing[j].at
  BY <1>i, <1>1 DEF DesktopTyped
<1>5. writing' \in [Desktop!Kids -> [at : {"no", "noted", "loaded", "truncated"}, runs : Runs]]
  BY <1>i, <1>1, <1>2 DEF DesktopTyped
<1>6. DesktopTyped'
  BY <1>i, <1>1, <1>3, <1>5 DEF DesktopTyped
<1>7. Slotted'
  BY <1>i, <1>1 DEF Slotted, Desktop!OneTeachChild, Desktop!OnlyEndedIntrude
<1>o. InOrder'
  BY <1>i, <1>1, <1>4 DEF InOrder
<1>8. ToldOnce'
  BY <1>i, <1>1 DEF ToldOnce
<1>9. OneReader'
  <2> SUFFICES ASSUME ~teachOverlap PROVE OneReader'
    BY <1>1 DEF OneReader
  <2>1. /\ \A j \in Desktop!Kids : Desktop!Busy(j) => j = k
        /\ writing[k].runs = Desktop!Upsert(history.was, k)
    BY <1>i, <1>1 DEF OneReader, Desktop!Busy
  <2>2. \A j \in Desktop!Kids : writing'[j].at \notin {"loaded", "truncated"}
    BY <1>i, <1>4, <2>1 DEF DesktopTyped, Desktop!Busy
  <2>3. \A i \in DOMAIN history.was : i < MaxHistory => history.was[i] \in Desktop!Range(history'.runs)
    BY <1>3, <2>1, Upserted
  <2>4. Desktop!HistoryKept'
    BY <1>3, <2>3 DEF Desktop!HistoryKept, Desktop!Range
  <2> QED
    BY <1>3, <2>2, <2>4 DEF OneReader, Desktop!Busy
<1> QED
  BY <1>6, <1>7, <1>8, <1>9, <1>o DEF DesktopInv

LEMMA DesktopStep == ASSUME DesktopInv, Desktop!Next PROVE DesktopInv'
BY EmitStep, ChildEndsStep, StartStep, StartEndsStep, StopStep, ReadSessionStep,
   PutSessionStep, ReadStatusStep, RecordLoadStep,
   SaveTruncatesStep, SaveWritesStep DEF Desktop!Next, Desktop!RequestStatus

LEMMA DesktopMeans ==
  DesktopInv => /\ Desktop!TypeOK /\ Desktop!OneTeachChild /\ Desktop!OnlyEndedIntrude /\ Desktop!HistoryKept
<1> SUFFICES ASSUME DesktopInv
             PROVE  /\ Desktop!TypeOK /\ Desktop!OneTeachChild /\ Desktop!OnlyEndedIntrude
                    /\ Desktop!HistoryKept
  OBVIOUS
<1>i. DesktopTyped /\ Slotted /\ OneReader
  BY DEF DesktopInv
<1>1. /\ history.torn \in BOOLEAN /\ history.runs \in Runs /\ history.was \in Runs
      /\ \A k \in Desktop!Kids : /\ writing[k].at \in {"no", "noted", "loaded", "truncated"} /\ writing[k].runs \in Runs
                                 /\ pipe[k] \in Seq(Desktop!Lines)
  BY <1>i DEF DesktopTyped
<1>2. \A k \in Desktop!Kids : \A i \in DOMAIN pipe[k] : pipe[k][i] \in Desktop!Lines
  BY <1>1
<1>3. Desktop!TypeOK
  BY <1>i, <1>1, <1>2 DEF DesktopTyped, Desktop!TypeOK, Runs
<1>4. Desktop!HistoryKept
  BY <1>i DEF OneReader, Desktop!HistoryKept
<1> QED
  BY <1>i, <1>3, <1>4 DEF Slotted

-----------------------------------------------------------------------------
(* The parts when they stand still *)

LEMMA ReleasesStill == ASSUME ReleasesInv, UNCHANGED releaseVars PROVE ReleasesInv'
BY DEF releaseVars, ReleasesInv, ReleasesTyped, InStep, Shelved, Backed

LEMMA ExportStill == ASSUME ExportInv, UNCHANGED exportVars PROVE ExportInv'
BY DEF exportVars, ExportInv, ExportTyped, Own, Undisturbed, Sole, Differs

LEMMA RetryStill == ASSUME RetryInv, UNCHANGED retryVars PROVE RetryInv'
BY DEF retryVars, RetryInv, RetryTyped, Spaced, OneNotes, Retry!Paced

LEMMA ParkStill == ASSUME ParkInv, UNCHANGED parkVars PROVE ParkInv'
BY DEF parkVars, ParkInv, OneParks, Park!TypeOK, Park!AtWork

LEMMA ClicksStill == ASSUME ClicksInv, UNCHANGED clickVars PROVE ClicksInv'
BY DEF clickVars, ClicksInv, ClicksTyped, Shelf, Asked, Recorded

LEMMA SessionStill == ASSUME SessionInv, UNCHANGED sessionVars PROVE SessionInv'
<1>1. /\ command' = command /\ holds' = holds /\ staged' = staged /\ browser' = browser
      /\ handler' = handler /\ assists' = assists /\ asked' = asked /\ answered' = answered
      /\ settled' = settled
  BY DEF sessionVars
<1>2. Session!TypeOK' /\ PlaceInv'
  BY <1>1 DEF SessionInv, Session!TypeOK, PlaceInv
<1>3. Asking' = Asking /\ Counting' = Counting /\ Below' = Below
  BY <1>1 DEF Asking, Counting, Below
<1>4. CountInv' /\ SettledInv'
  BY <1>1, <1>3 DEF SessionInv, CountInv, SettledInv
<1> QED
  BY <1>2, <1>4 DEF SessionInv

LEMMA DesktopStill == ASSUME DesktopInv, UNCHANGED desktopVars PROVE DesktopInv'
<1>1. /\ teachSlot' = teachSlot /\ kid' = kid /\ pipe' = pipe /\ starting' = starting
      /\ history' = history /\ writing' = writing /\ teachOverlap' = teachOverlap
  BY DEF desktopVars
<1>2. DesktopTyped' /\ Slotted' /\ InOrder' /\ ToldOnce'
  BY <1>1 DEF DesktopInv, DesktopTyped, Slotted, InOrder, ToldOnce, Desktop!OneTeachChild, Desktop!OnlyEndedIntrude
<1>3. OneReader'
  BY <1>1, HistoryAside DEF DesktopInv
<1> QED
  BY <1>2, <1>3 DEF DesktopInv

-----------------------------------------------------------------------------
(* A recording *)

\* The last of a set of numbers.
LEMMA LastIs ==
  ASSUME NEW N \in Nat, NEW at \in SUBSET (1..N)
  PROVE  IF at = {} THEN Record!LastOf(at) = 0
         ELSE Record!LastOf(at) \in at /\ \A j \in at : j <= Record!LastOf(at)
<1>1. CASE at = {}
  BY <1>1 DEF Record!LastOf
<1>2. CASE at # {}
  <2> DEFINE T == {N - i : i \in at}
  <2>1. T \subseteq Nat /\ T # {}
    <3>1. \A i \in at : i \in 1..N /\ N - i \in Nat
      OBVIOUS
    <3>2. T \subseteq Nat
      BY <3>1
    <3> QED
      BY <1>2, <3>2
  <2>2. PICK m \in T : \A k \in T : ~(k < m)
    <3> HIDE DEF T
    <3> QED
      BY <2>1, Least
  <2>3. PICK i \in at : m = N - i
    <3>1. m \in T
      BY <2>2
    <3> QED
      BY <3>1
  <2>4. \A j \in at : j <= i
    <3> SUFFICES ASSUME NEW j \in at PROVE j <= i
      OBVIOUS
    <3>1. N - j \in T
      OBVIOUS
    <3>2. ~(N - j < m)
      BY <2>2, <3>1
    <3>3. i \in 1..N /\ j \in 1..N
      OBVIOUS
    <3> QED
      BY <2>3, <3>2, <3>3
  <2>5. \E x \in at : \A j \in at : j <= x
    BY <2>4
  <2>6. Record!LastOf(at) = CHOOSE x \in at : \A j \in at : j <= x
    BY <1>2, Zenon DEF Record!LastOf
  <2> QED
    BY <1>2, <2>5, <2>6, Zenon
<1> QED
  BY <1>1, <1>2

\* Recorded events of texts S; what was typed last into a control among the
\* first n of them, if anything.
FillOf(s, i, c) == s[i].kind = "fill" /\ s[i].selector = c
Blank(s, n, c)  == \A i \in 1..n : ~FillOf(s, i, c)
LeftIn(s, n, c, e) ==
  \E i \in 1..n : s[i] = e /\ FillOf(s, i, c) /\ \A j \in 1..n : i < j => ~FillOf(s, j, c)

\* What a pass over the events may do with one of them, and what it keeps.
Follows(o, e, p) ==
  \/ p = o /\ e.kind # "fill"
  \/ p = Append(o, e)
  \/ /\ e.kind = "fill" /\ Len(o) > 0 /\ FillOf(o, Len(o), e.selector)
     /\ p = Append(SubSeq(o, 1, Len(o) - 1), e)
Keeps(E, s, n, o) ==
  /\ o \in Seq(E) /\ Len(o) <= n
  /\ \A k \in 1..Len(o) : \E i \in 1..n : o[k] = s[i]
  /\ \A c : Blank(s, n, c) => Blank(o, Len(o), c)
  /\ \A c, e : LeftIn(s, n, c, e) => LeftIn(o, Len(o), c, e)

LEMMA NextBlank ==
  ASSUME NEW s, NEW n \in Nat, NEW c, Blank(s, n + 1, c)
  PROVE  Blank(s, n, c) /\ ~FillOf(s, n + 1, c)
<1>1. n + 1 \in 1..(n + 1) /\ \A i \in 1..n : i \in 1..(n + 1)
  OBVIOUS
<1> QED
  BY <1>1, Zenon DEF Blank

LEMMA NextLeft ==
  ASSUME NEW s, NEW n \in Nat, NEW c, NEW e, LeftIn(s, n + 1, c, e)
  PROVE  \/ FillOf(s, n + 1, c) /\ e = s[n + 1]
         \/ ~FillOf(s, n + 1, c) /\ LeftIn(s, n, c, e)
<1>1. PICK i \in 1..(n + 1) : s[i] = e /\ FillOf(s, i, c) /\ \A j \in 1..(n + 1) : i < j => ~FillOf(s, j, c)
  BY DEF LeftIn
<1>2. CASE i = n + 1
  BY <1>1, <1>2
<1>3. CASE i # n + 1
  <2>1. i \in 1..n /\ i < n + 1 /\ n + 1 \in 1..(n + 1) /\ \A j \in 1..n : j \in 1..(n + 1)
    BY <1>3
  <2> QED
    BY <1>1, <2>1, Zenon DEF LeftIn
<1> QED
  BY <1>2, <1>3

LEMMA FollowKeeps ==
  ASSUME NEW E, NEW s, NEW n \in Nat, NEW o, Keeps(E, s, n, o), s[n + 1] \in E,
         NEW p, Follows(o, s[n + 1], p)
  PROVE  Keeps(E, s, n + 1, p)
<1> DEFINE e == s[n + 1]
           l == Len(o)
<1>0. /\ o \in Seq(E) /\ l \in Nat /\ l <= n /\ n + 1 \in 1..(n + 1) /\ \A i \in 1..n : i \in 1..(n + 1)
      /\ \A k \in 1..l : \E i \in 1..n : o[k] = s[i]
      /\ \A c : Blank(s, n, c) => Blank(o, l, c)
      /\ \A c, d : LeftIn(s, n, c, d) => LeftIn(o, l, c, d)
  BY DEF Keeps
<1>1. CASE p = o /\ e.kind # "fill"
  <2>1. \A c : ~FillOf(s, n + 1, c)
    BY <1>1, Zenon DEF FillOf
  <2>2. \A k \in 1..l : \E i \in 1..(n + 1) : o[k] = s[i]
    BY <1>0, Zenon
  <2>3. \A c : Blank(s, n + 1, c) => Blank(o, l, c)
    BY <1>0, NextBlank
  <2>4. \A c, d : LeftIn(s, n + 1, c, d) => LeftIn(o, l, c, d)
    <3> SUFFICES ASSUME NEW c, NEW d, LeftIn(s, n + 1, c, d) PROVE LeftIn(o, l, c, d)
      OBVIOUS
    <3> QED
      BY <1>0, <2>1, NextLeft
  <2>5. l <= n + 1
    BY <1>0
  <2> QED
    BY <1>0, <1>1, <2>2, <2>3, <2>4, <2>5, Zenon DEF Keeps
\* The end of what was kept is new.
<1>2. ASSUME NEW b \in 0..l, p \in Seq(E), Len(p) = b + 1, p[b + 1] = e,
             \A k \in 1..b : p[k] = o[k],
             \A k \in (b + 1)..l : \A c : FillOf(o, k, c) => FillOf(s, n + 1, c)
      PROVE  Keeps(E, s, n + 1, p)
  <2>1. b \in Nat /\ b <= l /\ b + 1 \in 1..(b + 1) /\ \A k \in 1..(b + 1) : k \in 1..b \/ k = b + 1
    BY <1>0
  <2>2. \A k \in 1..b : k \in 1..l
    BY <1>0, <2>1
  <2>3. \A k \in 1..Len(p) : \E i \in 1..(n + 1) : p[k] = s[i]
    BY <1>0, <1>2, <2>1, <2>2, Zenon
  <2>4. \A c : FillOf(p, b + 1, c) <=> FillOf(s, n + 1, c)
    BY <1>2, Zenon DEF FillOf
  <2>5. \A k \in 1..b : \A c : FillOf(p, k, c) <=> FillOf(o, k, c)
    BY <1>2, Zenon DEF FillOf
  <2>6. ASSUME NEW c, Blank(s, n + 1, c) PROVE Blank(p, b + 1, c)
    <3>1. Blank(o, l, c) /\ ~FillOf(s, n + 1, c)
      BY <1>0, <2>6, NextBlank
    <3> QED
      BY <2>1, <2>2, <2>4, <2>5, <3>1, Zenon DEF Blank
  <2>7. ASSUME NEW c, NEW d, LeftIn(s, n + 1, c, d) PROVE LeftIn(p, b + 1, c, d)
    <3>1. CASE FillOf(s, n + 1, c) /\ d = e
      <4>1. \A j \in 1..(b + 1) : ~(b + 1 < j)
        BY <2>1
      <4> QED
        BY <1>2, <2>1, <2>4, <3>1, <4>1, Zenon DEF LeftIn
    <3>2. CASE ~FillOf(s, n + 1, c) /\ LeftIn(s, n, c, d)
      <4>1. PICK i \in 1..l : o[i] = d /\ FillOf(o, i, c) /\ \A j \in 1..l : i < j => ~FillOf(o, j, c)
        BY <1>0, <3>2, Zenon DEF LeftIn
      <4>2. i \in 1..b
        <5>1. i \notin (b + 1)..l
          BY <1>2, <3>2, <4>1
        <5> QED
          BY <1>0, <2>1, <5>1
      <4>3. i \in 1..(b + 1) /\ p[i] = d /\ FillOf(p, i, c)
        <5>1. i \in 1..(b + 1)
          BY <2>1, <4>2
        <5> QED
          BY <1>2, <2>5, <4>1, <4>2, <5>1
      <4>4. \A j \in 1..(b + 1) : i < j => ~FillOf(p, j, c)
        BY <2>1, <2>2, <2>4, <2>5, <3>2, <4>1, Zenon
      <4> QED
        BY <4>3, <4>4, Zenon DEF LeftIn
    <3> QED
      BY <2>7, <3>1, <3>2, NextLeft
  <2>8. Len(p) <= n + 1
    BY <1>0, <1>2, <2>1
  <2> QED
    BY <1>2, <2>3, <2>6, <2>7, <2>8, Zenon DEF Keeps
<1>3. CASE p = Append(o, e)
  <2>1. l \in 0..l /\ (l + 1)..l = {}
    BY <1>0
  <2>2. p \in Seq(E) /\ Len(p) = l + 1 /\ p[l + 1] = e /\ \A k \in 1..l : p[k] = o[k]
    BY <1>0, <1>3
  <2>3. \A k \in (l + 1)..l : \A c : FillOf(o, k, c) => FillOf(s, n + 1, c)
    BY <2>1
  <2> HIDE DEF l, e
  <2> QED
    BY <1>2, <2>1, <2>2, <2>3
<1>4. CASE e.kind = "fill" /\ l > 0 /\ FillOf(o, l, e.selector) /\ p = Append(SubSeq(o, 1, l - 1), e)
  <2> DEFINE q == SubSeq(o, 1, l - 1)
  <2>1. l - 1 \in 0..l /\ (l - 1) + 1 = l /\ l - 1 \in Nat
    BY <1>0, <1>4
  <2>2. q \in Seq(E) /\ Len(q) = l - 1 /\ \A k \in 1..(l - 1) : q[k] = o[k]
    BY <1>0, <2>1
  <2> HIDE DEF q
  <2>3. p \in Seq(E) /\ Len(p) = (l - 1) + 1 /\ p[(l - 1) + 1] = e /\ \A k \in 1..(l - 1) : p[k] = q[k]
    <3>1. p = Append(q, e) /\ e \in E
      BY <1>4 DEF q
    <3> HIDE DEF e, l
    <3> QED
      BY <2>1, <2>2, <3>1
  <2>4. \A k \in ((l - 1) + 1)..l : \A c : FillOf(o, k, c) => FillOf(s, n + 1, c)
    <3>1. \A k \in ((l - 1) + 1)..l : k = l
      BY <1>0
    <3> QED
      BY <1>4, <3>1, Zenon DEF FillOf
  <2>5. \A k \in 1..(l - 1) : p[k] = o[k]
    BY <2>2, <2>3
  <2> HIDE DEF l, e
  <2> QED
    BY <1>2, <2>1, <2>3, <2>4, <2>5
<1> QED
  BY <1>1, <1>3, <1>4 DEF Follows

LEMMA NothingKept == ASSUME NEW E, NEW s PROVE Keeps(E, s, 0, <<>>)
<1>1. <<>> \in Seq(E) /\ Len(<<>>) = 0 /\ 1..0 = {}
  OBVIOUS
<1> QED
  BY <1>1 DEF Keeps, Blank, LeftIn

\* What both passes over the events have made of the first of them.
CalmStep(s, f, n) == IF n = 0 THEN <<>> ELSE Record!Quieter(f[n - 1], s[n])
CalmOf(s) == CHOOSE f : f = [n \in 0..Len(s) |-> CalmStep(s, f, n)]

LEMMA CalmUnfolds ==
  ASSUME NEW s, Len(s) \in Nat
  PROVE  /\ Record!Denoise(s) = CalmOf(s)[Len(s)]
         /\ \A n \in 0..Len(s) : CalmOf(s)[n] = CalmStep(s, CalmOf(s), n)
<1> DEFINE Good == {m \in Nat : \E f : f = [i \in 0..m |-> CalmStep(s, f, i)]}
<1>1. 0 \in Good
  <2> DEFINE f == [i \in 0..0 |-> <<>>]
  <2>1. f = [i \in 0..0 |-> CalmStep(s, f, i)]
    BY DEF CalmStep
  <2> QED
    BY <2>1
<1>2. ASSUME NEW m \in Nat, m \in Good
      PROVE  m + 1 \in Good
  <2>1. PICK f : f = [i \in 0..m |-> CalmStep(s, f, i)]
    BY <1>2
  <2> DEFINE g == [i \in 0..(m + 1) |-> IF i = m + 1 THEN CalmStep(s, f, i) ELSE f[i]]
  <2>2. ASSUME NEW i \in 0..(m + 1)
        PROVE  g[i] = CalmStep(s, g, i)
    <3>1. CalmStep(s, f, i) = CalmStep(s, g, i)
      <4>1. CASE i = 0
        BY <4>1, Zenon DEF CalmStep
      <4>2. CASE i # 0
        <5>1. i - 1 \in 0..m /\ g[i - 1] = f[i - 1]
          BY <4>2
        <5> HIDE DEF g
        <5> QED
          BY <4>2, <5>1, Zenon DEF CalmStep
      <4> QED
        BY <4>1, <4>2
    <3> HIDE DEF CalmStep
    <3>2. CASE i = m + 1
      BY <3>1, <3>2
    <3>3. CASE i # m + 1
      <4>1. i \in 0..m /\ g[i] = f[i]
        BY <3>3
      <4>2. f[i] = CalmStep(s, f, i)
        BY <2>1, <4>1
      <4> QED
        BY <3>1, <4>1, <4>2
    <3> QED
      BY <3>2, <3>3
  <2>3. g = [i \in 0..(m + 1) |-> CalmStep(s, g, i)]
    <3> HIDE DEF CalmStep
    <3> QED
      BY <2>2
  <2> HIDE DEF g
  <2> QED
    BY <2>3
<1>3. Nat \subseteq Good
  <2> HIDE DEF Good
  <2> QED
    BY <1>1, <1>2, SetInduction
<1>4. \E f : f = [i \in 0..Len(s) |-> CalmStep(s, f, i)]
  BY <1>3
<1>5. CalmOf(s) = [i \in 0..Len(s) |-> CalmStep(s, CalmOf(s), i)]
  BY <1>4, Zenon DEF CalmOf
<1>6. Record!Denoise(s) = CalmOf(s)[Len(s)]
  BY Zenon DEF Record!Denoise, CalmOf, CalmStep
<1> QED
  <2> HIDE DEF CalmStep
  <2> QED
    BY <1>5, <1>6

BriefStep(s, f, n) == IF n = 0 THEN <<>> ELSE Record!Shorter(f[n - 1], s[n])
BriefOf(s) == CHOOSE f : f = [n \in 0..Len(s) |-> BriefStep(s, f, n)]

LEMMA BriefUnfolds ==
  ASSUME NEW s, Len(s) \in Nat
  PROVE  /\ Record!Coalesce(s) = BriefOf(s)[Len(s)]
         /\ \A n \in 0..Len(s) : BriefOf(s)[n] = BriefStep(s, BriefOf(s), n)
<1> DEFINE Good == {m \in Nat : \E f : f = [i \in 0..m |-> BriefStep(s, f, i)]}
<1>1. 0 \in Good
  <2> DEFINE f == [i \in 0..0 |-> <<>>]
  <2>1. f = [i \in 0..0 |-> BriefStep(s, f, i)]
    BY DEF BriefStep
  <2> QED
    BY <2>1
<1>2. ASSUME NEW m \in Nat, m \in Good
      PROVE  m + 1 \in Good
  <2>1. PICK f : f = [i \in 0..m |-> BriefStep(s, f, i)]
    BY <1>2
  <2> DEFINE g == [i \in 0..(m + 1) |-> IF i = m + 1 THEN BriefStep(s, f, i) ELSE f[i]]
  <2>2. ASSUME NEW i \in 0..(m + 1)
        PROVE  g[i] = BriefStep(s, g, i)
    <3>1. BriefStep(s, f, i) = BriefStep(s, g, i)
      <4>1. CASE i = 0
        BY <4>1, Zenon DEF BriefStep
      <4>2. CASE i # 0
        <5>1. i - 1 \in 0..m /\ g[i - 1] = f[i - 1]
          BY <4>2
        <5> HIDE DEF g
        <5> QED
          BY <4>2, <5>1, Zenon DEF BriefStep
      <4> QED
        BY <4>1, <4>2
    <3> HIDE DEF BriefStep
    <3>2. CASE i = m + 1
      BY <3>1, <3>2
    <3>3. CASE i # m + 1
      <4>1. i \in 0..m /\ g[i] = f[i]
        BY <3>3
      <4>2. f[i] = BriefStep(s, f, i)
        BY <2>1, <4>1
      <4> QED
        BY <3>1, <4>1, <4>2
    <3> QED
      BY <3>2, <3>3
  <2>3. g = [i \in 0..(m + 1) |-> BriefStep(s, g, i)]
    <3> HIDE DEF BriefStep
    <3> QED
      BY <2>2
  <2> HIDE DEF g
  <2> QED
    BY <2>3
<1>3. Nat \subseteq Good
  <2> HIDE DEF Good
  <2> QED
    BY <1>1, <1>2, SetInduction
<1>4. \E f : f = [i \in 0..Len(s) |-> BriefStep(s, f, i)]
  BY <1>3
<1>5. BriefOf(s) = [i \in 0..Len(s) |-> BriefStep(s, BriefOf(s), i)]
  BY <1>4, Zenon DEF BriefOf
<1>6. Record!Coalesce(s) = BriefOf(s)[Len(s)]
  BY Zenon DEF Record!Coalesce, BriefOf, BriefStep
<1> QED
  <2> HIDE DEF BriefStep
  <2> QED
    BY <1>5, <1>6

LEMMA DenoiseKeeps ==
  ASSUME NEW S, NEW s \in Seq(Occurrence(S))
  PROVE  Keeps(Occurrence(S), s, Len(s), Record!Denoise(s))
<1> DEFINE E == Occurrence(S)
           u == CalmOf(s)
           G == {n \in Nat : n <= Len(s) => Keeps(E, s, n, u[n])}
<1>0. Len(s) \in Nat
  OBVIOUS
<1>1. \A n \in 0..Len(s) : u[n] = IF n = 0 THEN <<>> ELSE Record!Quieter(u[n - 1], s[n])
  <2>1. \A n \in 0..Len(s) : u[n] = CalmStep(s, u, n)
    BY <1>0, CalmUnfolds
  <2> QED
    BY <2>1, Zenon DEF CalmStep
<1>2. Record!Denoise(s) = u[Len(s)]
  BY <1>0, CalmUnfolds
<1> HIDE DEF u
<1>3. 0 \in G
  <2>1. u[0] = <<>>
    BY <1>0, <1>1
  <2> QED
    BY <2>1, NothingKept
<1>4. ASSUME NEW n \in Nat, n \in G PROVE n + 1 \in G
  <2> SUFFICES ASSUME n + 1 <= Len(s) PROVE Keeps(E, s, n + 1, u[n + 1])
    OBVIOUS
  <2>1. Keeps(E, s, n, u[n]) /\ n + 1 \in 1..Len(s) /\ n + 1 \in 0..Len(s) /\ n + 1 # 0 /\ (n + 1) - 1 = n
    BY <1>0, <1>4
  <2> DEFINE o == u[n]
             e == s[n + 1]
  <2>2. u[n + 1] = Record!Quieter(o, e)
    BY <1>1, <2>1
  <2>3. e \in E
    BY <2>1
  <2>4. o \in Seq(E)
    BY <2>1 DEF Keeps
  <2> HIDE DEF o, e, E
  <2>5. Follows(o, e, Record!Quieter(o, e))
    BY <2>4 DEF Follows, FillOf, Record!Quieter
  <2> QED
    BY <2>1, <2>2, <2>3, <2>5, FollowKeeps DEF o, e
<1>5. Nat \subseteq G
  <2> HIDE DEF G
  <2> QED
    BY <1>3, <1>4, SetInduction
<1> QED
  BY <1>0, <1>2, <1>5

LEMMA CoalesceKeeps ==
  ASSUME NEW S, NEW s \in Seq(Occurrence(S))
  PROVE  Keeps(Occurrence(S), s, Len(s), Record!Coalesce(s))
<1> DEFINE E == Occurrence(S)
           u == BriefOf(s)
           G == {n \in Nat : n <= Len(s) => Keeps(E, s, n, u[n])}
<1>0. Len(s) \in Nat
  OBVIOUS
<1>1. \A n \in 0..Len(s) : u[n] = IF n = 0 THEN <<>> ELSE Record!Shorter(u[n - 1], s[n])
  <2>1. \A n \in 0..Len(s) : u[n] = BriefStep(s, u, n)
    BY <1>0, BriefUnfolds
  <2> QED
    BY <2>1, Zenon DEF BriefStep
<1>2. Record!Coalesce(s) = u[Len(s)]
  BY <1>0, BriefUnfolds
<1> HIDE DEF u
<1>3. 0 \in G
  <2>1. u[0] = <<>>
    BY <1>0, <1>1
  <2> QED
    BY <2>1, NothingKept
<1>4. ASSUME NEW n \in Nat, n \in G PROVE n + 1 \in G
  <2> SUFFICES ASSUME n + 1 <= Len(s) PROVE Keeps(E, s, n + 1, u[n + 1])
    OBVIOUS
  <2>1. Keeps(E, s, n, u[n]) /\ n + 1 \in 1..Len(s) /\ n + 1 \in 0..Len(s) /\ n + 1 # 0 /\ (n + 1) - 1 = n
    BY <1>0, <1>4
  <2> DEFINE o == u[n]
             e == s[n + 1]
  <2>2. u[n + 1] = Record!Shorter(o, e)
    BY <1>1, <2>1
  <2>3. e \in E
    BY <2>1
  <2>4. o \in Seq(E)
    BY <2>1 DEF Keeps
  <2> HIDE DEF o, e, E
  <2>5. Follows(o, e, Record!Shorter(o, e))
    BY <2>4 DEF Follows, FillOf, Record!Shorter, Record!Repeats, Record!Last, Record!Front
  <2> QED
    BY <2>1, <2>2, <2>3, <2>5, FollowKeeps DEF o, e
<1>5. Nat \subseteq G
  <2> HIDE DEF G
  <2> QED
    BY <1>3, <1>4, SetInduction
<1> QED
  BY <1>0, <1>2, <1>5

\* Both passes together.
LEMMA RecordingKept ==
  ASSUME NEW S, NEW s \in Seq(Occurrence(S))
  PROVE  Keeps(Occurrence(S), s, Len(s), Record!Coalesce(Record!Denoise(s)))
<1> DEFINE E == Occurrence(S)
           d == Record!Denoise(s)
           k == Record!Coalesce(d)
<1>1. Keeps(E, s, Len(s), d)
  BY DenoiseKeeps
<1>2. d \in Seq(E)
  BY <1>1 DEF Keeps
<1>3. Keeps(E, d, Len(d), k)
  BY <1>2, CoalesceKeeps
<1> HIDE DEF d, k, E
<1>4. Len(k) \in Nat /\ Len(d) \in Nat /\ Len(s) \in Nat /\ Len(k) <= Len(d) /\ Len(d) <= Len(s)
  BY <1>1, <1>2, <1>3 DEF Keeps
<1>5. Len(k) <= Len(s)
  BY <1>4
<1> QED
  BY <1>1, <1>3, <1>5, ZenonT(40) DEF Keeps, d, k, E

\* What the events so far have made.
MappedStep(s, k, allow, f, n) ==
  IF n = 0 THEN [steps |-> <<>>, vars |-> <<>>, count |-> [b \in Record!Bases(s) |-> 0], nav |-> Record!None]
  ELSE Record!Taken(f[n - 1], k, n, allow)
MappedOf(s, k, allow) == CHOOSE f : f = [n \in 0..Len(k) |-> MappedStep(s, k, allow, f, n)]

LEMMA MappedUnfolds ==
  ASSUME NEW s, NEW k, k = Record!Coalesce(Record!Denoise(s)), Len(k) \in Nat, NEW allow
  PROVE  /\ Record!Mapped(s, allow) = MappedOf(s, k, allow)[Len(k)]
         /\ \A n \in 0..Len(k) : MappedOf(s, k, allow)[n] = MappedStep(s, k, allow, MappedOf(s, k, allow), n)
<1> DEFINE Good == {m \in Nat : \E f : f = [i \in 0..m |-> MappedStep(s, k, allow, f, i)]}
<1>1. 0 \in Good
  <2> DEFINE f == [i \in 0..0 |-> MappedStep(s, k, allow, <<>>, 0)]
  <2>1. f = [i \in 0..0 |-> MappedStep(s, k, allow, f, i)]
    BY DEF MappedStep
  <2> QED
    BY <2>1
<1>2. ASSUME NEW m \in Nat, m \in Good
      PROVE  m + 1 \in Good
  <2>1. PICK f : f = [i \in 0..m |-> MappedStep(s, k, allow, f, i)]
    BY <1>2
  <2> DEFINE g == [i \in 0..(m + 1) |-> IF i = m + 1 THEN MappedStep(s, k, allow, f, i) ELSE f[i]]
  <2>2. ASSUME NEW i \in 0..(m + 1)
        PROVE  g[i] = MappedStep(s, k, allow, g, i)
    <3>1. MappedStep(s, k, allow, f, i) = MappedStep(s, k, allow, g, i)
      <4>1. CASE i = 0
        BY <4>1, Zenon DEF MappedStep
      <4>2. CASE i # 0
        <5>1. i - 1 \in 0..m /\ g[i - 1] = f[i - 1]
          BY <4>2
        <5> HIDE DEF g
        <5> QED
          BY <4>2, <5>1, Zenon DEF MappedStep
      <4> QED
        BY <4>1, <4>2
    <3> HIDE DEF MappedStep
    <3>2. CASE i = m + 1
      BY <3>1, <3>2
    <3>3. CASE i # m + 1
      <4>1. i \in 0..m /\ g[i] = f[i]
        BY <3>3
      <4>2. f[i] = MappedStep(s, k, allow, f, i)
        BY <2>1, <4>1
      <4> QED
        BY <3>1, <4>1, <4>2
    <3> QED
      BY <3>2, <3>3
  <2>3. g = [i \in 0..(m + 1) |-> MappedStep(s, k, allow, g, i)]
    <3> HIDE DEF MappedStep
    <3> QED
      BY <2>2
  <2> HIDE DEF g
  <2> QED
    BY <2>3
<1>3. Nat \subseteq Good
  <2> HIDE DEF Good
  <2> QED
    BY <1>1, <1>2, SetInduction
<1>4. \E f : f = [i \in 0..Len(k) |-> MappedStep(s, k, allow, f, i)]
  BY <1>3
<1>5. MappedOf(s, k, allow) = [i \in 0..Len(k) |-> MappedStep(s, k, allow, MappedOf(s, k, allow), i)]
  BY <1>4, Zenon DEF MappedOf
<1>6. Record!Mapped(s, allow) = MappedOf(s, k, allow)[Len(k)]
  BY Zenon DEF Record!Mapped, MappedOf, MappedStep
<1> QED
  <2> HIDE DEF MappedStep
  <2> QED
    BY <1>5, <1>6

\* A step that fills a control, and the text that what was typed into it
\* becomes.
StepFills(t, p, c) == t[p].action = "fill" /\ t[p].selector = c
Stands(s, e, allow, x) ==
  IF e.secret /\ ~allow THEN \E n \in 1..Len(s) : x = Record!Var(Record!VarName(e.base, n))
  ELSE x = Record!Plain(e.value) \/ (e.value \in Secretish /\ x = Record!Var("REDACTED"))
Filling(c, x) == [action |-> "fill", selector |-> c, text |-> x]

\* The steps so far leave in each control what the events so far have left
\* there, and each value is of an event.
Columns == {"steps", "vars", "count", "nav"}
Played(s, k, allow, n, t) ==
  /\ \E T : t \in Seq(T)
  /\ \A c : c # "none" /\ Blank(k, n, c) => \A p \in 1..Len(t) : ~StepFills(t, p, c)
  /\ \A c, e : c # "none" /\ LeftIn(k, n, c, e) =>
       \E p \in 1..Len(t) : /\ StepFills(t, p, c) /\ Stands(s, e, allow, t[p].text)
                            /\ \A q \in 1..Len(t) : p < q => ~StepFills(t, q, c)
  /\ \A p \in 1..Len(t) : t[p].action = "fill" /\ t[p].text.is = "value" =>
       \E i \in 1..n : FillOf(k, i, t[p].selector) /\ k[i].value = t[p].text.of /\ (allow \/ ~k[i].secret)
DoneIs(s, k, allow, n, d) ==
  DOMAIN d = Columns /\ d.count \in [Record!Bases(s) -> 0..n] /\ Played(s, k, allow, n, d.steps)

LEMMA AppendAny ==
  ASSUME NEW T, NEW t \in Seq(T), NEW x
  PROVE  LET u == Append(t, x)
         IN  /\ u \in Seq(T \cup {x}) /\ Len(t) \in Nat /\ Len(u) = Len(t) + 1 /\ u[Len(t) + 1] = x
             /\ \A p \in 1..Len(t) : u[p] = t[p]
             /\ \A p \in 1..Len(u) : p \in 1..Len(t) \/ p = Len(t) + 1
<1>1. t \in Seq(T \cup {x})
  OBVIOUS
<1> QED
  BY <1>1

\* What an event of k may add to the steps.
AddsTo(s, e, allow, t, u) ==
  \/ u = t /\ (e.kind # "fill" \/ e.selector = "none")
  \/ \E x : u = Append(t, x) /\ x.action # "fill" /\ e.kind # "fill"
  \/ \E x : /\ u = Append(t, Filling(e.selector, x)) /\ e.kind = "fill" /\ e.selector # "none"
            /\ Stands(s, e, allow, x) /\ (x.is = "value" => x.of = e.value /\ (allow \/ ~e.secret))

LEMMA TakenIs ==
  ASSUME NEW s, NEW k, NEW n \in Nat, NEW allow, NEW d, Len(s) \in Nat, n + 1 <= Len(s),
         DOMAIN d = Columns, d.count \in [Record!Bases(s) -> 0..n],
         k[n + 1].base \in Record!Bases(s), k[n + 1].secret \in BOOLEAN
  PROVE  LET b == Record!Taken(d, k, n + 1, allow)
         IN  /\ DOMAIN b = Columns /\ b.count \in [Record!Bases(s) -> 0..(n + 1)]
             /\ AddsTo(s, k[n + 1], allow, d.steps, b.steps)
<1> DEFINE e == k[n + 1]
           b == Record!Taken(d, k, n + 1, allow)
           Counts(c) == c \in [Record!Bases(s) -> 0..(n + 1)]
<1>0. Counts(d.count)
  <2>1. 0..n \subseteq 0..(n + 1)
    OBVIOUS
  <2> HIDE DEF Columns
  <2> QED
    BY <2>1
<1>1. CASE e.kind = "goto"
  <2>1. b = Record!Navigated(d, e)
    BY <1>1, Zenon DEF Record!Taken
  <2>2. DOMAIN b = Columns /\ b.count = d.count
        /\ (b.steps = d.steps \/ b.steps = Append(d.steps, [action |-> "goto", url |-> e.url]))
    <3> HIDE DEF e, b
    <3> QED
      BY <2>1 DEF Record!Navigated, Columns
  <2>3. [action |-> "goto", url |-> e.url].action # "fill"
    OBVIOUS
  <2> HIDE DEF b
  <2> QED
    BY <1>0, <1>1, <2>2, <2>3 DEF b, AddsTo
<1>2. CASE e.kind = "click"
  <2>1. b = Record!Clicked(d, k, n + 1)
    BY <1>2, Zenon DEF Record!Taken
  <2>2. DOMAIN b = Columns /\ b.count = d.count
        /\ (b.steps = d.steps \/ b.steps = Append(d.steps, [action |-> "click", selector |-> e.selector]))
    <3> HIDE DEF b
    <3> QED
      BY <2>1 DEF Record!Clicked, Columns
  <2>3. [action |-> "click", selector |-> e.selector].action # "fill"
    OBVIOUS
  <2> HIDE DEF b
  <2> QED
    BY <1>0, <1>2, <2>2, <2>3 DEF b, AddsTo
<1>3. CASE e.kind \notin {"goto", "click", "fill"}
  <2>1. b = d
    BY <1>3, Zenon DEF Record!Taken
  <2> QED
    BY <1>0, <1>3, <2>1 DEF AddsTo
<1>4. CASE e.kind = "fill"
  <2>1. b = Record!Typed(d, e, allow)
    BY <1>4, Zenon DEF Record!Taken
  <2>2. ASSUME NEW x PROVE DOMAIN Record!Filled(d, e, x) = Columns /\ Record!Filled(d, e, x).count = d.count
                           /\ Record!Filled(d, e, x).steps = Append(d.steps, Filling(e.selector, x))
    <3> HIDE DEF e
    <3> QED
      BY DEF Record!Filled, Filling, Columns
  <2>3. CASE e.selector = "none"
    <3>1. b = d
      BY <2>1, <2>3 DEF Record!Typed, Record!None
    <3> QED
      BY <1>0, <2>3, <3>1 DEF AddsTo
  <2>4. CASE e.selector # "none" /\ e.secret /\ ~allow
    <3> DEFINE m == d.count[e.base] + 1
               name == Record!VarName(e.base, m)
               x == Record!Var(name)
               f == Record!Filled(d, e, x)
               C(v) == Record!Contains(v, name)
    <3>1. b = Record!SecretFilled(d, e)
      BY <2>1, <2>4, Zenon DEF Record!Typed, Record!None
    <3>2. b = [f EXCEPT !.count[e.base] = m, !.vars = IF C(@) THEN @ ELSE Append(@, name)]
      BY <3>1, Zenon DEF Record!SecretFilled
    <3>3. m \in 1..(n + 1) /\ m \in 0..(n + 1) /\ m \in 1..Len(s)
      <4>1. d.count[e.base] \in 0..n
        OBVIOUS
      <4> QED
        BY <4>1
    <3>4. DOMAIN f = Columns /\ f.count = d.count /\ f.steps = Append(d.steps, Filling(e.selector, x))
      BY <2>2
    <3> HIDE DEF f, C
    <3>5. DOMAIN b = Columns /\ b.steps = f.steps /\ b.count = [d.count EXCEPT ![e.base] = m]
      <4> HIDE DEF m, name, e, b
      <4> QED
        BY <3>2, <3>4 DEF Columns
    <3>6. Counts(b.count)
      <4>1. \A c : c = [d.count EXCEPT ![e.base] = m] => Counts(c)
        <5> HIDE DEF m
        <5> QED
          BY <1>0, <3>3
      <4> HIDE DEF b, Counts
      <4> QED
        BY <3>5, <4>1
    <3>7. Stands(s, e, allow, x)
      <4> HIDE DEF m
      <4> QED
        BY <2>4, <3>3, Zenon DEF Stands, name, x
    <3>8. x.is # "value"
      <4> HIDE DEF name
      <4> QED
        BY DEF Record!Var
    <3> HIDE DEF b, x, Counts
    <3> QED
      BY <1>4, <2>4, <3>4, <3>5, <3>6, <3>7, <3>8 DEF b, Counts, AddsTo
  <2>5. CASE e.selector # "none" /\ ~(e.secret /\ ~allow)
    <3> DEFINE x == IF e.secret THEN Record!Plain(e.value) ELSE Record!Stripped(e.value)
    <3>1. b = Record!Filled(d, e, x)
      BY <2>1, <2>5 DEF Record!Typed, Record!None
    <3>2. Stands(s, e, allow, x) /\ (x.is = "value" => x.of = e.value)
      BY <2>5 DEF Stands, Record!Stripped, Record!Plain, Record!Var
    <3>3. DOMAIN b = Columns /\ b.count = d.count /\ b.steps = Append(d.steps, Filling(e.selector, x))
      BY <2>2, <3>1
    <3> HIDE DEF b, x, Counts
    <3> QED
      BY <1>0, <1>4, <2>5, <3>2, <3>3 DEF b, Counts, AddsTo
  <2> QED
    BY <2>3, <2>4, <2>5
<1> QED
  BY <1>1, <1>2, <1>3, <1>4

LEMMA PlayedOn ==
  ASSUME NEW s, NEW k, NEW allow, NEW n \in Nat, NEW t, Played(s, k, allow, n, t), NEW u,
         AddsTo(s, k[n + 1], allow, t, u)
  PROVE  Played(s, k, allow, n + 1, u)
<1> DEFINE e == k[n + 1]
<1>0. /\ n + 1 \in 1..(n + 1) /\ \A i \in 1..n : i \in 1..(n + 1)
      /\ \A c : FillOf(k, n + 1, c) <=> e.kind = "fill" /\ e.selector = c
  BY DEF FillOf
<1> HIDE DEF e
<1>1. /\ \E T : t \in Seq(T)
      /\ \A c : c # "none" /\ Blank(k, n, c) => \A p \in 1..Len(t) : ~StepFills(t, p, c)
      /\ \A c, d : c # "none" /\ LeftIn(k, n, c, d) =>
           \E p \in 1..Len(t) : /\ StepFills(t, p, c) /\ Stands(s, d, allow, t[p].text)
                                /\ \A q \in 1..Len(t) : p < q => ~StepFills(t, q, c)
      /\ \A p \in 1..Len(t) : t[p].action = "fill" /\ t[p].text.is = "value" =>
           \E i \in 1..n : FillOf(k, i, t[p].selector) /\ k[i].value = t[p].text.of /\ (allow \/ ~k[i].secret)
  BY Zenon DEF Played
<1>2. CASE u = t /\ (e.kind # "fill" \/ e.selector = "none")
  <2>1. \A c : c # "none" => ~FillOf(k, n + 1, c)
    BY <1>0, <1>2, Zenon
  <2>2. \A c, d : c # "none" /\ LeftIn(k, n + 1, c, d) => LeftIn(k, n, c, d)
    <3> SUFFICES ASSUME NEW c, NEW d, c # "none", LeftIn(k, n + 1, c, d) PROVE LeftIn(k, n, c, d)
      OBVIOUS
    <3> QED
      BY <2>1, NextLeft
  <2>3. \A c : Blank(k, n + 1, c) => Blank(k, n, c)
    BY NextBlank
  <2> QED
    BY <1>0, <1>1, <1>2, <2>2, <2>3, Zenon DEF Played
\* A step more.
<1>3. ASSUME NEW x, u = Append(t, x),
             \A c : c # "none" => (x.action = "fill" /\ x.selector = c <=> FillOf(k, n + 1, c)),
             x.action = "fill" => /\ e.kind = "fill" /\ e.selector = x.selector /\ Stands(s, e, allow, x.text)
                                  /\ x.text.is = "value" => x.text.of = e.value /\ (allow \/ ~e.secret)
      PROVE  Played(s, k, allow, n + 1, u)
  <2>1. PICK T : t \in Seq(T)
    BY <1>1
  <2> DEFINE l == Len(t)
  <2>2. /\ u \in Seq(T \cup {x}) /\ l \in Nat /\ Len(u) = l + 1 /\ u[l + 1] = x
        /\ \A p \in 1..l : u[p] = t[p]
        /\ \A p \in 1..Len(u) : p \in 1..l \/ p = l + 1
    BY <1>3, <2>1, AppendAny
  <2>3. /\ \A p \in 1..l : p \in 1..Len(u) /\ p < l + 1 /\ ~(l + 1 < p)
        /\ l + 1 \in 1..Len(u) /\ ~(l + 1 < l + 1)
    BY <2>2
  <2> HIDE DEF l
  <2>4. /\ \A p \in 1..l : \A c : StepFills(u, p, c) <=> StepFills(t, p, c)
        /\ \A c : c # "none" => (StepFills(u, l + 1, c) <=> FillOf(k, n + 1, c))
    BY <1>3, <2>2, Zenon DEF StepFills
  <2>5. ASSUME NEW c, c # "none", Blank(k, n + 1, c), NEW p \in 1..Len(u) PROVE ~StepFills(u, p, c)
    <3>1. Blank(k, n, c) /\ ~FillOf(k, n + 1, c)
      BY <2>5, NextBlank
    <3> QED
      BY <1>1, <2>2, <2>4, <2>5, <3>1, Zenon DEF l
  <2>6. ASSUME NEW c, NEW d, c # "none", LeftIn(k, n + 1, c, d)
        PROVE  \E p \in 1..Len(u) : /\ StepFills(u, p, c) /\ Stands(s, d, allow, u[p].text)
                                    /\ \A q \in 1..Len(u) : p < q => ~StepFills(u, q, c)
    <3>1. CASE FillOf(k, n + 1, c) /\ d = k[n + 1]
      <4>1. StepFills(u, l + 1, c) /\ u[l + 1] = x /\ x.action = "fill"
        BY <1>3, <2>2, <2>4, <2>6, <3>1, Zenon
      <4>2. Stands(s, d, allow, u[l + 1].text)
        BY <1>3, <3>1, <4>1, Zenon DEF e
      <4>3. \A q \in 1..Len(u) : ~(l + 1 < q)
        BY <2>2, <2>3, Zenon
      <4> QED
        BY <2>3, <4>1, <4>2, <4>3, Zenon
    <3>2. CASE ~FillOf(k, n + 1, c) /\ LeftIn(k, n, c, d)
      <4>1. PICK p \in 1..l : /\ StepFills(t, p, c) /\ Stands(s, d, allow, t[p].text)
                              /\ \A q \in 1..l : p < q => ~StepFills(t, q, c)
        BY <1>1, <2>6, <3>2, Zenon DEF l
      <4>2. p \in 1..Len(u) /\ StepFills(u, p, c) /\ Stands(s, d, allow, u[p].text)
        BY <2>2, <2>3, <2>4, <4>1, Zenon
      <4>3. \A q \in 1..Len(u) : p < q => ~StepFills(u, q, c)
        BY <2>2, <2>4, <2>6, <3>2, <4>1, Zenon
      <4> QED
        BY <4>2, <4>3, Zenon
    <3> QED
      BY <2>6, <3>1, <3>2, NextLeft
  <2>7. ASSUME NEW p \in 1..Len(u), u[p].action = "fill", u[p].text.is = "value"
        PROVE  \E i \in 1..(n + 1) : FillOf(k, i, u[p].selector) /\ k[i].value = u[p].text.of /\ (allow \/ ~k[i].secret)
    <3>1. CASE p \in 1..l
      BY <1>0, <1>1, <2>2, <2>7, <3>1, ZenonT(40) DEF l
    <3>2. CASE p = l + 1
      <4>1. u[p] = x
        BY <2>2, <3>2
      <4>2. e.kind = "fill" /\ e.selector = u[p].selector /\ u[p].text.of = e.value /\ (allow \/ ~e.secret)
        BY <1>3, <2>7, <4>1, Zenon
      <4> QED
        BY <1>0, <4>2, Zenon DEF e
    <3> QED
      BY <2>2, <3>1, <3>2
  <2>8. \E W : u \in Seq(W)
    BY <2>2, Zenon
  <2> QED
    BY <2>5, <2>6, <2>7, <2>8, Zenon DEF Played
<1>4. ASSUME NEW x, u = Append(t, x), x.action # "fill", e.kind # "fill"
      PROVE  Played(s, k, allow, n + 1, u)
  BY <1>0, <1>3, <1>4
<1>5. ASSUME NEW x, u = Append(t, Filling(e.selector, x)), e.kind = "fill", e.selector # "none",
             Stands(s, e, allow, x), x.is = "value" => x.of = e.value /\ (allow \/ ~e.secret)
      PROVE  Played(s, k, allow, n + 1, u)
  <2> DEFINE y == Filling(e.selector, x)
  <2>1. y.action = "fill" /\ y.selector = e.selector /\ y.text = x
    BY DEF Filling
  <2> HIDE DEF y
  <2>2. \A c : c # "none" => (y.action = "fill" /\ y.selector = c <=> FillOf(k, n + 1, c))
    BY <1>0, <1>5, <2>1, Zenon
  <2>3. u = Append(t, y)
    BY <1>5 DEF y
  <2> QED
    BY <1>3, <1>5, <2>1, <2>2, <2>3
<1> QED
  BY <1>2, <1>4, <1>5 DEF e, AddsTo

\* What a skill is made of.
LEMMA MappedIs ==
  ASSUME NEW S, NEW s \in Seq(Occurrence(S)), NEW allow \in BOOLEAN
  PROVE  LET k == Record!Coalesce(Record!Denoise(s))
         IN  Played(s, k, allow, Len(k), Record!Mapped(s, allow).steps)
<1> DEFINE k == Record!Coalesce(Record!Denoise(s))
           u == MappedOf(s, k, allow)
           G == {n \in Nat : n <= Len(k) => DoneIs(s, k, allow, n, u[n])}
<1>1. Keeps(Occurrence(S), s, Len(s), k)
  BY RecordingKept
<1>2. k \in Seq(Occurrence(S)) /\ Len(k) \in Nat /\ Len(s) \in Nat /\ Len(k) <= Len(s)
  BY <1>1 DEF Keeps
<1>3. \A n \in 1..Len(k) : k[n].base \in Record!Bases(s) /\ k[n].secret \in BOOLEAN
  <2> SUFFICES ASSUME NEW n \in 1..Len(k) PROVE k[n].base \in Record!Bases(s) /\ k[n].secret \in BOOLEAN
    OBVIOUS
  <2>1. PICK i \in 1..Len(s) : k[n] = s[i]
    BY <1>1 DEF Keeps
  <2>2. s[i] \in Occurrence(S) /\ i \in DOMAIN s
    OBVIOUS
  <2> HIDE DEF k
  <2> QED
    BY <2>1, <2>2 DEF Occurrence, Record!Bases
<1>4. Record!Mapped(s, allow) = u[Len(k)] /\ \A n \in 0..Len(k) : u[n] = MappedStep(s, k, allow, u, n)
  BY <1>2, MappedUnfolds
<1> HIDE DEF u, k
<1>5. 0 \in G
  <2>1. u[0] = [steps |-> <<>>, vars |-> <<>>, count |-> [b \in Record!Bases(s) |-> 0], nav |-> Record!None]
    BY <1>2, <1>4 DEF MappedStep
  <2>2. u[0].steps = <<>> /\ u[0].count \in [Record!Bases(s) -> 0..0] /\ DOMAIN u[0] = Columns
    BY <2>1 DEF Columns
  <2>3. <<>> \in Seq({}) /\ Len(<<>>) = 0 /\ 1..0 = {}
    OBVIOUS
  <2>4. Played(s, k, allow, 0, <<>>)
    BY <2>3 DEF Played, LeftIn
  <2> QED
    BY <2>2, <2>4 DEF DoneIs
<1>6. ASSUME NEW n \in Nat, n \in G PROVE n + 1 \in G
  <2> SUFFICES ASSUME n + 1 <= Len(k) PROVE DoneIs(s, k, allow, n + 1, u[n + 1])
    OBVIOUS
  <2>1. DoneIs(s, k, allow, n, u[n]) /\ n + 1 \in 1..Len(k) /\ n + 1 \in 0..Len(k) /\ n + 1 # 0 /\ (n + 1) - 1 = n
    BY <1>2, <1>6
  <2> DEFINE d == u[n]
             b == Record!Taken(d, k, n + 1, allow)
  <2>2. u[n + 1] = b
    BY <1>4, <2>1, Zenon DEF MappedStep
  <2> HIDE DEF d, b
  <2>3. DOMAIN d = Columns /\ d.count \in [Record!Bases(s) -> 0..n] /\ Played(s, k, allow, n, d.steps)
    BY <2>1, Zenon DEF DoneIs, d
  <2>4. /\ DOMAIN b = Columns /\ b.count \in [Record!Bases(s) -> 0..(n + 1)]
        /\ AddsTo(s, k[n + 1], allow, d.steps, b.steps)
    <3>1. k[n + 1].base \in Record!Bases(s) /\ k[n + 1].secret \in BOOLEAN
      BY <1>3, <2>1
    <3>2. n + 1 <= Len(s) /\ Len(s) \in Nat
      BY <1>2, <2>1
    <3> QED
      BY <1>6, <2>3, <3>1, <3>2, TakenIs DEF b
  <2>5. Played(s, k, allow, n + 1, b.steps)
    BY <1>6, <2>3, <2>4, PlayedOn
  <2> QED
    BY <2>2, <2>4, <2>5, Zenon DEF DoneIs
<1>7. Nat \subseteq G
  <2> HIDE DEF G
  <2> QED
    BY <1>5, <1>6, SetInduction
<1>8. DoneIs(s, k, allow, Len(k), u[Len(k)])
  BY <1>2, <1>7
<1> QED
  BY <1>4, <1>8, Zenon DEF DoneIs, k

\* What a human recorded is played as it was: each control gets what was left
\* in it last, and no secret is written (teach.rs:1078).
THEOREM RecordingPlays ==
  ASSUME NEW S, NEW s \in Seq(Occurrence(S)), NEW allow \in BOOLEAN
  PROVE  Record!PlaysAsRecorded(s, allow) /\ Record!RecordedSecretsOut(s, allow)
<1> DEFINE k == Record!Coalesce(Record!Denoise(s))
           t == Record!Mapped(s, allow).steps
           m == Len(k)
<1>1. Keeps(Occurrence(S), s, Len(s), k) /\ Played(s, k, allow, m, t)
  BY RecordingKept, MappedIs
<1>2. PICK T : t \in Seq(T)
  BY <1>1, Zenon DEF Played
<1> HIDE DEF k, t
<1>3. Len(s) \in Nat /\ DOMAIN s = 1..Len(s) /\ Len(t) \in Nat /\ DOMAIN t = 1..Len(t)
  BY <1>2
<1>4. ASSUME NEW c, c # "none"
      PROVE  LET r == Record!LastOf({i \in DOMAIN s : s[i].kind = "fill" /\ s[i].selector = c})
                 p == Record!LastOf({i \in DOMAIN t : t[i].action = "fill" /\ t[i].selector = c})
             IN  IF r = 0 THEN p = 0 ELSE p # 0 /\ Stands(s, s[r], allow, t[p].text)
  <2> DEFINE A == {i \in DOMAIN s : s[i].kind = "fill" /\ s[i].selector = c}
             B == {i \in DOMAIN t : t[i].action = "fill" /\ t[i].selector = c}
             r == Record!LastOf(A)
             p == Record!LastOf(B)
  <2>1. A \in SUBSET (1..Len(s)) /\ B \in SUBSET (1..Len(t))
        /\ (\A i \in 1..Len(s) : i \in A <=> FillOf(s, i, c)) /\ (\A i \in 1..Len(t) : i \in B <=> StepFills(t, i, c))
    BY <1>3, Zenon DEF FillOf, StepFills
  <2> HIDE DEF A, B
  <2>2. IF A = {} THEN r = 0 ELSE r \in A /\ \A j \in A : j <= r
    BY <1>3, <2>1, LastIs
  <2>3. IF B = {} THEN p = 0 ELSE p \in B /\ \A j \in B : j <= p
    BY <1>3, <2>1, LastIs
  <2> HIDE DEF r, p
  <2>4. CASE A = {}
    <3>1. Blank(s, Len(s), c)
      BY <2>1, <2>4, Zenon DEF Blank
    <3>2. Blank(k, m, c)
      BY <1>1, <3>1, Zenon DEF Keeps
    <3>3. \A i \in 1..Len(t) : ~StepFills(t, i, c)
      BY <1>1, <1>4, <3>2, Zenon DEF Played
    <3>4. B = {}
      BY <2>1, <3>3
    <3> QED
      BY <2>2, <2>3, <2>4, <3>4 DEF A, B, r, p
  <2>5. CASE A # {}
    <3>1. r \in 1..Len(s) /\ r # 0 /\ FillOf(s, r, c) /\ \A j \in 1..Len(s) : r < j => ~FillOf(s, j, c)
      <4>1. r \in A /\ r \in 1..Len(s) /\ \A j \in A : j <= r
        BY <2>1, <2>2, <2>5
      <4>2. \A j \in 1..Len(s) : r < j => j \notin A
        BY <4>1
      <4> QED
        BY <2>1, <4>1, <4>2
    <3>2. LeftIn(s, Len(s), c, s[r])
      BY <3>1, Zenon DEF LeftIn
    <3>3. LeftIn(k, m, c, s[r])
      BY <1>1, <3>2, Zenon DEF Keeps
    <3>4. PICK q \in 1..Len(t) : /\ StepFills(t, q, c) /\ Stands(s, s[r], allow, t[q].text)
                                 /\ \A j \in 1..Len(t) : q < j => ~StepFills(t, j, c)
      BY <1>1, <1>4, <3>3, Zenon DEF Played
    <3>5. p = q /\ p # 0
      <4>1. q \in B /\ B # {}
        BY <2>1, <3>4
      <4>2. p \in B /\ p \in 1..Len(t) /\ q <= p /\ StepFills(t, p, c)
        BY <2>1, <2>3, <4>1
      <4>3. ~(q < p)
        BY <3>4, <4>2
      <4> QED
        BY <1>3, <4>2, <4>3
    <3> QED
      BY <3>1, <3>4, <3>5 DEF A, B, r, p
  <2> QED
    BY <2>4, <2>5
<1>5. Record!PlaysAsRecorded(s, allow)
  <2>1. \A c : c \in {s[i].selector : i \in DOMAIN s} \ {Record!None} => c # "none"
    BY DEF Record!None
  <2> QED
    BY <1>3, <1>4, <2>1, Zenon DEF Record!PlaysAsRecorded, Stands, t
<1>6. ASSUME ~Record!Refused(Record!Mapped(s, allow)), NEW i \in DOMAIN t, t[i].action = "fill", t[i].text.is = "value"
      PROVE  \E j \in DOMAIN s : /\ s[j].kind = "fill" /\ s[j].selector = t[i].selector
                                 /\ s[j].value = t[i].text.of /\ s[j].value \notin Secretish
                                 /\ allow \/ ~s[j].secret
  <2>1. t[i].text.of \notin Secretish
    BY <1>6, Zenon DEF Record!Refused, t
  <2>2. PICK h \in 1..m : FillOf(k, h, t[i].selector) /\ k[h].value = t[i].text.of /\ (allow \/ ~k[h].secret)
    BY <1>1, <1>3, <1>6, Zenon DEF Played
  <2>3. PICK j \in 1..Len(s) : k[h] = s[j]
    BY <1>1, Zenon DEF Keeps
  <2> QED
    BY <1>3, <2>1, <2>2, <2>3, Zenon DEF FillOf
<1>7. Record!RecordedSecretsOut(s, allow)
  BY <1>6, Zenon DEF Record!RecordedSecretsOut, t
<1> QED
  BY <1>5, <1>7

-----------------------------------------------------------------------------
(* A draft *)

\* The step an action may become.
Waits == MaxScroll \in Nat /\ MaxWait \in Nat /\ DefaultWait \in Nat /\ DefaultWait <= MaxWait
Typed(x)  == x.action \in {"fill", "type"}
TextFor(x) == IF Typed(x) THEN Draft!Parameterized(x) ELSE "none"
NameFor(x) == IF Typed(x) /\ Draft!Parameterized(x) = "var" THEN Draft!Variable(x) ELSE "none"
WaitFor(x) ==
  IF x.action # "wait" THEN 0 ELSE IF x.ms = 0 THEN DefaultWait ELSE Draft!Clamped(x.ms)
StepFor(x, u) ==
  [action |-> x.action, source |-> u, selector |-> x.selector, raw |-> x.raw, secret |-> x.secret,
   url |-> IF x.action = "goto" THEN x.url ELSE "none", text |-> TextFor(x), name |-> NameFor(x),
   ms |-> WaitFor(x), dx |-> IF x.action = "scroll" THEN x.dx ELSE 0,
   dy |-> IF x.action = "scroll" THEN x.dy ELSE 0,
   value |-> IF x.action = "select" THEN x.value ELSE "none",
   point |-> FALSE, observed |-> FALSE, reason |-> "none"]

LEMMA CanonicalIs == ASSUME NEW x, NEW u PROVE Draft!Canonical(x, u) = StepFor(x, u)
<1>1. TextFor(x) = IF x.action \in {"fill", "type"} THEN Draft!Parameterized(x) ELSE "none"
  BY Zenon DEF TextFor, Typed
<1>2. NameFor(x) = IF x.action \in {"fill", "type"} /\ Draft!Parameterized(x) = "var"
                   THEN Draft!Variable(x) ELSE "none"
  BY Zenon DEF NameFor, Typed
<1>3. WaitFor(x) = IF x.action # "wait" THEN 0 ELSE IF x.ms = 0 THEN DefaultWait ELSE Draft!Clamped(x.ms)
  BY Zenon DEF WaitFor
<1> QED
  BY <1>1, <1>2, <1>3, Zenon DEF StepFor, Draft!Canonical

\* What the validation asks of an action, in its own terms.
Fit(x, human) ==
  /\ x.action \in Draft!Unified \/ (x.action \in Draft!HumanExtra /\ human)
  /\ x.selector \in {"none", "ok"}
  /\ Draft!AsText(Draft!TextOf(x)) \in {"none", "ok"}
  /\ Draft!Abs(x.dx) <= MaxScroll /\ Draft!Abs(x.dy) <= MaxScroll
  /\ x.url \in {"none", "ok"}
  /\ Draft!Complete(x)

LEMMA CheckedIs ==
  ASSUME NEW S, NEW x \in Timeline(S), NEW d \in {"human", "llm", "agent"},
         (d = "human") <=> (x.source = "human")
  PROVE  Draft!Valid(Draft!Checked(x), d) <=> Fit(x, x.source = "human")
<1> DEFINE y == Draft!Checked(x)
<1>1. /\ y.action = x.action /\ y.source = x.source /\ y.selector = x.selector /\ y.dx = x.dx /\ y.dy = x.dy
      /\ y.url = x.url /\ y.point = x.point /\ y.observed = x.observed
      /\ y.text = Draft!AsText(x.text) /\ y.value = Draft!AsText(x.value)
  BY DEF Draft!Checked, Timeline
<1> HIDE DEF y
<1>2. Draft!TextOf(y) = Draft!AsText(Draft!TextOf(x)) /\ (Draft!TextOf(y) = "none" <=> Draft!TextOf(x) = "none")
  BY <1>1 DEF Draft!TextOf, Draft!AsText, Draft!Credentials
<1>3. (Draft!SourceOf(y, d) = "human") <=> (x.source = "human")
  BY <1>1 DEF Draft!SourceOf
<1>4. Draft!Complete(y) <=> Draft!Complete(x)
  BY <1>1, <1>2 DEF Draft!Complete
<1> QED
  <2>1. Draft!NameOk(y, d) <=> (x.action \in Draft!Unified \/ (x.action \in Draft!HumanExtra /\ x.source = "human"))
    BY <1>1, <1>3, Zenon DEF Draft!NameOk
  <2>2. Draft!UrlOk(y.url) <=> x.url \in {"none", "ok"}
    BY <1>1, Zenon DEF Draft!UrlOk
  <2> QED
    BY <1>1, <1>2, <1>4, <2>1, <2>2, Zenon DEF Draft!Valid, Fit, y

\* The source a step gets, and what makes a step of an action.
SourceFor(x) == IF x.source = "human" THEN "human" ELSE "agent"
Becomes(x) ==
  /\ ~x.raw /\ x.action \in Draft!Exportable /\ Fit(x, x.source = "human")
  /\ ~(x.action = "click" /\ x.selector = "none")
  /\ ~(x.action = "select" /\ x.value # "none" /\ x.secret)
  /\ Draft!Secretless(StepFor(x, SourceFor(x)))

LEMMA ClassIs ==
  ASSUME NEW S, NEW x \in Timeline(S)
  PROVE  LET c == Draft!Classify(x, "agent") IN
         IF Becomes(x) THEN c = StepFor(x, SourceFor(x)) ELSE c \in {Draft!Rejects, Draft!Skips}
<1> DEFINE u == SourceFor(x)
           d == IF u = "human" THEN "human" ELSE "llm"
           c == Draft!Canonical(x, u)
<1>1. Draft!ExportSource(x, "agent") = u
  BY DEF Draft!ExportSource, SourceFor
<1>2. Draft!Valid(Draft!Checked(x), d) <=> Fit(x, x.source = "human")
  <2>1. d \in {"human", "llm", "agent"} /\ ((d = "human") <=> (x.source = "human"))
    BY DEF SourceFor
  <2> HIDE DEF d
  <2> QED
    BY <2>1, CheckedIs
<1>3. c = StepFor(x, u)
  BY CanonicalIs
<1>4. x.action \in Draft!Exportable => x.action \notin Draft!Skipped /\ x.action # "none"
  BY DEF Draft!Exportable, Draft!Skipped
<1>5. Draft!Classify(x, "agent") =
        IF x.raw \/ x.action = "none" THEN Draft!Rejects
        ELSE IF x.action \in Draft!Skipped THEN Draft!Skips
        ELSE IF ~Draft!Valid(Draft!Checked(x), d) \/ x.action \notin Draft!Exportable THEN Draft!Rejects
        ELSE IF x.action = "click" /\ x.selector = "none" THEN Draft!Skips
        ELSE IF (x.action = "select" /\ x.value # "none" /\ x.secret) \/ ~Draft!Secretless(c) THEN Draft!Rejects
        ELSE c
  BY <1>1, Zenon DEF Draft!Classify
<1> HIDE DEF c, d, u
<1> QED
  BY <1>2, <1>3, <1>4, <1>5, Zenon DEF Becomes, u

\* A step is one of an action that is made a step, and stays as it is.
LEMMA StepStays ==
  ASSUME NEW S, NEW x \in Timeline(S), Waits, Becomes(x)
  PROVE  LET y == StepFor(x, SourceFor(x)) IN
         /\ y \in Timeline(S \cup {"none", "var", "REDACTED", "human", "agent"})
         /\ Becomes(y) /\ SourceFor(y) = y.source /\ y.source \in {"human", "agent"} /\ StepFor(y, y.source) = y
         /\ y.text \notin Draft!Credentials \cup {"redacted"} /\ (Typed(y) /\ y.secret => y.text \in {"var", "oddvar"})
         /\ y.text = "var" /\ x.name # "none" => y.name # "none"
<1> DEFINE u == SourceFor(x)
           y == StepFor(x, u)
           T == S \cup {"none", "var", "REDACTED", "human", "agent"}
<1>1. /\ y.action = x.action /\ y.source = u /\ y.selector = x.selector /\ y.text = TextFor(x)
      /\ y.value = IF x.action = "select" THEN x.value ELSE "none"
      /\ y.url = IF x.action = "goto" THEN x.url ELSE "none"
      /\ y.dx = IF x.action = "scroll" THEN x.dx ELSE 0
      /\ y.dy = IF x.action = "scroll" THEN x.dy ELSE 0
      /\ y.ms = WaitFor(x) /\ y.point = FALSE /\ y.observed = FALSE /\ y.reason = "none"
      /\ y.raw = x.raw /\ y.secret = x.secret /\ y.name = NameFor(x)
  BY DEF StepFor
<1>2. /\ x.action \in S /\ x.source \in S /\ x.selector \in S /\ x.text \in S /\ x.value \in S /\ x.url \in S
      /\ x.dx \in Int /\ x.dy \in Int /\ x.ms \in Nat /\ x.raw \in BOOLEAN /\ x.secret \in BOOLEAN /\ x.name \in S
  BY DEF Timeline
<1>3. u \in {"human", "agent"} /\ (u = "human" <=> x.source = "human")
  BY DEF SourceFor
<1>4. ~x.raw /\ x.action \in Draft!Exportable /\ Fit(x, x.source = "human")
  BY DEF Becomes
<1>5. Typed(x) => Draft!TextOf(x) \in {"ok", "dump", "key", "redacted", "var", "oddvar"}
  <2> SUFFICES ASSUME Typed(x) PROVE Draft!TextOf(x) \in {"ok", "dump", "key", "redacted", "var", "oddvar"}
    OBVIOUS
  <2>1. Draft!TextOf(x) # "none"
    BY <1>4 DEF Fit, Draft!Complete, Typed
  <2> QED
    BY <1>4, <2>1 DEF Fit, Draft!AsText, Draft!Credentials
<1>6. /\ Typed(x) => TextFor(x) \in {"ok", "var", "oddvar"} /\ (TextFor(x) = "ok" => ~x.secret)
      /\ ~Typed(x) => TextFor(x) = "none"
  BY <1>2, <1>5 DEF TextFor, Draft!Parameterized, Draft!Credentials
<1>7. NameFor(x) \in S \cup {"none", "REDACTED"} /\ (~(TextFor(x) = "var") => NameFor(x) = "none")
  BY <1>2, <1>6 DEF NameFor, TextFor, Draft!Variable, Draft!Credentials
<1>8. WaitFor(x) \in Nat /\ WaitFor(x) <= MaxWait /\ (x.action # "wait" => WaitFor(x) = 0)
      /\ (x.action = "wait" /\ WaitFor(x) = 0 => DefaultWait = 0)
  BY <1>2 DEF WaitFor, Draft!Clamped, Waits
<1>9. TextFor(x) \in T
  <2>1. Typed(x) /\ TextFor(x) = "ok" => Draft!TextOf(x) = "ok"
    BY <1>5 DEF TextFor, Draft!Parameterized, Draft!Credentials
  <2>2. Typed(x) /\ TextFor(x) = "oddvar" => Draft!TextOf(x) = "oddvar"
    BY <1>5 DEF TextFor, Draft!Parameterized, Draft!Credentials
  <2>3. Typed(x) => Draft!TextOf(x) \in S \cup {"none"}
    BY <1>2 DEF Draft!TextOf
  <2> QED
    BY <1>6, <2>1, <2>2, <2>3
<1>10. y \in Timeline(T)
  <2> DEFINE val == IF x.action = "select" THEN x.value ELSE "none"
             at  == IF x.action = "goto" THEN x.url ELSE "none"
             dx == IF x.action = "scroll" THEN x.dx ELSE 0
             dy == IF x.action = "scroll" THEN x.dy ELSE 0
             txt == TextFor(x)
             nam == NameFor(x)
             ms  == WaitFor(x)
  <2>1. val \in T /\ at \in T /\ dx \in Int /\ dy \in Int /\ txt \in T /\ nam \in T /\ ms \in Nat /\ u \in T
    BY <1>2, <1>3, <1>7, <1>8, <1>9
  <2>2. x.action \in T /\ x.selector \in T /\ "none" \in T
    BY <1>2
  <2>3. y = [action |-> x.action, source |-> u, selector |-> x.selector, raw |-> x.raw, secret |-> x.secret,
             url |-> at, text |-> txt, name |-> nam, ms |-> ms, dx |-> dx, dy |-> dy, value |-> val,
             point |-> FALSE, observed |-> FALSE, reason |-> "none"]
    BY Zenon DEF StepFor
  <2> HIDE DEF val, at, dx, dy, txt, nam, ms, u, T, y
  <2> QED
    BY <1>2, <2>1, <2>2, <2>3 DEF Timeline
<1> HIDE DEF y, u
<1>11. SourceFor(y) = u
  BY <1>1, <1>3 DEF SourceFor
\* What is typed stays, and has its name.
<1>12. Draft!TextOf(y) = IF x.action = "select" THEN "none" ELSE TextFor(x)
  BY <1>1, <1>6 DEF Draft!TextOf, Typed
<1>13. TextFor(y) = TextFor(x)
  BY <1>1, <1>6, <1>12 DEF TextFor, Typed, Draft!Parameterized, Draft!Credentials
<1>14. NameFor(y) = NameFor(x)
  <2>1. CASE Typed(x) /\ TextFor(x) = "var"
    <3>1. Draft!Parameterized(y) = "var" /\ Typed(y) /\ Draft!TextOf(y) = "var"
      BY <1>1, <1>12, <1>13, <2>1 DEF TextFor, Typed
    <3>2. Draft!Variable(y) = y.name
      BY <3>1 DEF Draft!Variable, Draft!Credentials
    <3> QED
      BY <1>1, <3>1, <3>2 DEF NameFor
  <2>2. CASE ~(Typed(x) /\ TextFor(x) = "var")
    <3>1. NameFor(x) = "none"
      BY <1>6, <1>7, <2>2
    <3>2. ~(Typed(y) /\ Draft!Parameterized(y) = "var")
      BY <1>1, <1>13, <2>2 DEF TextFor, Typed
    <3> QED
      BY <3>1, <3>2 DEF NameFor
  <2> QED
    BY <2>1, <2>2
<1>15. WaitFor(y) = WaitFor(x)
  <2>1. CASE x.action = "wait"
    <3> DEFINE n == WaitFor(x)
    <3>1. WaitFor(y) = IF n = 0 THEN DefaultWait ELSE Draft!Clamped(n)
      BY <1>1, <2>1 DEF WaitFor
    <3>2. n \in Nat /\ n <= MaxWait /\ (n = 0 => DefaultWait = 0)
      BY <1>8, <2>1
    <3> HIDE DEF n
    <3>3. WaitFor(y) = n
      BY <3>1, <3>2 DEF Draft!Clamped, Waits
    <3> QED
      BY <3>3 DEF n
  <2>2. CASE x.action # "wait"
    BY <1>1, <2>2 DEF WaitFor
  <2> QED
    BY <2>1, <2>2
<1>16. StepFor(y, u) = y
  <2> DEFINE val == IF x.action = "select" THEN x.value ELSE "none"
             at  == IF x.action = "goto" THEN x.url ELSE "none"
             dx == IF x.action = "scroll" THEN x.dx ELSE 0
             dy == IF x.action = "scroll" THEN x.dy ELSE 0
  <2>1. (IF y.action = "select" THEN y.value ELSE "none") = val
    BY <1>1
  <2>2. (IF y.action = "goto" THEN y.url ELSE "none") = at
    BY <1>1
  <2>3. (IF y.action = "scroll" THEN y.dx ELSE 0) = dx
    BY <1>1
  <2>4. (IF y.action = "scroll" THEN y.dy ELSE 0) = dy
    BY <1>1
  <2>5. StepFor(y, u) = 
          [action |-> y.action, source |-> u, selector |-> y.selector, raw |-> y.raw, secret |-> y.secret,
           url |-> at, text |-> TextFor(y), name |-> NameFor(y), ms |-> WaitFor(y), dx |-> dx, dy |-> dy,
           value |-> val, point |-> FALSE, observed |-> FALSE, reason |-> "none"]
    BY <2>1, <2>2, <2>3, <2>4, Zenon DEF StepFor
  <2>6. StepFor(y, u) = 
          [action |-> x.action, source |-> u, selector |-> x.selector, raw |-> x.raw, secret |-> x.secret,
           url |-> at, text |-> TextFor(x), name |-> NameFor(x), ms |-> WaitFor(x), dx |-> dx, dy |-> dy,
           value |-> val, point |-> FALSE, observed |-> FALSE, reason |-> "none"]
    <3> HIDE DEF val, at, dx, dy
    <3> QED
      BY <1>1, <1>13, <1>14, <1>15, <2>5, Zenon
  <2> QED
    BY <2>6, Zenon DEF StepFor, y
<1>17. Draft!Complete(y)
  <2>1. Draft!Complete(x) /\ ~(x.action = "click" /\ x.selector = "none")
    BY <1>4 DEF Fit, Becomes
  <2>2. CASE Typed(x)
    BY <1>1, <1>6, <1>12, <2>2 DEF Draft!Complete, Typed
  <2>3. CASE ~Typed(x)
    BY <1>1, <2>1, <2>3 DEF Draft!Complete, Typed
  <2> QED
    BY <2>2, <2>3
<1>18. Fit(y, y.source = "human")
  <2>1. Draft!Abs(y.dx) <= MaxScroll /\ Draft!Abs(y.dy) <= MaxScroll
    BY <1>1, <1>4 DEF Fit, Draft!Abs, Waits
  <2>2. Draft!AsText(Draft!TextOf(y)) \in {"none", "ok"}
    BY <1>6, <1>12 DEF Draft!AsText, Draft!Credentials
  <2>3. y.url \in {"none", "ok"} /\ y.selector \in {"none", "ok"}
    BY <1>1, <1>4 DEF Fit
  <2>4. y.action \in Draft!Unified \/ (y.action \in Draft!HumanExtra /\ y.source = "human")
    BY <1>1, <1>3, <1>4 DEF Fit
  <2> QED
    BY <1>17, <2>1, <2>2, <2>3, <2>4 DEF Fit
<1>19. Becomes(y)
  <2>1. ~(y.action = "click" /\ y.selector = "none") /\ ~(y.action = "select" /\ y.value # "none" /\ y.secret)
    BY <1>1 DEF Becomes
  <2>2. Draft!Secretless(StepFor(y, SourceFor(y)))
    BY <1>11, <1>16 DEF Becomes, y, u
  <2> QED
    BY <1>1, <1>4, <1>18, <2>1, <2>2 DEF Becomes
<1>20. y.text \notin Draft!Credentials \cup {"redacted"} /\ (Typed(y) /\ y.secret => y.text \in {"var", "oddvar"})
  BY <1>1, <1>6 DEF Typed, Draft!Credentials
<1>21. y.text = "var" /\ x.name # "none" => y.name # "none"
  BY <1>1, <1>6 DEF NameFor, TextFor, Draft!Variable, Draft!Credentials
<1> QED
  BY <1>1, <1>3, <1>10, <1>11, <1>16, <1>19, <1>20, <1>21 DEF y, u

\* What of the classes of the first actions is kept.
KeptStep(c, f, n) ==
  IF n = 0 THEN <<>> ELSE IF c[n] = Draft!Skips THEN f[n - 1] ELSE Append(f[n - 1], c[n])
KeptOf(c, N) == CHOOSE f : f = [n \in 0..N |-> KeptStep(c, f, n)]

LEMMA KeptUnfolds ==
  ASSUME NEW c, NEW N \in Nat
  PROVE  \A n \in 0..N : KeptOf(c, N)[n] = KeptStep(c, KeptOf(c, N), n)
<1> DEFINE Good == {m \in Nat : \E f : f = [i \in 0..m |-> KeptStep(c, f, i)]}
<1>1. 0 \in Good
  <2> DEFINE f == [i \in 0..0 |-> <<>>]
  <2>1. f = [i \in 0..0 |-> KeptStep(c, f, i)]
    BY DEF KeptStep
  <2> QED
    BY <2>1
<1>2. ASSUME NEW m \in Nat, m \in Good
      PROVE  m + 1 \in Good
  <2>1. PICK f : f = [i \in 0..m |-> KeptStep(c, f, i)]
    BY <1>2
  <2> DEFINE g == [i \in 0..(m + 1) |-> IF i = m + 1 THEN KeptStep(c, f, i) ELSE f[i]]
  <2>2. ASSUME NEW i \in 0..(m + 1)
        PROVE  g[i] = KeptStep(c, g, i)
    <3>1. KeptStep(c, f, i) = KeptStep(c, g, i)
      <4>1. CASE i = 0
        BY <4>1, Zenon DEF KeptStep
      <4>2. CASE i # 0
        <5>1. i - 1 \in 0..m /\ g[i - 1] = f[i - 1]
          BY <4>2
        <5> HIDE DEF g
        <5> QED
          BY <4>2, <5>1, Zenon DEF KeptStep
      <4> QED
        BY <4>1, <4>2
    <3> HIDE DEF KeptStep
    <3>2. CASE i = m + 1
      BY <3>1, <3>2
    <3>3. CASE i # m + 1
      <4>1. i \in 0..m /\ g[i] = f[i]
        BY <3>3
      <4>2. f[i] = KeptStep(c, f, i)
        BY <2>1, <4>1
      <4> QED
        BY <3>1, <4>1, <4>2
    <3> QED
      BY <3>2, <3>3
  <2>3. g = [i \in 0..(m + 1) |-> KeptStep(c, g, i)]
    <3> HIDE DEF KeptStep
    <3> QED
      BY <2>2
  <2> HIDE DEF g
  <2> QED
    BY <2>3
<1>3. Nat \subseteq Good
  <2> HIDE DEF Good
  <2> QED
    BY <1>1, <1>2, SetInduction
<1>4. \E f : f = [i \in 0..N |-> KeptStep(c, f, i)]
  BY <1>3
<1>5. KeptOf(c, N) = [i \in 0..N |-> KeptStep(c, KeptOf(c, N), i)]
  BY <1>4, Zenon DEF KeptOf
<1> QED
  <2> HIDE DEF KeptStep
  <2> QED
    BY <1>5

LEMMA KeptIs ==
  ASSUME NEW c, NEW N \in Nat, NEW E, \A i \in 1..N : c[i] \in E \cup {Draft!Skips}
  PROVE  LET k == KeptOf(c, N)[N] IN
         /\ k \in Seq(E)
         /\ (\A i \in 1..N : c[i] # Draft!Skips) => Len(k) = N /\ \A i \in 1..N : k[i] = c[i]
<1> DEFINE f == KeptOf(c, N)
           All == \A i \in 1..N : c[i] # Draft!Skips
           Fine(n) == /\ f[n] \in Seq(E)
                      /\ All => Len(f[n]) = n /\ \A i \in 1..n : f[n][i] = c[i]
           Good == {n \in Nat : n \in 0..N => Fine(n)}
<1>1. 0 \in Good
  <2>1. f[0] = <<>>
    BY KeptUnfolds DEF KeptStep
  <2>2. <<>> \in Seq(E) /\ Len(<<>>) = 0 /\ 1..0 = {}
    OBVIOUS
  <2> QED
    BY <2>1, <2>2
<1>2. ASSUME NEW n \in Nat, n \in Good
      PROVE  n + 1 \in Good
  <2> SUFFICES ASSUME n + 1 \in 0..N PROVE Fine(n + 1)
    OBVIOUS
  <2>1. n \in 0..N /\ n + 1 \in 1..N /\ n + 1 # 0 /\ (n + 1) - 1 = n
    OBVIOUS
  <2>2. Fine(n)
    BY <1>2, <2>1
  <2>3. f[n + 1] = IF c[n + 1] = Draft!Skips THEN f[n] ELSE Append(f[n], c[n + 1])
    <3>1. f[n + 1] = KeptStep(c, f, n + 1)
      BY <2>1, KeptUnfolds
    <3> HIDE DEF f
    <3> QED
      BY <2>1, <3>1, Zenon DEF KeptStep
  <2> HIDE DEF f
  <2>4. CASE c[n + 1] = Draft!Skips
    BY <2>1, <2>2, <2>3, <2>4
  <2>5. CASE c[n + 1] # Draft!Skips
    <3>1. c[n + 1] \in E
      BY <2>1, <2>5
    <3>2. f[n + 1] = Append(f[n], c[n + 1])
      BY <2>3, <2>5
    <3> HIDE DEF All
    <3> QED
      BY <2>2, <3>1, <3>2
  <2> QED
    BY <2>4, <2>5
<1>3. Nat \subseteq Good
  <2> HIDE DEF Good
  <2> QED
    BY <1>1, <1>2, SetInduction
<1>4. Fine(N)
  BY <1>3
<1> QED
  BY <1>4

\* A draft, from the classes of its actions.
ClassesOf(items) == [i \in DOMAIN items |-> Draft!Classify(items[i], "agent")]

LEMMA DraftIs ==
  ASSUME NEW items
  PROVE  LET c == ClassesOf(items)
             out == KeptOf(c, Len(items))[Len(items)] IN
         Draft!Draft(items, "agent") =
           IF \E i \in DOMAIN items : c[i] = Draft!Rejects
           THEN [ok |-> FALSE, steps |-> <<>>, skipped |-> 0]
           ELSE [ok |-> TRUE, steps |-> out, skipped |-> Len(items) - Len(out)]
BY Zenon DEF Draft!Draft, ClassesOf, KeptOf, KeptStep

\* What a timeline is exported as is taken, holds no secret, and is exported
\* again as it is (skills.rs:295).
THEOREM DraftSettles ==
  ASSUME NEW S, NEW items \in Seq(Timeline(S)), \A i \in DOMAIN items : items[i].name # "none", Waits
  PROVE  Draft!DraftIsStable(items) /\ Draft!DraftSecretsOut(items)
<1> DEFINE N == Len(items)
           c == ClassesOf(items)
           out == KeptOf(c, N)[N]
           draft == Draft!Draft(items, "agent")
           T == S \cup {"none", "var", "REDACTED", "human", "agent"}
           Of(i) == StepFor(items[i], SourceFor(items[i]))
           E == {Of(i) : i \in {j \in 1..N : Becomes(items[j])}}
<1>0. N \in Nat /\ DOMAIN items = 1..N /\ \A i \in 1..N : items[i] \in Timeline(S)
  OBVIOUS
<1>1. CASE \E i \in DOMAIN items : c[i] = Draft!Rejects
  <2>1. draft = [ok |-> FALSE, steps |-> <<>>, skipped |-> 0]
    BY <1>1, DraftIs, Zenon
  <2>2. ~Draft!Exports(draft)
    <3> HIDE DEF draft
    <3> QED
      BY <2>1 DEF Draft!Exports
  <2> QED
    BY <2>2, Zenon DEF Draft!DraftIsStable, Draft!DraftSecretsOut
<1>2. CASE ~\E i \in DOMAIN items : c[i] = Draft!Rejects
  <2>1. draft = [ok |-> TRUE, steps |-> out, skipped |-> N - Len(out)]
    BY <1>2, DraftIs, Zenon
  <2>2. \A i \in 1..N : c[i] \in E \cup {Draft!Skips}
    <3> SUFFICES ASSUME NEW i \in 1..N PROVE c[i] \in E \cup {Draft!Skips}
      OBVIOUS
    <3>1. c[i] = Draft!Classify(items[i], "agent") /\ c[i] # Draft!Rejects
      BY <1>0, <1>2 DEF ClassesOf
    <3>2. IF Becomes(items[i]) THEN c[i] = Of(i) ELSE c[i] \in {Draft!Rejects, Draft!Skips}
      BY <1>0, <3>1, ClassIs, Zenon
    <3> HIDE DEF c, Of
    <3> QED
      BY <3>1, <3>2
  <2>3. out \in Seq(E)
    <3> HIDE DEF c, E
    <3> QED
      BY <1>0, <2>2, KeptIs
  <2>4. ASSUME NEW y \in E
        PROVE  /\ y \in Timeline(T) /\ Becomes(y) /\ SourceFor(y) = y.source /\ y.source \in {"human", "agent"}
               /\ StepFor(y, y.source) = y /\ y.text \notin Draft!Credentials \cup {"redacted"}
               /\ Typed(y) /\ y.secret => y.text \in {"var", "oddvar"}
               /\ y.text = "var" => y.name # "none"
    <3>1. PICK i \in 1..N : Becomes(items[i]) /\ y = Of(i)
      BY <2>4, Zenon
    <3>2. items[i] \in Timeline(S) /\ items[i].name # "none"
      BY <1>0
    <3> QED
      BY <3>1, <3>2, StepStays, Zenon
  <2> HIDE DEF E, T
  <2>5. ASSUME NEW y \in E
        PROVE  Draft!Classify(y, "agent") = y /\ y # Draft!Rejects /\ y # Draft!Skips
    <3>1. Draft!Classify(y, "agent") = y
      BY <2>4, <2>5, ClassIs, Zenon
    <3>2. y.action \in Draft!Exportable
      BY <2>4, <2>5, Zenon DEF Becomes
    <3>3. Draft!Rejects.action \notin Draft!Exportable /\ Draft!Skips.action \notin Draft!Exportable
      BY DEF Draft!Rejects, Draft!Skips, Draft!Exportable
    <3> QED
      BY <3>1, <3>2, <3>3, Zenon
  <2>6. ASSUME NEW y \in E
        PROVE  Draft!Valid(Draft!Checked(y), y.source)
    <3>1. y \in Timeline(T) /\ y.source \in {"human", "llm", "agent"} /\ Fit(y, y.source = "human")
      BY <2>4, <2>6 DEF Becomes
    <3> QED
      BY <3>1, CheckedIs
  <2> DEFINE M == Len(out)
             d == ClassesOf(out)
  <2>7. M \in Nat /\ DOMAIN out = 1..M /\ \A i \in 1..M : out[i] \in E
    <3> HIDE DEF out
    <3> QED
      BY <2>3
  <2>8. draft.ok = TRUE /\ draft.steps = out
    <3> HIDE DEF draft, out
    <3> QED
      BY <2>1
  <2>9. \A i \in 1..M : d[i] = out[i] /\ d[i] # Draft!Rejects /\ d[i] # Draft!Skips
    <3> HIDE DEF out
    <3> QED
      BY <2>5, <2>7 DEF ClassesOf
  <2>10. Draft!Draft(out, "agent") = [ok |-> TRUE, steps |-> out, skipped |-> 0]
    <3> DEFINE k == KeptOf(d, M)[M]
    <3>1. Draft!Draft(out, "agent") = [ok |-> TRUE, steps |-> k, skipped |-> M - Len(k)]
      BY <2>7, <2>9, DraftIs, Zenon
    <3>2. k \in Seq(E) /\ Len(k) = M /\ \A i \in 1..M : k[i] = d[i]
      <4>1. \A i \in 1..M : d[i] \in E \cup {Draft!Skips} /\ d[i] # Draft!Skips
        <5> HIDE DEF d
        <5> QED
          BY <2>7, <2>9
      <4> HIDE DEF d, out
      <4> QED
        BY <2>7, <4>1, KeptIs
    <3>3. k = out
      <4> HIDE DEF k, d, out
      <4> QED
        BY <2>3, <2>7, <2>9, <3>2
    <3>4. M - Len(k) = 0
      <4> HIDE DEF k, out
      <4> QED
        BY <2>7, <3>2
    <3> HIDE DEF k, out
    <3> QED
      BY <3>1, <3>3, <3>4
  <2>11. Draft!DraftIsStable(items)
    <3>1. \A i \in DOMAIN out : Draft!Valid(Draft!Checked(out[i]), out[i].source)
      BY <2>6, <2>7, Zenon
    <3> HIDE DEF out
    <3> QED
      BY <2>8, <2>10, <3>1, Zenon DEF Draft!DraftIsStable, draft
  <2>12. Draft!DraftSecretsOut(items)
    <3>1. ASSUME NEW i \in DOMAIN out
          PROVE  /\ out[i].text \notin Draft!Credentials \cup {"redacted"} /\ out[i].value # "dump"
                 /\ out[i].action \in {"fill", "type"} /\ out[i].secret => out[i].text \in {"var", "oddvar"}
                 /\ out[i].text = "var" => out[i].name # "none"
      <4>1. out[i] \in E
        BY <2>7, <3>1, Zenon
      <4>2. Draft!Secretless(out[i])
        BY <2>4, <4>1, Zenon DEF Becomes
      <4>3. out[i].value # "dump"
        BY <4>2 DEF Draft!Secretless
      <4> QED
        BY <2>4, <4>1, <4>3, Zenon DEF Typed
    <3>2. "none" \notin Draft!Params(draft)
      <4> HIDE DEF out, draft
      <4> QED
        BY <2>8, <3>1 DEF Draft!Params
    <3> HIDE DEF out
    <3> QED
      BY <2>8, <3>1, <3>2, Zenon DEF Draft!DraftSecretsOut, draft
  <2> QED
    BY <2>11, <2>12
<1> QED
  BY <1>1, <1>2
=============================================================================
