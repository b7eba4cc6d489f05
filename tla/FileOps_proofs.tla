--------------------------- MODULE FileOps_proofs ---------------------------
(***************************************************************************)
(* Proofs about the components of MCFileOps.                               *)
(*                                                                         *)
(* No request of the files channel loses a file or writes elsewhere, for   *)
(* every set of names, depth, mount points and disk: the invariant follows *)
(* a copy by its list of what is still to be copied.  Whatever of the      *)
(* source has not arrived is below an entry of that list, and until the    *)
(* list is empty the source is untouched.                                  *)
(*                                                                         *)
(* The counters of messages in assembly are what their chunks hold.        *)
(*                                                                         *)
(* The audit log has no hole: the invariant gives each of its files an     *)
(* interval of the events, and counts the archives that are there, the     *)
(* names a rotation has freed and the failures against each other.         *)
(***************************************************************************)
EXTENDS MCFileOps, FiniteSets, FiniteSetTheorems, SequenceTheorems, TLAPS

-----------------------------------------------------------------------------
(* Paths                                                                   *)

\* A path is a sequence of one to Depth names.
LEMMA PathFacts ==
  /\ \A p \in Actions!Paths : p \in Seq(Names) /\ Len(p) \in 1..Depth
  /\ \A p \in Seq(Names) : Len(p) \in 1..Depth => p \in Actions!Paths
  /\ <<>> \notin Actions!Paths
<1>1. ASSUME NEW p \in Actions!Paths PROVE p \in Seq(Names) /\ Len(p) \in 1..Depth
  <2>1. PICK n \in 1..Depth : p \in [1..n -> Names]
    BY DEF Actions!Paths
  <2>2. n \in Nat
    BY ActionsAssumption DEF Actions!ActionsAssumption
  <2>3. p \in Seq(Names)
    BY <2>1, <2>2, SeqDef
  <2>4. DOMAIN p = 1..n /\ DOMAIN p = 1..Len(p) /\ Len(p) \in Nat
    BY <2>1, <2>3, LenProperties
  <2>5. Len(p) = n
    BY <2>2, <2>4
  <2> QED
    BY <2>1, <2>3, <2>5
<1>2. ASSUME NEW p \in Seq(Names), Len(p) \in 1..Depth PROVE p \in Actions!Paths
  <2>1. p \in [1..Len(p) -> Names]
    BY LenProperties
  <2> QED
    BY <1>2, <2>1 DEF Actions!Paths
<1>3. <<>> \notin Actions!Paths
  BY <1>1, EmptySeq, ActionsAssumption DEF Actions!ActionsAssumption
<1> QED
  BY <1>1, <1>2, <1>3

\* q is a prefix of p.
LEMMA WithinIs ==
  ASSUME NEW p \in Seq(Names), NEW q \in Seq(Names)
  PROVE  Actions!Within(p, q) <=> Len(q) <= Len(p) /\ \A i \in 1..Len(q) : p[i] = q[i]
<1>1. Len(p) \in Nat /\ Len(q) \in Nat
  BY LenProperties
<1>2. ASSUME Len(q) <= Len(p)
      PROVE  SubSeq(p, 1, Len(q)) = q <=> \A i \in 1..Len(q) : p[i] = q[i]
  <2>1. \A i \in 1..Len(q) : p[i] \in Names
    BY <1>1, <1>2, ElementOfSeq
  <2>2. SubSeq(p, 1, Len(q)) = [i \in 1..Len(q) |-> p[i]]
    BY <1>1
  <2>3. q = [i \in 1..Len(q) |-> q[i]]
    BY LenProperties
  <2> QED
    BY <2>2, <2>3
<1> QED
  BY <1>2 DEF Actions!Within

\* Prefixes are ordered, and those of one path are prefixes of one another.
LEMMA WithinOrder ==
  ASSUME NEW p \in Seq(Names), NEW q \in Seq(Names), NEW r \in Seq(Names)
  PROVE  /\ Actions!Within(p, p)
         /\ Actions!Within(p, q) /\ Actions!Within(q, r) => Actions!Within(p, r)
         /\ Actions!Within(p, q) /\ Len(p) = Len(q) => p = q
         /\ Actions!Within(p, q) /\ Actions!Within(p, r) =>
                Actions!Within(q, r) \/ Actions!Within(r, q)
<1>1. Len(p) \in Nat /\ Len(q) \in Nat /\ Len(r) \in Nat
  BY LenProperties
<1>2. Actions!Within(p, p)
  BY <1>1, WithinIs
<1>3. ASSUME Actions!Within(p, q), Actions!Within(q, r) PROVE Actions!Within(p, r)
  BY <1>1, <1>3, WithinIs
<1>4. ASSUME Actions!Within(p, q), Len(p) = Len(q) PROVE p = q
  BY <1>1, <1>4, WithinIs, SeqEqual
<1>5. ASSUME Actions!Within(p, q), Actions!Within(p, r)
      PROVE  Actions!Within(q, r) \/ Actions!Within(r, q)
  <2>1. \A i \in 1..Len(q) : p[i] = q[i]
    BY <1>5, WithinIs
  <2>2. \A i \in 1..Len(r) : p[i] = r[i]
    BY <1>5, WithinIs
  <2>3. CASE Len(r) <= Len(q)
    BY <1>1, <2>1, <2>2, <2>3, WithinIs
  <2>4. CASE Len(q) <= Len(r)
    BY <1>1, <2>1, <2>2, <2>4, WithinIs
  <2> QED
    BY <1>1, <2>3, <2>4
<1> QED
  BY <1>2, <1>3, <1>4, <1>5

\* The child of t on the way to p.
LEMMA ChildOn ==
  ASSUME NEW p \in Actions!Paths, NEW t \in Actions!Paths, Actions!Within(p, t), p # t
  PROVE  LET c == SubSeq(p, 1, Len(t) + 1)
         IN  /\ c \in Actions!Paths /\ Len(c) = Len(t) + 1
             /\ Actions!Within(p, c) /\ Actions!Within(c, t)
<1> DEFINE c == SubSeq(p, 1, Len(t) + 1)
<1>1. p \in Seq(Names) /\ t \in Seq(Names) /\ Len(p) \in 1..Depth /\ Len(t) \in 1..Depth
  BY PathFacts
<1>2. Depth \in Nat
  BY ActionsAssumption DEF Actions!ActionsAssumption
<1>3. Len(t) < Len(p)
  BY <1>1, <1>2, WithinOrder, WithinIs
<1>4. c \in Seq(Names) /\ Len(c) = Len(t) + 1 /\ \A i \in 1..Len(t) + 1 : c[i] = p[i]
  BY <1>1, <1>2, <1>3, SubSeqProperties
<1> HIDE DEF c
<1>5. c \in Actions!Paths
  BY <1>1, <1>2, <1>3, <1>4, PathFacts
<1>6. Actions!Within(p, c)
  BY <1>1, <1>2, <1>3, <1>4, WithinIs
<1>7. \A i \in 1..Len(t) : p[i] = t[i]
  BY <1>1, WithinIs
<1>8. Actions!Within(c, t)
  BY <1>1, <1>2, <1>4, <1>7, WithinIs
<1> QED
  BY <1>4, <1>5, <1>6, <1>8 DEF c

\* The parent of a path contains what its prefixes contain.
LEMMA ParentIs ==
  ASSUME NEW p \in Actions!Paths
  PROVE  /\ Actions!Parent(p) \in Seq(Names) /\ Actions!Within(p, Actions!Parent(p))
         /\ Len(p) > 1 => Actions!Parent(p) \in Actions!Paths
         /\ Len(p) = 1 => Actions!Parent(p) = <<>>
<1>1. p \in Seq(Names) /\ Len(p) \in 1..Depth /\ Depth \in Nat
  BY PathFacts, ActionsAssumption DEF Actions!ActionsAssumption
<1>2. /\ Actions!Parent(p) \in Seq(Names) /\ Len(Actions!Parent(p)) = Len(p) - 1
      /\ \A i \in 1..Len(p) - 1 : Actions!Parent(p)[i] = p[i]
  <2>1. \A i \in 1..Len(p) - 1 : p[i] \in Names
    BY <1>1, ElementOfSeq
  <2>2. CASE Len(p) = 1
    BY <1>1, <2>2, SubSeqEmpty, EmptySeq DEF Actions!Parent
  <2>3. CASE Len(p) > 1
    BY <1>1, <2>1, <2>3, SubSeqProperties DEF Actions!Parent
  <2> QED
    BY <1>1, <2>2, <2>3
<1>3. Actions!Within(p, Actions!Parent(p))
  BY <1>1, <1>2, WithinIs
<1>4. Len(p) > 1 => Actions!Parent(p) \in Actions!Paths
  BY <1>1, <1>2, PathFacts
<1>5. Len(p) = 1 => Actions!Parent(p) = <<>>
  BY <1>1, <1>2, EmptySeq
<1> QED
  BY <1>2, <1>3, <1>4, <1>5

\* The elements of a concatenation.
LEMMA Joined ==
  ASSUME NEW u \in Seq(Names), NEW v \in Seq(Names)
  PROVE  /\ u \o v \in Seq(Names) /\ Len(u \o v) = Len(u) + Len(v)
         /\ \A i \in 1..Len(u) : (u \o v)[i] = u[i]
         /\ \A i \in 1..Len(v) : (u \o v)[Len(u) + i] = v[i]
<1>1. Len(u) \in Nat /\ Len(v) \in Nat
  BY LenProperties
<1>2. \A i \in 1..Len(u) + Len(v) : (u \o v)[i] = IF i <= Len(u) THEN u[i] ELSE v[i - Len(u)]
  BY ConcatProperties
<1>3. ASSUME NEW i \in 1..Len(v) PROVE (u \o v)[Len(u) + i] = v[i]
  <2>1. Len(u) + i \in 1..Len(u) + Len(v) /\ ~(Len(u) + i <= Len(u)) /\ Len(u) + i - Len(u) = i
    BY <1>1
  <2> QED
    BY <1>2, <2>1
<1>4. ASSUME NEW i \in 1..Len(u) PROVE (u \o v)[i] = u[i]
  BY <1>1, <1>2
<1> QED
  BY <1>3, <1>4, ConcatProperties

\* Where an entry below p goes when p becomes q, and back.
LEMMA RebasedIs ==
  ASSUME NEW p \in Actions!Paths, NEW q \in Actions!Paths, NEW r \in Actions!Paths,
         Actions!Within(r, p)
  PROVE  LET s == Actions!Rebased(r, p, q)
         IN  /\ s \in Seq(Names) /\ Len(s) = Len(q) + Len(r) - Len(p)
             /\ Actions!Within(s, q)
             /\ Actions!Rebased(s, q, p) = r
             /\ Len(r) - Len(p) + Len(q) <= Depth => s \in Actions!Paths
<1> DEFINE rest == SubSeq(r, Len(p) + 1, Len(r))
           s == Actions!Rebased(r, p, q)
<1>1. /\ p \in Seq(Names) /\ q \in Seq(Names) /\ r \in Seq(Names) /\ Depth \in Nat
      /\ Len(p) \in 1..Depth /\ Len(q) \in 1..Depth /\ Len(r) \in 1..Depth
  BY PathFacts, ActionsAssumption DEF Actions!ActionsAssumption
<1>2. Len(p) <= Len(r) /\ \A i \in 1..Len(p) : r[i] = p[i]
  BY <1>1, WithinIs
<1>3. /\ rest \in Seq(Names) /\ Len(rest) = Len(r) - Len(p)
      /\ \A i \in 1..Len(r) - Len(p) : rest[i] = r[Len(p) + i]
  <2>1. CASE Len(p) = Len(r)
    BY <1>1, <2>1, SubSeqEmpty, EmptySeq
  <2>2. CASE Len(p) < Len(r)
    BY <1>1, <2>2, SubSeqProperties
  <2> QED
    BY <1>1, <1>2, <2>1, <2>2
<1>4. s = q \o rest
  BY DEF Actions!Rebased
<1>5. /\ s \in Seq(Names) /\ Len(s) = Len(q) + Len(rest)
      /\ \A i \in 1..Len(q) : s[i] = q[i]
      /\ \A i \in 1..Len(rest) : s[Len(q) + i] = rest[i]
  <2> HIDE DEF s, rest
  <2> QED
    BY <1>1, <1>3, <1>4, Joined
<1>0. s = Actions!Rebased(r, p, q) /\ Len(rest) \in Nat
  BY <1>1, <1>2, <1>3
<1> HIDE DEF s, rest
<1>6. Actions!Within(s, q)
  <2>1. Len(q) <= Len(s)
    BY <1>0, <1>1, <1>5
  <2> QED
    BY <1>1, <1>5, <2>1, WithinIs
<1>7. Actions!Rebased(s, q, p) = r
  <2> DEFINE back == SubSeq(s, Len(q) + 1, Len(s))
  <2>1. /\ back \in Seq(Names) /\ Len(back) = Len(rest)
        /\ \A i \in 1..Len(rest) : back[i] = rest[i]
    <3>1. CASE Len(rest) = 0
      BY <1>0, <1>1, <1>3, <1>5, <3>1, SubSeqEmpty, EmptySeq
    <3>2. CASE Len(rest) > 0
      <4>1. /\ back \in Seq(Names) /\ Len(back) = Len(rest)
            /\ \A i \in 1..Len(rest) : back[i] = s[Len(q) + i]
        <5>1. \A i \in Len(q) + 1..Len(s) : s[i] \in Names
          BY <1>0, <1>1, <1>3, <1>5, <3>2, ElementOfSeq
        <5> QED
          BY <1>0, <1>1, <1>3, <1>5, <3>2, <5>1, SubSeqProperties
      <4> HIDE DEF back
      <4> QED
        BY <1>5, <4>1
    <3> QED
      BY <1>0, <1>1, <1>2, <1>3, <3>1, <3>2
  <2>2. Actions!Rebased(s, q, p) = p \o back
    BY DEF Actions!Rebased
  <2> HIDE DEF back
  <2>3. /\ p \o back \in Seq(Names) /\ Len(p \o back) = Len(p) + Len(rest)
        /\ \A i \in 1..Len(p) : (p \o back)[i] = p[i]
        /\ \A i \in 1..Len(rest) : (p \o back)[Len(p) + i] = rest[i]
    <3>1. Len(back) = Len(rest)
      BY <2>1
    <3>2. /\ p \o back \in Seq(Names) /\ Len(p \o back) = Len(p) + Len(back)
          /\ \A i \in 1..Len(p) : (p \o back)[i] = p[i]
          /\ \A i \in 1..Len(back) : (p \o back)[Len(p) + i] = back[i]
      BY <1>1, <2>1, Joined
    <3> QED
      BY <2>1, <3>1, <3>2
  <2>4. ASSUME NEW i \in 1..Len(r) PROVE (p \o back)[i] = r[i]
    <3>1. CASE i <= Len(p)
      BY <1>1, <1>2, <2>3, <3>1
    <3>2. CASE i > Len(p)
      <4>1. i - Len(p) \in 1..Len(rest) /\ Len(p) + (i - Len(p)) = i
        BY <1>1, <1>3, <3>2
      <4> QED
        BY <1>3, <2>3, <4>1
    <3>3. i <= Len(p) \/ i > Len(p)
      BY <1>1
    <3> QED
      BY <3>1, <3>2, <3>3
  <2> QED
    <3>1. Len(p \o back) = Len(r)
      BY <1>1, <1>3, <2>3
    <3>2. p \o back = r
      BY <1>1, <2>3, <2>4, <3>1, SeqEqual
    <3> QED
      BY <2>2, <3>2
<1>8. Len(r) - Len(p) + Len(q) <= Depth => s \in Actions!Paths
  BY <1>0, <1>1, <1>2, <1>3, <1>5, PathFacts
<1>9. Len(s) = Len(q) + Len(r) - Len(p)
  BY <1>0, <1>1, <1>3, <1>5
<1> QED
  BY <1>0, <1>5, <1>6, <1>7, <1>8, <1>9

-----------------------------------------------------------------------------
(* The invariant                                                           *)

\* What lies above an entry is a directory.
Rooted(d) ==
    \A p, q \in Actions!Paths :
        d[p] # Actions!None /\ Actions!Within(p, q) /\ q # p => d[q] = Actions!Dir

\* Requests with a source that is not their destination.
Transfers == {"copy", "move", "rename"}

\* Stages in which the source has not been touched.
Preparing == {"clearing", "renaming", "reading", "copying"}

\* Stages with a system call to come.
Working == Preparing \cup {"making", "removing", "truncating", "writing"}

\* What a request may be.
Requests ==
    [kind : Transfers \cup {"none", "mkdir", "delete", "write", "query", "download", "unknown"},
     src : Actions!Paths \cup {<<>>}, dst : Actions!Paths \cup {<<>>}, over : BOOLEAN,
     pc : Working \cup {"idle", "ok", "failed", "answered", "broken"},
     todo : SUBSET Actions!Paths]

\* Types of the disk and of the request, which names paths once it has begun.
RequestTypes ==
    /\ DOMAIN disk = Actions!Paths /\ op \in Requests
    /\ op.pc # "idle" => op.src \in Actions!Paths /\ op.dst \in Actions!Paths

\* The request may replace what is at its destination.
MayReplace == op.kind \in {"copy", "move"} /\ ~op.over => before[op.dst] = Actions!None

\* What each stage of a request knows of it.
Staged ==
    /\ op.pc = "idle" => disk = before /\ audit = "none"
    /\ audit = "success" => op.pc = "answered"
    /\ op.pc \in {"making", "truncating", "writing"} => op.src = op.dst
    /\ op.pc = "removing" => op.kind = "move" \/ (op.kind = "delete" /\ op.src = op.dst)
    /\ op.pc = "renaming" => op.kind \in {"move", "rename"}
    /\ op.pc \in {"clearing", "reading", "copying"} => op.kind \in {"copy", "move"}
    /\ op.pc \in {"making", "truncating", "writing"} => op.kind \in {"mkdir", "write"}
    /\ op.pc \in Working => MayReplace
    /\ (op.pc \in {"clearing", "renaming"} /\ op.kind \in {"move", "rename"}
            /\ Actions!Volume(op.src) = Actions!Volume(op.dst)) =>
          \A p \in Actions!Tree(before, op.src) : Actions!Dest(p) \in Actions!Paths

\* The entry p of the source is at the destination.
Arrived(p) == Actions!Dest(p) \in Actions!Paths /\ disk[Actions!Dest(p)] = before[p]

\* The source is as it was.
Intact == \A p \in Actions!Paths : Actions!Within(p, op.src) => disk[p] = before[p]

\* Whatever has not arrived is below an entry that is still to be copied.
Copying ==
    /\ op.todo \subseteq Actions!Tree(before, op.src)
    /\ \A p \in Actions!Tree(before, op.src) :
          Arrived(p) \/ \E t \in op.todo : Actions!Within(p, t)

\* No file of the source is lost.
Kept ==
    \A p \in Actions!Tree(before, op.src) :
        Actions!IsFile(before, p) => disk[p] = before[p] \/ (op.kind # "copy" /\ Arrived(p))

\* The source of a copy or a move, from stage to stage.
SourceStaged ==
    op.kind \in Transfers /\ Actions!Apart =>
        /\ op.pc \in Preparing => Intact
        /\ op.pc = "copying" => Copying
        /\ op.pc \in {"removing", "ok"} \/ audit = "success" =>
              \A p \in Actions!Tree(before, op.src) : Arrived(p)
        /\ Kept

\* The inductive invariant of FileActions.
ActionsInv == RequestTypes /\ Rooted(before) /\ Staged /\ SourceStaged /\ Actions!OnlyTargets

-----------------------------------------------------------------------------
(* What steps have in common                                               *)

\* What lies above something in the destination is not in the source.
LEMMA ApartFacts ==
  ASSUME Actions!Apart, op.src \in Actions!Paths, op.dst \in Actions!Paths,
         NEW q \in Actions!Paths, Actions!Within(q, op.dst),
         NEW r \in Actions!Paths, Actions!Within(q, r)
  PROVE  ~Actions!Within(r, op.src)
<1>1. q \in Seq(Names) /\ r \in Seq(Names) /\ op.src \in Seq(Names) /\ op.dst \in Seq(Names)
  BY PathFacts
<1>2. ASSUME Actions!Within(r, op.src) PROVE FALSE
  <2>1. Actions!Within(q, op.src)
    BY <1>1, <1>2, WithinOrder
  <2>2. Actions!Within(op.src, op.dst) \/ Actions!Within(op.dst, op.src)
    BY <1>1, <2>1, WithinOrder
  <2> QED
    BY <2>2 DEF Actions!Apart
<1> QED
  BY <1>2

\* create_dir_all makes directories on the way to q, and changes nothing else.
LEMMA MakesDirsFacts ==
  ASSUME DOMAIN disk = Actions!Paths, NEW q
  PROVE  LET d == Actions!MakesDirs(q)
         IN  /\ DOMAIN d = Actions!Paths
             /\ \A r \in Actions!Paths :
                   \/ d[r] = disk[r]
                   \/ disk[r] = Actions!None /\ d[r] = Actions!Dir /\ Actions!Within(q, r)
BY DEF Actions!MakesDirs

\* Entries of the source have different places at the destination.
LEMMA DestFacts ==
  ASSUME op.src \in Actions!Paths, op.dst \in Actions!Paths
  PROVE  \A p \in Actions!Paths : Actions!Within(p, op.src) =>
             /\ Actions!Within(Actions!Dest(p), op.dst)
             /\ Actions!Rebased(Actions!Dest(p), op.dst, op.src) = p
BY RebasedIs DEF Actions!Dest

\* A step of a request that writes only where the request may.
LEMMA TargetsKept ==
  ASSUME Actions!OnlyTargets, UNCHANGED before,
         op'.kind = op.kind, op'.src = op.src, op'.dst = op.dst, op'.over = op.over,
         MayReplace,
         \A p \in Actions!Paths :
            \/ disk'[p] = disk[p]
            \/ Actions!Within(p, op.dst)
            \/ op.kind \in {"move", "rename"} /\ Actions!Within(p, op.src)
            \/ disk[p] = Actions!None /\ disk'[p] = Actions!Dir /\ Actions!Within(op.dst, p)
  PROVE  Actions!OnlyTargets'
<1> SUFFICES ASSUME NEW p \in Actions!Paths
             PROVE  \/ disk'[p] = before[p]
                    \/ Actions!Within(p, op.dst)
                    \/ op.kind \in {"move", "rename"} /\ Actions!Within(p, op.src)
                    \/ before[p] = Actions!None /\ disk'[p] = Actions!Dir /\ Actions!Within(op.dst, p)
  BY DEF Actions!OnlyTargets, MayReplace
<1>1. \/ disk[p] = before[p]
      \/ Actions!Within(p, op.dst)
      \/ op.kind \in {"move", "rename"} /\ Actions!Within(p, op.src)
      \/ before[p] = Actions!None /\ disk[p] = Actions!Dir /\ Actions!Within(op.dst, p)
  BY DEF Actions!OnlyTargets
<1>2. Actions!Dir # Actions!None
  BY DEF Actions!Dir, Actions!None
<1> QED
  BY <1>1, <1>2

\* A step that leaves the disk and what was asked alone.
LEMMA TargetsStay ==
  ASSUME Actions!OnlyTargets, UNCHANGED <<disk, before>>,
         op'.kind = op.kind, op'.src = op.src, op'.dst = op.dst, op'.over = op.over
  PROVE  Actions!OnlyTargets'
BY DEF Actions!OnlyTargets

\* create_dir_all on the way to the destination, or below it.
LEMMA MakesDirsTargets ==
  ASSUME DOMAIN disk = Actions!Paths, op.dst \in Actions!Paths, NEW q \in Seq(Names),
         Actions!Within(q, op.dst) \/ Actions!Within(op.dst, q),
         NEW p \in Actions!Paths
  PROVE  \/ Actions!MakesDirs(q)[p] = disk[p]
         \/ disk[p] = Actions!None /\ Actions!MakesDirs(q)[p] = Actions!Dir
            /\ (Actions!Within(op.dst, p) \/ Actions!Within(p, op.dst))
<1>1. p \in Seq(Names) /\ op.dst \in Seq(Names)
  BY PathFacts
<1>2. ASSUME Actions!Within(q, p) PROVE Actions!Within(op.dst, p) \/ Actions!Within(p, op.dst)
  BY <1>1, <1>2, WithinOrder
<1> QED
  BY <1>2, MakesDirsFacts

\* Arrived and Kept survive a step that leaves what has arrived in place.
LEMMA ArrivedKept ==
  ASSUME UNCHANGED before, op'.src = op.src, op'.dst = op.dst, NEW p \in Actions!Paths, Arrived(p),
         disk'[Actions!Dest(p)] = disk[Actions!Dest(p)]
  PROVE  Arrived(p)'
BY DEF Arrived, Actions!Dest, Actions!Rebased

-----------------------------------------------------------------------------
(* Requests                                                                *)

\* A request that begins with a stage that suits it.
LEMMA Begun ==
  ASSUME ActionsInv,
         NEW kind \in Transfers \cup {"mkdir", "delete", "write", "query", "download", "unknown"},
         NEW src \in Actions!Paths, NEW dst \in Actions!Paths, NEW over \in BOOLEAN,
         NEW pc \in {"clearing", "renaming", "reading", "making", "removing", "truncating",
                     "ok", "failed", "answered"},
         Actions!BeginTo(kind, src, dst, over, pc),
         kind \in Transfers => pc \notin {"removing", "ok"},
         kind \notin Transfers => src = dst,
         pc = "removing" => kind = "delete",
         pc = "renaming" => kind \in {"move", "rename"},
         pc \in {"clearing", "reading"} => kind \in {"copy", "move"},
         pc \in {"making", "truncating"} => kind \in {"mkdir", "write"},
         pc # "failed" /\ kind \in {"copy", "move"} /\ ~over => disk[dst] = Actions!None,
         (kind \in {"move", "rename"} /\ Actions!Volume(src) = Actions!Volume(dst)) =>
             pc = "failed" \/ \A r \in Actions!Tree(disk, src) : Actions!Rebased(r, src, dst) \in Actions!Paths
  PROVE  ActionsInv'
<1>1. /\ op.pc = "idle" /\ UNCHANGED <<disk, before, audit>>
      /\ op' = [kind |-> kind, src |-> src, dst |-> dst, over |-> over, pc |-> pc, todo |-> {}]
  BY DEF Actions!BeginTo, Actions!Idle
<1>2. /\ op'.kind = kind /\ op'.src = src /\ op'.dst = dst /\ op'.over = over /\ op'.pc = pc
      /\ op'.todo = {}
  BY <1>1
<1>3. disk = before /\ audit = "none" /\ disk' = before /\ before' = before /\ audit' = "none"
  BY <1>1 DEF ActionsInv, Staged
<1>4. RequestTypes'
  <2>1. DOMAIN disk' = Actions!Paths
    BY <1>1 DEF ActionsInv, RequestTypes
  <2> QED
    BY <1>1, <1>2, <2>1 DEF RequestTypes, Requests, Working, Preparing
<1>5. Rooted(before)'
  BY <1>3 DEF ActionsInv, Rooted
<1>6. Staged'
  <2>1. MayReplace' \/ pc = "failed"
    BY <1>2, <1>3 DEF MayReplace
  <2>2. (pc # "failed" /\ kind \in {"move", "rename"} /\ Actions!Volume(src) = Actions!Volume(dst)) =>
            \A p \in Actions!Tree(before, src) : Actions!Dest(p)' \in Actions!Paths
    BY <1>2, <1>3 DEF Actions!Dest, Actions!Rebased
  <2>3. /\ Actions!Volume(op.src)' = Actions!Volume(src) /\ Actions!Volume(op.dst)' = Actions!Volume(dst)
        /\ Actions!Tree(before, op.src)' = Actions!Tree(before, src)
    BY <1>2, <1>3 DEF Actions!Volume, Actions!Tree, Actions!Within
  <2> QED
    BY <1>2, <1>3, <2>1, <2>2, <2>3 DEF Staged, Working, Preparing, Transfers
<1>7. SourceStaged'
  <2>1. Intact'
    BY <1>3 DEF Intact
  <2>2. Kept'
    <3>1. disk' = before'
      BY <1>3
    <3>2. ASSUME NEW p PROVE disk'[p] = before'[p]
      BY <3>1
    <3> QED
      BY <3>2 DEF Kept
  <2> QED
    BY <1>2, <1>3, <2>1, <2>2 DEF SourceStaged, Transfers
<1>8. Actions!OnlyTargets'
  BY <1>3 DEF Actions!OnlyTargets
<1> QED
  BY <1>4, <1>5, <1>6, <1>7, <1>8 DEF ActionsInv

\* Every request begins with a stage that suits it.
LEMMA RequestSteps ==
  ASSUME ActionsInv, NEW p \in Actions!Paths
  PROVE  /\ Actions!Mkdir(p) \/ Actions!DeletePath(p) \/ Actions!Query(p)
               \/ Actions!DownloadFile(p) \/ Actions!UnknownAction(p) => ActionsInv'
         /\ \A valid \in BOOLEAN : Actions!WriteFile(p, valid) => ActionsInv'
         /\ \A q \in Actions!Paths : Actions!RenamePath(p, q) => ActionsInv'
         /\ \A q \in Actions!Paths, o \in BOOLEAN :
               Actions!CopyPath(p, q, o) \/ Actions!MovePath(p, q, o) => ActionsInv'
<1> USE DEF Actions!Begin, Transfers
<1>1. ASSUME Actions!Mkdir(p) PROVE ActionsInv'
  BY <1>1, Begun DEF Actions!Mkdir
<1>2. ASSUME Actions!DeletePath(p) PROVE ActionsInv'
  BY <1>2, Begun DEF Actions!DeletePath
<1>3. ASSUME Actions!Query(p) PROVE ActionsInv'
  BY <1>3, Begun DEF Actions!Query
<1>4. ASSUME Actions!DownloadFile(p) PROVE ActionsInv'
  BY <1>4, Begun DEF Actions!DownloadFile
<1>5. ASSUME Actions!UnknownAction(p) PROVE ActionsInv'
  BY <1>5, Begun DEF Actions!UnknownAction
<1>6. ASSUME NEW valid \in BOOLEAN, Actions!WriteFile(p, valid) PROVE ActionsInv'
  BY <1>6, Begun DEF Actions!WriteFile
<1>7. ASSUME NEW q \in Actions!Paths, Actions!Fits(p, q), disk[p] # Actions!None,
             Actions!Volume(p) = Actions!Volume(q), NEW r \in Actions!Tree(disk, p)
      PROVE  Actions!Rebased(r, p, q) \in Actions!Paths
  <2>1. /\ Depth \in Nat /\ Len(p) \in 1..Depth /\ Len(q) \in 1..Depth /\ Len(r) \in 1..Depth
        /\ r \in Actions!Paths /\ Actions!Within(r, p)
    BY PathFacts, ActionsAssumption DEF Actions!ActionsAssumption, Actions!Tree
  <2>2. Len(r) - Len(p) + Len(q) <= Depth
    <3>1. CASE Len(p) < Len(q)
      BY <1>7, <3>1 DEF Actions!Fits
    <3>2. CASE Len(q) <= Len(p)
      BY <2>1, <3>2
    <3> QED
      BY <2>1, <3>1, <3>2
  <2> QED
    BY <2>1, <2>2, RebasedIs
<1>8. ASSUME NEW q \in Actions!Paths, Actions!RenamePath(p, q) PROVE ActionsInv'
  <2>1. CASE Actions!Allowed(q) /\ Actions!Exists(p)
    <3>1. disk[p] # Actions!None
      BY <2>1 DEF Actions!Exists
    <3>2. Actions!Volume(p) = Actions!Volume(q) =>
              \A r \in Actions!Tree(disk, p) : Actions!Rebased(r, p, q) \in Actions!Paths
      BY <1>7, <1>8, <3>1 DEF Actions!RenamePath
    <3>3. Actions!BeginTo("rename", p, q, FALSE, "renaming")
      BY <1>8, <2>1 DEF Actions!RenamePath
    <3> QED
      BY <3>2, <3>3, Begun
  <2>2. CASE ~(Actions!Allowed(q) /\ Actions!Exists(p))
    <3>1. Actions!BeginTo("rename", p, q, FALSE, "failed")
      BY <1>8, <2>2 DEF Actions!RenamePath
    <3> QED
      BY <3>1, Begun
  <2> QED
    BY <2>1, <2>2
<1>9. ASSUME NEW q \in Actions!Paths, NEW o \in BOOLEAN, Actions!CopyPath(p, q, o) PROVE ActionsInv'
  <2> DEFINE first == Actions!Replacing(p, q, o, "reading")
  <2>1. /\ first \in {"failed", "reading", "clearing"}
        /\ first # "failed" /\ ~o => disk[q] = Actions!None
    BY DEF Actions!Replacing
  <2>2. Actions!BeginTo("copy", p, q, o, first)
    BY <1>9 DEF Actions!CopyPath
  <2> HIDE DEF first
  <2> QED
    BY <2>1, <2>2, Begun
<1>10. ASSUME NEW q \in Actions!Paths, NEW o \in BOOLEAN, Actions!MovePath(p, q, o) PROVE ActionsInv'
  <2> DEFINE first == Actions!Replacing(p, q, o, "renaming")
  <2>1. /\ first \in {"failed", "renaming", "clearing"}
        /\ first # "failed" /\ ~o => disk[q] = Actions!None
        /\ first # "failed" => disk[p] # Actions!None
    BY DEF Actions!Replacing, Actions!Exists
  <2>2. Actions!BeginTo("move", p, q, o, first)
    BY <1>10 DEF Actions!MovePath
  <2> HIDE DEF first
  <2>3. (first # "failed" /\ Actions!Volume(p) = Actions!Volume(q)) =>
              \A r \in Actions!Tree(disk, p) : Actions!Rebased(r, p, q) \in Actions!Paths
    BY <1>7, <1>10, <2>1 DEF Actions!MovePath
  <2> QED
    BY <2>1, <2>2, <2>3, Begun
<1> QED
  BY <1>1, <1>2, <1>3, <1>4, <1>5, <1>6, <1>8, <1>9, <1>10

-----------------------------------------------------------------------------
(* Steps of a request                                                      *)

\* What a step of a request leaves alone.
SameRequest ==
    /\ op'.kind = op.kind /\ op'.src = op.src /\ op'.dst = op.dst /\ op'.over = op.over
    /\ UNCHANGED before

\* Names of paths that a step does not change.
LEMMA SameNames ==
  ASSUME SameRequest
  PROVE  /\ Actions!Tree(before, op.src)' = Actions!Tree(before, op.src)
         /\ \A p : Actions!Dest(p)' = Actions!Dest(p)
         /\ Actions!Apart' <=> Actions!Apart
         /\ Actions!Volume(op.src)' = Actions!Volume(op.src)
         /\ Actions!Volume(op.dst)' = Actions!Volume(op.dst)
         /\ MayReplace' <=> MayReplace
         /\ Rooted(before) => Rooted(before)'
<1> USE DEF SameRequest
<1>1. Actions!Tree(before, op.src)' = Actions!Tree(before, op.src)
  BY DEF Actions!Tree, Actions!Within
<1>2. \A p : Actions!Dest(p)' = Actions!Dest(p)
  BY DEF Actions!Dest, Actions!Rebased
<1>3. Actions!Apart' <=> Actions!Apart
  BY DEF Actions!Apart, Actions!Within
<1>4. /\ Actions!Volume(op.src)' = Actions!Volume(op.src)
      /\ Actions!Volume(op.dst)' = Actions!Volume(op.dst)
  BY DEF Actions!Volume
<1>5. MayReplace' <=> MayReplace
  BY DEF MayReplace
<1>6. Rooted(before) => Rooted(before)'
  BY DEF Rooted
<1> QED
  BY <1>1, <1>2, <1>3, <1>4, <1>5, <1>6

\* What a request under way has in common.
LEMMA UnderWay ==
  ASSUME ActionsInv, op.pc # "idle"
  PROVE  /\ op \in Requests /\ op.src \in Actions!Paths /\ op.dst \in Actions!Paths
         /\ op.src \in Seq(Names) /\ op.dst \in Seq(Names)
         /\ DOMAIN disk = Actions!Paths /\ Actions!OnlyTargets
         /\ Actions!Within(op.src, op.src) /\ Actions!Within(op.dst, op.dst)
BY PathFacts, WithinOrder DEF ActionsInv, RequestTypes

\* A new stage, and nothing else, is a step of the same request.
LEMMA Gone ==
  ASSUME ActionsInv, NEW pc \in Working \cup {"ok", "failed", "answered", "broken"}, Actions!Go(pc),
         UNCHANGED before
  PROVE  op' \in Requests /\ op'.pc = pc /\ op'.todo = op.todo /\ SameRequest
BY DEF ActionsInv, RequestTypes, Requests, Actions!Go, SameRequest

\* What a step with a new stage has left to show.
LEMMA StageStep ==
  ASSUME ActionsInv, NEW pc \in Working \cup {"ok", "failed", "broken"},
         op.pc \in Working \cup {"ok", "failed"},
         op' \in Requests, op'.pc = pc, SameRequest, UNCHANGED audit, DOMAIN disk' = Actions!Paths,
         op.pc \in {"ok", "failed"} => pc = "broken",
         pc \in {"making", "truncating", "writing"} => op.pc = "truncating",
         pc = "removing" => op.kind = "move" \/ op.pc = "removing",
         pc = "renaming" => op.kind = "move" /\ op.pc \in {"clearing", "renaming"},
         pc \in {"reading", "copying"} => op.kind \in {"copy", "move"},
         pc = "clearing" => op.pc = "clearing",
         Actions!OnlyTargets',
         op.kind \in Transfers /\ Actions!Apart =>
            /\ pc \in Preparing => Intact'
            /\ pc = "copying" => Copying'
            /\ pc \in {"removing", "ok"} => \A p \in Actions!Tree(before, op.src) : Arrived(p)'
            /\ Kept'
  PROVE  ActionsInv'
<1>1. op.src \in Actions!Paths /\ op.dst \in Actions!Paths
  BY UnderWay DEF Working, Preparing
<1>2. RequestTypes'
  BY <1>1 DEF RequestTypes, SameRequest
<1>3. Rooted(before)'
  BY SameNames DEF ActionsInv
<1>4. audit' # "success"
  BY DEF ActionsInv, Staged, Working, Preparing
<1>5. Staged'
  <2>1. op.pc \in Working => MayReplace'
    BY SameNames DEF ActionsInv, Staged
  <2>2. (pc \in {"clearing", "renaming"} /\ op.kind \in {"move", "rename"}
            /\ Actions!Volume(op.src)' = Actions!Volume(op.dst)') =>
          \A p \in Actions!Tree(before, op.src)' : Actions!Dest(p)' \in Actions!Paths
    BY SameNames DEF ActionsInv, Staged
  <2>3. pc \in {"making", "truncating", "writing"} => op.kind \in {"mkdir", "write"} /\ op.src = op.dst
    BY DEF ActionsInv, Staged
  <2>4. pc # "idle" /\ (pc \in Working => op.pc \in Working)
    BY DEF Working, Preparing
  <2>5. pc = "removing" => op.kind = "move" \/ (op.kind = "delete" /\ op.src = op.dst)
    BY DEF ActionsInv, Staged
  <2>6. pc = "clearing" => op.kind \in {"copy", "move"}
    BY DEF ActionsInv, Staged
  <2> QED
    BY <1>4, <2>1, <2>2, <2>3, <2>4, <2>5, <2>6 DEF Staged, SameRequest
<1>6. SourceStaged'
  BY <1>4, SameNames DEF SourceStaged, SameRequest
<1> QED
  BY <1>2, <1>3, <1>5, <1>6 DEF ActionsInv

\* No file is lost while the source is as it was, or once all has arrived.
LEMMA IntactKept ==
  ASSUME SameRequest,
         Intact' \/ (op.kind # "copy" /\ \A p \in Actions!Tree(before, op.src) : Arrived(p)')
  PROVE  Kept'
<1>1. \A p \in Actions!Tree(before, op.src)' : p \in Actions!Paths /\ Actions!Within(p, op.src)'
  BY DEF Actions!Tree
<1> QED
  BY <1>1, SameNames DEF Kept, Intact, SameRequest

\* create_dir_all of a mkdir.
LEMMA MadeStep == ASSUME ActionsInv, Actions!Made PROVE ActionsInv'
<1>1. /\ op.src = op.dst /\ op.kind \notin Transfers /\ MayReplace
  BY DEF ActionsInv, Staged, Actions!Made, Transfers, Working
<1>2. PICK pc \in {"ok", "failed"} : Actions!Go(pc)
  BY DEF Actions!Made
<1>3. op' \in Requests /\ op'.pc = pc /\ SameRequest
  BY <1>2, Gone DEF Actions!Made
<1>4. disk' = Actions!MakesDirs(op.dst) /\ DOMAIN disk' = Actions!Paths
  BY <1>1, UnderWay, MakesDirsFacts DEF Actions!Made
<1>5. Actions!OnlyTargets'
  BY <1>1, <1>3, <1>4, UnderWay, MakesDirsTargets, TargetsKept DEF SameRequest, Actions!Made
<1> QED
  BY <1>1, <1>3, <1>4, <1>5, StageStep DEF Actions!Made, Working, Preparing

\* The removal of an entry.
LEMMA RemovesFacts ==
  ASSUME DOMAIN disk = Actions!Paths, NEW p \in Actions!Paths, Actions!Removes(p)
  PROVE  /\ DOMAIN disk' = Actions!Paths /\ UNCHANGED <<before, audit>>
         /\ \A r \in Actions!Paths : r # p => disk'[r] = disk[r]
BY DEF Actions!Removes

\* remove_dir_all and remove_file of a destination that is replaced.
LEMMA ClearedStep == ASSUME ActionsInv, Actions!Cleared PROVE ActionsInv'
<1>1. op.kind \in {"copy", "move"} /\ op.pc = "clearing" /\ MayReplace
  BY DEF ActionsInv, Staged, Actions!Cleared, Working, Preparing
<1>2. PICK p \in Actions!Tree(disk, op.dst) :
         /\ Actions!Removes(p)
         /\ IF p # op.dst THEN UNCHANGED op
            ELSE Actions!Go(IF op.kind = "copy" THEN "reading" ELSE "renaming")
  BY DEF Actions!Cleared
<1>3. p \in Actions!Paths /\ Actions!Within(p, op.dst)
  BY DEF Actions!Tree
<1>4. /\ DOMAIN disk' = Actions!Paths /\ UNCHANGED <<before, audit>>
      /\ \A r \in Actions!Paths : r # p => disk'[r] = disk[r]
  BY <1>1, <1>2, <1>3, UnderWay, RemovesFacts
<1>5. /\ op' \in Requests /\ SameRequest
      /\ \/ op'.pc = "clearing"
         \/ op'.pc = "reading" /\ op.kind = "copy"
         \/ op'.pc = "renaming" /\ op.kind = "move"
  <2>1. CASE UNCHANGED op
    BY <1>1, <1>4, <2>1, UnderWay DEF SameRequest
  <2>2. CASE Actions!Go("reading") /\ op.kind = "copy"
    BY <1>4, <2>2, Gone DEF Working, Preparing
  <2>3. CASE Actions!Go("renaming") /\ op.kind = "move"
    BY <1>4, <2>3, Gone DEF Working, Preparing
  <2> QED
    BY <1>1, <1>2, <2>1, <2>2, <2>3
<1>6. Actions!OnlyTargets'
  BY <1>1, <1>3, <1>4, <1>5, UnderWay, TargetsKept DEF SameRequest
<1>7. ASSUME Actions!Apart PROVE Intact' /\ Kept'
  <2>1. ~Actions!Within(p, op.src)
    BY <1>1, <1>3, <1>7, UnderWay, ApartFacts, PathFacts, WithinOrder
  <2>2. Intact
    BY <1>1, <1>7 DEF ActionsInv, SourceStaged, Transfers, Preparing
  <2>3. Intact'
    BY <1>4, <1>5, <2>1, <2>2 DEF Intact, SameRequest
  <2> QED
    BY <1>5, <2>3, IntactKept
<1> QED
  BY <1>1, <1>4, <1>5, <1>6, <1>7, StageStep DEF Working, Preparing

\* The removal of what is deleted, or has been moved to another file system.
LEMMA RemovedStep == ASSUME ActionsInv, Actions!Removed PROVE ActionsInv'
<1>1. /\ op.kind = "move" \/ (op.kind = "delete" /\ op.src = op.dst)
      /\ op.pc = "removing" /\ MayReplace
  BY DEF ActionsInv, Staged, Actions!Removed, Working
<1>2. PICK p \in Actions!Tree(disk, op.src) :
         /\ Actions!Removes(p)
         /\ IF p = op.src THEN Actions!Go("ok") ELSE UNCHANGED op
  BY DEF Actions!Removed
<1>3. p \in Actions!Paths /\ Actions!Within(p, op.src)
  BY DEF Actions!Tree
<1>4. /\ DOMAIN disk' = Actions!Paths /\ UNCHANGED <<before, audit>>
      /\ \A r \in Actions!Paths : r # p => disk'[r] = disk[r]
  BY <1>1, <1>2, <1>3, UnderWay, RemovesFacts
<1>5. op' \in Requests /\ SameRequest /\ op'.pc \in {"removing", "ok"}
  <2>1. CASE UNCHANGED op
    BY <1>1, <1>4, <2>1, UnderWay DEF SameRequest
  <2>2. CASE Actions!Go("ok")
    BY <1>4, <2>2, Gone
  <2> QED
    BY <1>2, <2>1, <2>2
<1>6. Actions!OnlyTargets'
  BY <1>1, <1>3, <1>4, <1>5, UnderWay, TargetsKept DEF SameRequest
<1>7. ASSUME op.kind \in Transfers, Actions!Apart
      PROVE  (\A r \in Actions!Tree(before, op.src) : Arrived(r)') /\ Kept'
  <2>1. ASSUME NEW r \in Actions!Tree(before, op.src) PROVE Arrived(r)'
    <3>1. r \in Actions!Paths /\ Actions!Within(r, op.src) /\ Arrived(r)
      BY <1>1, <1>7 DEF ActionsInv, SourceStaged, Actions!Tree
    <3>2. Actions!Dest(r) \in Actions!Paths /\ Actions!Within(Actions!Dest(r), op.dst)
      BY <1>1, <3>1, UnderWay, DestFacts DEF Arrived
    <3>3. Actions!Dest(r) # p
      BY <1>1, <1>3, <1>7, <3>2, UnderWay, ApartFacts, PathFacts, WithinOrder
    <3> QED
      BY <1>4, <1>5, <3>1, <3>2, <3>3, ArrivedKept DEF SameRequest
  <2>2. op.kind # "copy"
    BY <1>1
  <2> QED
    BY <1>5, <2>1, <2>2, IntactKept
<1> QED
  BY <1>1, <1>4, <1>5, <1>6, <1>7, StageStep DEF Working, Preparing

\* Directories made on the way to the destination, or below it, leave the source
\* as it was.
LEMMA MakesDirsIntact ==
  ASSUME ActionsInv, op.pc # "idle", Actions!Apart, Intact, SameRequest,
         NEW q \in Seq(Names),
         (q \in Actions!Paths /\ Actions!Within(q, op.dst)) \/ Actions!Within(op.dst, q),
         \A r \in Actions!Paths : disk'[r] = disk[r] \/ Actions!Within(q, r)
  PROVE  Intact'
<1> SUFFICES ASSUME NEW r \in Actions!Paths, Actions!Within(r, op.src)
             PROVE  disk'[r] = before[r]
  BY DEF Intact, SameRequest
<1>1. ~Actions!Within(q, r)
  <2>1. CASE q \in Actions!Paths /\ Actions!Within(q, op.dst)
    BY <2>1, UnderWay, ApartFacts
  <2>2. CASE Actions!Within(op.dst, q)
    <3>1. ASSUME Actions!Within(q, r) PROVE Actions!Within(op.dst, r)
      BY <2>2, <3>1, UnderWay, PathFacts, WithinOrder
    <3> QED
      BY <3>1, UnderWay, ApartFacts
  <2> QED
    BY <2>1, <2>2
<1> QED
  BY <1>1 DEF Intact

\* A rename, with the directories above its destination, and its failures.
LEMMA RenamesStep == ASSUME ActionsInv, Actions!Renames PROVE ActionsInv'
<1> DEFINE above == Actions!Parent(op.dst)
<1>1. op.pc = "renaming" /\ op.kind \in {"move", "rename"} /\ MayReplace /\ UNCHANGED <<before, audit>>
  BY DEF ActionsInv, Staged, Actions!Renames, Working, Preparing
<1>2. above \in Seq(Names) /\ Actions!Within(op.dst, above)
  BY <1>1, UnderWay, ParentIs
<1>3. Actions!Apart => Intact
  BY <1>1 DEF ActionsInv, SourceStaged, Transfers, Preparing
<1> HIDE DEF above
<1>4. CASE op.kind = "move" /\ disk' = Actions!MakesDirs(above) /\ UNCHANGED op
  <2>1. SameRequest
    BY <1>1, <1>4 DEF SameRequest
  <2>2. /\ DOMAIN disk' = Actions!Paths
        /\ \A r \in Actions!Paths : disk'[r] = disk[r] \/ Actions!Within(above, r)
    BY <1>1, <1>4, UnderWay, MakesDirsFacts
  <2>3. Actions!OnlyTargets'
    BY <1>1, <1>2, <1>4, <2>1, UnderWay, MakesDirsTargets, TargetsKept DEF SameRequest
  <2>4. Actions!Apart => Intact' /\ Kept'
    BY <1>1, <1>2, <1>3, <2>1, <2>2, MakesDirsIntact, IntactKept
  <2> QED
    BY <1>1, <1>4, <2>1, <2>2, <2>3, <2>4, UnderWay, StageStep DEF Working, Preparing
<1>5. CASE \/ Actions!Go("failed") /\ UNCHANGED disk
           \/ op.kind = "move" /\ Actions!Go("reading") /\ UNCHANGED disk
  <2>1. /\ op' \in Requests /\ SameRequest
        /\ op'.pc = "failed" \/ (op'.pc = "reading" /\ op.kind = "move")
    BY <1>1, <1>5, Gone DEF Working, Preparing
  <2>2. DOMAIN disk' = Actions!Paths
    BY <1>1, <1>5, UnderWay
  <2>3. Actions!OnlyTargets'
    BY <1>1, <1>5, <2>1, UnderWay, TargetsStay DEF SameRequest
  <2>4. ASSUME Actions!Apart PROVE Intact' /\ Kept'
    <3>1. Intact'
      BY <1>3, <1>5, <2>1, <2>4 DEF Intact, SameRequest
    <3> QED
      BY <2>1, <3>1, IntactKept
  <2> QED
    BY <1>1, <2>1, <2>2, <2>3, <2>4, StageStep DEF Working, Preparing
<1>6. CASE Actions!Volume(op.src) = Actions!Volume(op.dst) /\ disk' = Actions!Moved /\ Actions!Go("ok")
  <2>1. op' \in Requests /\ SameRequest /\ op'.pc = "ok"
    BY <1>1, <1>6, Gone
  <2>2. DOMAIN disk' = Actions!Paths
    BY <1>6 DEF Actions!Moved
  <2>3. Actions!OnlyTargets'
    <3>1. \A p \in Actions!Paths :
             disk'[p] = disk[p] \/ Actions!Within(p, op.dst) \/ Actions!Within(p, op.src)
      BY <1>6 DEF Actions!Moved
    <3> QED
      BY <1>1, <2>1, <3>1, UnderWay, TargetsKept DEF SameRequest
  <2>4. ASSUME Actions!Apart
        PROVE  (\A p \in Actions!Tree(before, op.src) : Arrived(p)') /\ Kept'
    <3>1. ASSUME NEW p \in Actions!Tree(before, op.src) PROVE Arrived(p)'
      <4>1. p \in Actions!Paths /\ Actions!Within(p, op.src) /\ Actions!Dest(p) \in Actions!Paths
        BY <1>1, <1>6 DEF ActionsInv, Staged, Actions!Tree
      <4>2. /\ Actions!Within(Actions!Dest(p), op.dst)
            /\ Actions!Rebased(Actions!Dest(p), op.dst, op.src) = p
        BY <1>1, <4>1, UnderWay, DestFacts
      <4>3. disk'[Actions!Dest(p)] = disk[p]
        BY <1>6, <4>1, <4>2 DEF Actions!Moved
      <4>4. disk[p] = before[p]
        BY <1>3, <2>4, <4>1 DEF Intact
      <4> QED
        BY <2>1, <4>1, <4>3, <4>4, SameNames DEF Arrived, SameRequest
    <3>2. op.kind # "copy"
      BY <1>1
    <3> QED
      BY <2>1, <3>1, <3>2, IntactKept
  <2> QED
    BY <1>1, <2>1, <2>2, <2>3, <2>4, StageStep DEF Working, Preparing
<1> QED
  BY <1>1, <1>4, <1>5, <1>6 DEF Actions!Renames, above

\* The beginning of a copy.
LEMMA ReadsStep == ASSUME ActionsInv, Actions!Reads PROVE ActionsInv'
<1> DEFINE above == Actions!Parent(op.dst)
<1>1. op.pc = "reading" /\ op.kind \in {"copy", "move"} /\ MayReplace /\ UNCHANGED <<before, audit>>
  BY DEF ActionsInv, Staged, Actions!Reads, Working, Preparing
<1>2. above \in Seq(Names) /\ Actions!Within(op.dst, above)
  BY <1>1, UnderWay, ParentIs
<1>3. Actions!Apart => Intact
  BY <1>1 DEF ActionsInv, SourceStaged, Transfers, Preparing
<1>4. /\ op' \in Requests /\ SameRequest
      /\ op'.pc = "failed" \/ (op'.pc = "copying" /\ op'.todo = {op.src} /\ disk[op.src] # Actions!None)
  BY <1>1, UnderWay DEF Actions!Reads, SameRequest, Requests, Working, Preparing
<1>5. disk' = disk \/ disk' = Actions!MakesDirs(above)
  BY DEF Actions!Reads
<1> HIDE DEF above
<1>6. /\ DOMAIN disk' = Actions!Paths
      /\ \A r \in Actions!Paths : disk'[r] = disk[r] \/ Actions!Within(above, r)
  BY <1>1, <1>5, UnderWay, MakesDirsFacts
<1>7. Actions!OnlyTargets'
  BY <1>1, <1>2, <1>4, <1>5, UnderWay, MakesDirsTargets, TargetsKept DEF SameRequest
<1>8. Actions!Apart => Intact' /\ Kept'
  BY <1>1, <1>2, <1>3, <1>4, <1>6, MakesDirsIntact, IntactKept
<1>9. ASSUME Actions!Apart, op'.pc = "copying" PROVE Copying'
  <2>1. before[op.src] # Actions!None
    BY <1>1, <1>3, <1>4, <1>9, UnderWay DEF Intact
  <2>2. op.src \in Actions!Tree(before, op.src)
    BY <1>1, <2>1, UnderWay DEF Actions!Tree
  <2>3. \A p \in Actions!Tree(before, op.src) : Actions!Within(p, op.src)
    BY DEF Actions!Tree
  <2> QED
    BY <1>4, <1>9, <2>2, <2>3, SameNames DEF Copying
<1> QED
  BY <1>1, <1>4, <1>6, <1>7, <1>8, <1>9, StageStep DEF Working, Preparing

\* Whatever is copied goes below the destination.
LEMMA DestBelow ==
  ASSUME op.src \in Actions!Paths, op.dst \in Actions!Paths, NEW p \in Actions!Paths
  PROVE  Actions!Within(Actions!Dest(p), op.dst)
<1> DEFINE rest == SubSeq(p, Len(op.src) + 1, Len(p))
<1>1. /\ p \in Seq(Names) /\ op.src \in Seq(Names) /\ op.dst \in Seq(Names) /\ Depth \in Nat
      /\ Len(p) \in 1..Depth /\ Len(op.src) \in 1..Depth /\ Len(op.dst) \in 1..Depth
  BY PathFacts, ActionsAssumption DEF Actions!ActionsAssumption
<1>2. rest \in Seq(Names)
  <2>1. CASE Len(p) <= Len(op.src)
    BY <1>1, <2>1, SubSeqEmpty, EmptySeq
  <2>2. CASE Len(op.src) < Len(p)
    <3>1. \A i \in Len(op.src) + 1..Len(p) : p[i] \in Names
      BY <1>1, <2>2, ElementOfSeq
    <3> QED
      BY <1>1, <2>2, <3>1, SubSeqProperties
  <2> QED
    BY <1>1, <2>1, <2>2
<1>3. Actions!Dest(p) = op.dst \o rest
  BY DEF Actions!Dest, Actions!Rebased
<1> HIDE DEF rest
<1>4. /\ op.dst \o rest \in Seq(Names) /\ Len(op.dst \o rest) = Len(op.dst) + Len(rest)
      /\ \A i \in 1..Len(op.dst) : (op.dst \o rest)[i] = op.dst[i]
  BY <1>1, <1>2, Joined
<1>5. Len(op.dst) <= Len(op.dst \o rest)
  BY <1>1, <1>2, <1>4, LenProperties
<1> QED
  BY <1>1, <1>3, <1>4, <1>5, WithinIs

\* What a step of a copy has left to show.
LEMMA CopyStep ==
  ASSUME ActionsInv, op.pc = "copying", UNCHANGED audit, DOMAIN disk' = Actions!Paths,
         op' \in Requests, SameRequest, op'.pc \in {"copying", "failed"},
         \A p \in Actions!Paths :
            \/ disk'[p] = disk[p]
            \/ Actions!Within(p, op.dst)
            \/ disk[p] = Actions!None /\ disk'[p] = Actions!Dir /\ Actions!Within(op.dst, p),
         Actions!Apart /\ Intact /\ Copying => Intact' /\ (op'.pc = "copying" => Copying')
  PROVE  ActionsInv'
<1>1. op.kind \in {"copy", "move"} /\ MayReplace
  BY DEF ActionsInv, Staged, Working, Preparing
<1>2. Actions!Apart => Intact /\ Copying
  BY <1>1 DEF ActionsInv, SourceStaged, Transfers, Preparing
<1>3. Actions!OnlyTargets'
  BY <1>1, UnderWay, TargetsKept DEF SameRequest
<1>4. Actions!Apart => Intact' /\ Kept' /\ (op'.pc = "copying" => Copying')
  BY <1>2, IntactKept
<1> QED
  BY <1>1, <1>3, <1>4, StageStep DEF Working, Preparing

\* A directory has been made at the destination, and its entries are listed.
LEMMA DirectoryCopied ==
  ASSUME ActionsInv, op.pc = "copying", Actions!Apart, Intact, Copying, SameRequest, Intact',
         NEW t \in op.todo, Actions!Dest(t) \in Actions!Paths, Actions!IsDir(disk, t),
         disk' = Actions!MakesDirs(Actions!Dest(t)), Actions!IsDir(disk', Actions!Dest(t)),
         op'.todo = (op.todo \ {t}) \cup Actions!Children(disk', t)
  PROVE  Copying'
<1>1. t \in Actions!Paths /\ Actions!Within(t, op.src) /\ before[t] # Actions!None
  BY DEF Copying, Actions!Tree
<1>2. /\ op.src \in Actions!Paths /\ op.dst \in Actions!Paths /\ DOMAIN disk = Actions!Paths
      /\ Actions!Dir # Actions!None /\ <<>> \notin Actions!Paths
  BY UnderWay, PathFacts DEF Actions!Dir, Actions!None
<1>3. \A r \in Actions!Paths : Actions!Within(r, op.src) => disk'[r] = before[r] /\ disk[r] = before[r]
  BY DEF Intact, SameRequest
<1>4. ASSUME NEW c \in Actions!Paths, Actions!Within(c, t) PROVE Actions!Within(c, op.src)
  BY <1>1, <1>2, <1>4, PathFacts, WithinOrder
<1>5. op'.todo \subseteq Actions!Tree(before, op.src)
  BY <1>3, <1>4 DEF Copying, Actions!Children, Actions!Tree
<1>6. ASSUME NEW p \in Actions!Tree(before, op.src), ~(\E u \in op'.todo : Actions!Within(p, u))
      PROVE  Arrived(p)'
  <2>1. p \in Actions!Paths /\ Actions!Within(p, op.src) /\ before[p] # Actions!None
    BY DEF Actions!Tree
  <2>2. CASE Arrived(p)
    BY <1>2, <2>1, <2>2, MakesDirsFacts, ArrivedKept DEF Arrived, SameRequest
  <2>3. CASE p = t
    <3>1. before[t] = Actions!Dir /\ disk'[Actions!Dest(t)] = Actions!Dir
      BY <1>1, <1>2, <1>3 DEF Actions!IsDir
    <3> QED
      BY <2>3, <3>1, SameNames DEF Arrived, SameRequest
  <2>4. CASE ~Arrived(p) /\ p # t
    <3>1. Actions!Within(p, t)
      BY <1>6, <2>4 DEF Copying
    <3> DEFINE c == SubSeq(p, 1, Len(t) + 1)
    <3>2. /\ c \in Actions!Paths /\ Len(c) = Len(t) + 1
          /\ Actions!Within(p, c) /\ Actions!Within(c, t)
      BY <1>1, <2>1, <2>4, <3>1, ChildOn
    <3> HIDE DEF c
    <3>3. before[c] # Actions!None
      BY <1>2, <2>1, <3>2 DEF ActionsInv, Rooted
    <3>4. disk'[c] # Actions!None
      BY <1>3, <1>4, <3>2, <3>3
    <3>5. c \in Actions!Children(disk', t)
      BY <3>2, <3>4 DEF Actions!Children, Actions!Tree
    <3> QED
      BY <1>6, <3>2, <3>5
  <2> QED
    BY <2>2, <2>3, <2>4
<1> QED
  BY <1>5, <1>6, SameNames DEF Copying

\* A file has been copied.
LEMMA FileCopied ==
  ASSUME ActionsInv, op.pc = "copying", Actions!Apart, Intact, Copying, SameRequest,
         NEW t \in op.todo, Actions!Dest(t) \in Actions!Paths, ~Actions!IsDir(disk, t),
         disk' = [disk EXCEPT ![Actions!Dest(t)] = disk[t]], op'.todo = op.todo \ {t}
  PROVE  Intact' /\ Copying'
<1>1. t \in Actions!Paths /\ Actions!Within(t, op.src)
  BY DEF Copying, Actions!Tree
<1>2. op.src \in Actions!Paths /\ op.dst \in Actions!Paths /\ DOMAIN disk = Actions!Paths
  BY UnderWay
<1>3. Actions!Within(Actions!Dest(t), op.dst)
  BY <1>1, <1>2, DestFacts
<1>4. Intact'
  <2>1. ASSUME NEW r \in Actions!Paths, Actions!Within(r, op.src) PROVE disk'[r] = disk[r]
    <3>1. Actions!Dest(t) # r
      BY <1>2, <1>3, <2>1, ApartFacts, PathFacts, WithinOrder
    <3> QED
      BY <1>2, <3>1
  <2> QED
    BY <2>1 DEF Intact, SameRequest
<1>5. disk[t] = before[t] /\ before[t] # Actions!Dir
  BY <1>1 DEF Intact, Actions!IsDir
<1>6. ASSUME NEW p \in Actions!Tree(before, op.src), ~(\E u \in op'.todo : Actions!Within(p, u))
      PROVE  Arrived(p)'
  <2>1. p \in Actions!Paths /\ Actions!Within(p, op.src) /\ before[p] # Actions!None
    BY DEF Actions!Tree
  <2>2. CASE p = t
    <3>1. disk'[Actions!Dest(t)] = before[t]
      BY <1>2, <1>5
    <3> QED
      BY <2>2, <3>1, SameNames DEF Arrived, SameRequest
  <2>3. CASE Arrived(p) /\ p # t
    <3>1. Actions!Dest(p) # Actions!Dest(t)
      BY <1>1, <1>2, <2>1, <2>3, DestFacts
    <3>2. disk'[Actions!Dest(p)] = disk[Actions!Dest(p)]
      BY <1>2, <2>3, <3>1 DEF Arrived
    <3> QED
      BY <2>1, <2>3, <3>2, ArrivedKept DEF SameRequest
  <2>4. CASE ~Arrived(p) /\ p # t
    <3>1. Actions!Within(p, t)
      BY <1>6, <2>4 DEF Copying
    <3> QED
      BY <1>1, <1>5, <2>1, <2>4, <3>1 DEF ActionsInv, Rooted
  <2> QED
    BY <2>2, <2>3, <2>4
<1>7. op'.todo \subseteq Actions!Tree(before, op.src)
  BY DEF Copying
<1> QED
  BY <1>4, <1>6, <1>7, SameNames DEF Copying

\* One entry is copied, or the copy fails.
LEMMA CopiesStep == ASSUME ActionsInv, Actions!Copies PROVE ActionsInv'
<1>1. op.pc = "copying" /\ UNCHANGED <<before, audit>>
  BY DEF Actions!Copies
<1>2. /\ op \in Requests /\ op.todo \subseteq Actions!Paths /\ DOMAIN disk = Actions!Paths
      /\ op.src \in Actions!Paths /\ op.dst \in Actions!Paths
  BY <1>1, UnderWay DEF Requests
<1>3. PICK t \in op.todo :
         \/ Actions!Go("failed") /\ UNCHANGED disk
         \/ /\ Actions!Dest(t) \in Actions!Paths
            /\ Actions!IsDir(disk, t)
            /\ disk' = Actions!MakesDirs(Actions!Dest(t))
            /\ \/ /\ Actions!IsDir(disk', Actions!Dest(t))
                  /\ op' = [op EXCEPT !.todo = (@ \ {t}) \cup Actions!Children(disk', t)]
               \/ op' = [op EXCEPT !.pc = "failed"]
         \/ /\ Actions!Dest(t) \in Actions!Paths
            /\ ~Actions!IsDir(disk, t)
            /\ disk' = [disk EXCEPT ![Actions!Dest(t)] = disk[t]]
            /\ op' = [op EXCEPT !.todo = @ \ {t}]
  BY DEF Actions!Copies
<1> DEFINE q == Actions!Dest(t)
<1>4. Actions!Within(q, op.dst)
  BY <1>2, DestBelow
<1> HIDE DEF q
<1>5. CASE Actions!Go("failed") /\ UNCHANGED disk
  <2>1. op' \in Requests /\ op'.pc = "failed" /\ SameRequest
    BY <1>1, <1>5, Gone
  <2>2. Intact => Intact'
    BY <1>5, <2>1 DEF Intact, SameRequest
  <2> QED
    BY <1>1, <1>2, <1>5, <2>1, <2>2, CopyStep
<1>6. CASE /\ q \in Actions!Paths /\ Actions!IsDir(disk, t) /\ disk' = Actions!MakesDirs(q)
           /\ \/ /\ Actions!IsDir(disk', q)
                 /\ op' = [op EXCEPT !.todo = (@ \ {t}) \cup Actions!Children(disk', t)]
              \/ op' = [op EXCEPT !.pc = "failed"]
  <2>1. /\ op' \in Requests /\ SameRequest
        /\ \/ op'.pc = "failed"
           \/ /\ op'.pc = "copying" /\ Actions!IsDir(disk', q)
              /\ op'.todo = (op.todo \ {t}) \cup Actions!Children(disk', t)
    <3>1. Actions!Children(disk', t) \subseteq Actions!Paths
      BY DEF Actions!Children, Actions!Tree
    <3> QED
      BY <1>1, <1>2, <1>6, <3>1 DEF Requests, SameRequest, Working, Preparing
  <2>2. q \in Seq(Names)
    BY <1>6, PathFacts
  <2>3. /\ DOMAIN disk' = Actions!Paths
        /\ \A r \in Actions!Paths : disk'[r] = disk[r] \/ Actions!Within(q, r)
    BY <1>2, <1>6, MakesDirsFacts
  <2>4. \A p \in Actions!Paths :
            \/ disk'[p] = disk[p]
            \/ Actions!Within(p, op.dst)
            \/ disk[p] = Actions!None /\ disk'[p] = Actions!Dir /\ Actions!Within(op.dst, p)
    BY <1>2, <1>4, <1>6, <2>2, MakesDirsTargets
  <2>5. ASSUME Actions!Apart, Intact, Copying PROVE Intact' /\ (op'.pc = "copying" => Copying')
    <3>1. Intact'
      BY <1>1, <1>4, <1>6, <2>1, <2>2, <2>3, <2>5, MakesDirsIntact
    <3>2. ASSUME op'.pc = "copying" PROVE Copying'
      BY <1>1, <1>6, <2>1, <2>5, <3>1, <3>2, DirectoryCopied DEF q
    <3> QED
      BY <3>1, <3>2
  <2> QED
    BY <1>1, <2>1, <2>3, <2>4, <2>5, CopyStep
<1>7. CASE /\ q \in Actions!Paths /\ ~Actions!IsDir(disk, t) /\ disk' = [disk EXCEPT ![q] = disk[t]]
           /\ op' = [op EXCEPT !.todo = @ \ {t}]
  <2>1. op' \in Requests /\ SameRequest /\ op'.pc = "copying" /\ op'.todo = op.todo \ {t}
    BY <1>1, <1>2, <1>7 DEF Requests, SameRequest
  <2>2. DOMAIN disk' = Actions!Paths /\ \A p \in Actions!Paths : p # q => disk'[p] = disk[p]
    BY <1>2, <1>7
  <2>3. Actions!Apart /\ Intact /\ Copying => Intact' /\ Copying'
    BY <1>1, <1>7, <2>1, FileCopied DEF q
  <2> QED
    BY <1>1, <1>4, <2>1, <2>2, <2>3, CopyStep
<1> QED
  BY <1>3, <1>5, <1>6, <1>7 DEF q

\* The end of a copy.
LEMMA CopiedStep == ASSUME ActionsInv, Actions!Copied PROVE ActionsInv'
<1>1. op.pc = "copying" /\ op.todo = {} /\ UNCHANGED <<disk, before, audit>>
  BY DEF Actions!Copied
<1>2. op.kind \in {"copy", "move"}
  BY <1>1 DEF ActionsInv, Staged
<1>3. /\ op' \in Requests /\ SameRequest
      /\ (op'.pc = "removing" /\ op.kind = "move") \/ op'.pc = "ok"
  BY <1>1, Gone DEF Actions!Copied, Working
<1>4. DOMAIN disk' = Actions!Paths /\ Actions!OnlyTargets'
  BY <1>1, <1>3, UnderWay, TargetsStay DEF SameRequest
<1>5. ASSUME Actions!Apart
      PROVE  (\A p \in Actions!Tree(before, op.src) : Arrived(p)') /\ Kept'
  <2>1. Intact /\ Copying
    BY <1>1, <1>2, <1>5 DEF ActionsInv, SourceStaged, Transfers, Preparing
  <2>2. ASSUME NEW p \in Actions!Tree(before, op.src) PROVE Arrived(p)'
    <3>1. Arrived(p) /\ p \in Actions!Paths
      BY <1>1, <2>1 DEF Copying, Actions!Tree
    <3> QED
      BY <1>1, <1>3, <3>1, ArrivedKept DEF SameRequest
  <2>3. Intact'
    BY <1>1, <1>3, <2>1 DEF Intact, SameRequest
  <2> QED
    BY <1>3, <2>2, <2>3, IntactKept
<1> QED
  BY <1>1, <1>2, <1>3, <1>4, <1>5, StageStep DEF Working, Preparing

\* A file is emptied before it is written.
LEMMA TruncatesStep == ASSUME ActionsInv, Actions!Truncates PROVE ActionsInv'
<1> DEFINE made == IF Len(op.src) > 1 THEN Actions!MakesDirs(Actions!Parent(op.src)) ELSE disk
<1>1. op.pc = "truncating" /\ UNCHANGED <<before, audit>>
  BY DEF Actions!Truncates
<1>2. op.src = op.dst /\ op.kind \notin Transfers /\ MayReplace
  BY <1>1 DEF ActionsInv, Staged, Transfers, Working
<1>3. Actions!Parent(op.src) \in Seq(Names) /\ Actions!Within(op.dst, Actions!Parent(op.src))
  BY <1>1, <1>2, UnderWay, ParentIs
<1>4. /\ DOMAIN made = Actions!Paths
      /\ \A p \in Actions!Paths :
            \/ made[p] = disk[p]
            \/ Actions!Within(p, op.dst)
            \/ disk[p] = Actions!None /\ made[p] = Actions!Dir /\ Actions!Within(op.dst, p)
  <2>1. CASE Len(op.src) > 1
    BY <1>1, <1>3, <2>1, UnderWay, MakesDirsFacts, MakesDirsTargets
  <2>2. CASE ~(Len(op.src) > 1)
    BY <1>1, <2>2, UnderWay
  <2> QED
    BY <2>1, <2>2
<1>5. PICK pc \in {"failed", "writing"} : Actions!Go(pc)
  BY DEF Actions!Truncates
<1>6. op' \in Requests /\ op'.pc = pc /\ SameRequest
  BY <1>1, <1>5, Gone DEF Working
<1>7. disk' = made \/ disk' = [made EXCEPT ![op.src] = Actions!File(<<>>)]
  BY DEF Actions!Truncates
<1> HIDE DEF made
<1>8. /\ DOMAIN disk' = Actions!Paths
      /\ \A p \in Actions!Paths : p # op.src => disk'[p] = made[p]
  BY <1>4, <1>7
<1>9. \A p \in Actions!Paths :
            \/ disk'[p] = disk[p]
            \/ Actions!Within(p, op.dst)
            \/ disk[p] = Actions!None /\ disk'[p] = Actions!Dir /\ Actions!Within(op.dst, p)
  BY <1>1, <1>2, <1>4, <1>8, UnderWay
<1>10. Actions!OnlyTargets'
  BY <1>1, <1>2, <1>6, <1>9, UnderWay, TargetsKept DEF SameRequest
<1> QED
  BY <1>1, <1>2, <1>6, <1>8, <1>10, StageStep DEF Working, Preparing

\* The content of a file is written.
LEMMA WritesStep == ASSUME ActionsInv, Actions!Writes PROVE ActionsInv'
<1>1. op.pc = "writing" /\ UNCHANGED <<before, audit>> /\ Actions!Go("ok")
  BY DEF Actions!Writes
<1>2. op.src = op.dst /\ op.kind \notin Transfers /\ MayReplace
  BY <1>1 DEF ActionsInv, Staged, Transfers, Working
<1>3. op' \in Requests /\ op'.pc = "ok" /\ SameRequest
  BY <1>1, Gone
<1>4. DOMAIN disk' = Actions!Paths /\ \A p \in Actions!Paths : p # op.src => disk'[p] = disk[p]
  BY <1>1, UnderWay DEF Actions!Writes
<1>5. Actions!OnlyTargets'
  BY <1>1, <1>2, <1>3, <1>4, UnderWay, TargetsKept DEF SameRequest
<1> QED
  BY <1>1, <1>2, <1>3, <1>4, <1>5, StageStep DEF Working, Preparing

\* No file is lost by a step that leaves the disk alone.
LEMMA KeptStays ==
  ASSUME Kept, SameRequest, UNCHANGED disk
  PROVE  Kept'
<1>1. \A p : Arrived(p) => Arrived(p)'
  BY SameNames DEF Arrived, SameRequest
<1>2. \A p \in Actions!Tree(before, op.src)' : p \in Actions!Tree(before, op.src)
  BY SameNames
<1> QED
  BY <1>1, <1>2 DEF Kept, SameRequest, Actions!IsFile

\* The outcome is recorded.
LEMMA AuditedStep == ASSUME ActionsInv, Actions!Audited PROVE ActionsInv'
<1>1. /\ op.pc \in {"ok", "failed"} /\ UNCHANGED <<disk, before>> /\ Actions!Go("answered")
      /\ audit' = "success" => op.pc = "ok"
  BY DEF Actions!Audited
<1>2. op' \in Requests /\ op'.pc = "answered" /\ SameRequest
  BY <1>1, Gone
<1>3. RequestTypes'
  BY <1>1, <1>2, UnderWay DEF RequestTypes, SameRequest
<1>4. Rooted(before)'
  BY <1>2, SameNames DEF ActionsInv
<1>5. Staged'
  BY <1>2 DEF Staged, Working, Preparing
<1>6. SourceStaged'
  <2> SUFFICES ASSUME op.kind \in Transfers, Actions!Apart
               PROVE  /\ audit' = "success" => \A p \in Actions!Tree(before, op.src) : Arrived(p)'
                      /\ Kept'
    BY <1>2, SameNames DEF SourceStaged, SameRequest, Preparing
  <2>1. Kept'
    BY <1>1, <1>2, KeptStays DEF ActionsInv, SourceStaged
  <2>2. ASSUME audit' = "success", NEW p \in Actions!Tree(before, op.src) PROVE Arrived(p)'
    <3>1. Arrived(p)
      BY <1>1, <2>2 DEF ActionsInv, SourceStaged
    <3> QED
      BY <1>1, <1>2, <3>1, SameNames DEF Arrived, SameRequest
  <2> QED
    BY <2>1, <2>2
<1>7. Actions!OnlyTargets'
  BY <1>1, <1>2, UnderWay, TargetsStay DEF SameRequest
<1> QED
  BY <1>3, <1>4, <1>5, <1>6, <1>7 DEF ActionsInv

\* The host goes down, or a system call fails for a reason of its own.
LEMMA BreaksStep == ASSUME ActionsInv, Actions!Breaks PROVE ActionsInv'
<1>1. /\ op.pc \notin {"idle", "answered", "broken"} /\ UNCHANGED <<disk, before, audit>>
      /\ Actions!Go("broken")
  BY DEF Actions!Breaks
<1>2. op.pc \in Working \cup {"ok", "failed"} /\ DOMAIN disk' = Actions!Paths
  BY <1>1, UnderWay DEF Requests
<1>3. op' \in Requests /\ op'.pc = "broken" /\ SameRequest
  BY <1>1, Gone
<1>4. Actions!OnlyTargets'
  BY <1>1, <1>3, UnderWay, TargetsStay DEF SameRequest
<1>5. op.kind \in Transfers /\ Actions!Apart => Kept'
  BY <1>1, <1>3, KeptStays DEF ActionsInv, SourceStaged
<1> QED
  BY <1>1, <1>2, <1>3, <1>4, <1>5, StageStep DEF Working, Preparing

-----------------------------------------------------------------------------
(* The theorem                                                             *)

\* Every step of a request and every new request preserves the invariant.
LEMMA ActionsNext == ASSUME ActionsInv, Actions!Next PROVE ActionsInv'
<1>1. CASE Actions!Step
  BY <1>1, MadeStep, ClearedStep, RemovedStep, RenamesStep, ReadsStep, CopiesStep, CopiedStep,
     TruncatesStep, WritesStep, AuditedStep DEF Actions!Step
<1>2. CASE Actions!Breaks
  BY <1>2, BreaksStep
<1>3. ASSUME NEW p \in Actions!Paths,
             \/ Actions!Mkdir(p) \/ Actions!DeletePath(p) \/ Actions!Query(p)
                   \/ Actions!DownloadFile(p) \/ Actions!UnknownAction(p)
             \/ \E valid \in BOOLEAN : Actions!WriteFile(p, valid)
             \/ \E q \in Actions!Paths :
                   \/ Actions!RenamePath(p, q)
                   \/ \E o \in BOOLEAN : Actions!CopyPath(p, q, o) \/ Actions!MovePath(p, q, o)
      PROVE  ActionsInv'
  BY <1>3, RequestSteps
<1> QED
  BY <1>1, <1>2, <1>3 DEF Actions!Next

\* The invariant holds of every disk that a request may find, the empty one included.
LEMMA ActionsBegin ==
  /\ Actions!Init => ActionsInv
  /\ ActionsRest => ActionsInv
<1>1. ASSUME op = Actions!Idle, before = disk, audit = "none", DOMAIN disk = Actions!Paths, Rooted(disk)
      PROVE  ActionsInv
  <2>1. op.pc = "idle" /\ op.kind = "none" /\ op \in Requests
    BY <1>1 DEF Actions!Idle, Requests, Working, Preparing
  <2>2. RequestTypes /\ Staged
    BY <1>1, <2>1 DEF RequestTypes, Staged, Working, Preparing
  <2>3. SourceStaged
    BY <2>1 DEF SourceStaged, Transfers
  <2>4. Actions!OnlyTargets
    BY <1>1 DEF Actions!OnlyTargets
  <2> QED
    BY <1>1, <2>2, <2>3, <2>4 DEF ActionsInv
<1>2. ASSUME Actions!Init PROVE ActionsInv
  <2>1. PICK files \in SUBSET {p \in Actions!Paths : Len(p) < Depth},
             dirs \in SUBSET {p \in Actions!Paths : Len(p) < Depth} :
           /\ files \cap dirs = {}
           /\ \A p \in files \cup dirs, q \in Actions!Paths : Actions!Within(p, q) /\ q # p => q \in dirs
           /\ disk = [p \in Actions!Paths |-> IF p \in files THEN Actions!File(p)
                                              ELSE IF p \in dirs THEN Actions!Dir ELSE Actions!None]
    BY <1>2 DEF Actions!Init
  <2>2. ASSUME NEW p \in Actions!Paths, NEW q \in Actions!Paths,
               disk[p] # Actions!None, Actions!Within(p, q), q # p
        PROVE  disk[q] = Actions!Dir
    <3>1. p \in files \cup dirs
      BY <2>1, <2>2
    <3>2. q \in dirs /\ q \notin files
      BY <2>1, <2>2, <3>1
    <3> QED
      BY <2>1, <3>2
  <2>3. DOMAIN disk = Actions!Paths /\ Rooted(disk)
    BY <2>1, <2>2 DEF Rooted
  <2> QED
    BY <1>1, <1>2, <2>3 DEF Actions!Init
<1>3. ASSUME ActionsRest PROVE ActionsInv
  <2>1. DOMAIN disk = Actions!Paths /\ Rooted(disk)
    BY <1>3 DEF ActionsRest, Rooted
  <2> QED
    BY <1>1, <1>3, <2>1 DEF ActionsRest
<1> QED
  BY <1>2, <1>3

\* The invariant says what the properties say.
LEMMA ActionsInvSays == ActionsInv => ActionsSound
<1> SUFFICES ASSUME ActionsInv PROVE Actions!SourceKept
  BY DEF ActionsInv, ActionsSound
<1> SUFFICES ASSUME op.kind \in Transfers, Actions!Apart, NEW p \in Actions!Tree(before, op.src)
             PROVE  /\ Actions!IsFile(before, p) =>
                          disk[p] = before[p] \/ (op.kind # "copy" /\ Arrived(p))
                    /\ op.pc = "ok" \/ audit = "success" => Arrived(p)
  BY DEF Actions!SourceKept, Transfers, Arrived
<1> QED
  BY DEF ActionsInv, SourceStaged, Kept

\* For every set of names, depth and mount points, and whichever system call of
\* a request fails or is the last before a crash: no file of the source of a
\* copy, a move or a rename is lost, one that succeeded has put all of them at
\* the destination, and a request changes only what it names (files.rs
\* 1213-1507).
THEOREM ActionsAreSound == Spec => []ActionsSound
<1>1. Init => ActionsInv
  BY ActionsBegin DEF Init
<1>2. ActionsInv /\ [Next]_vars => ActionsInv'
  <2> SUFFICES ASSUME ActionsInv, [Next]_vars PROVE ActionsInv'
    OBVIOUS
  <2>1. CASE Actions!Next
    BY <2>1, ActionsNext
  <2>2. CASE UNCHANGED actionVars
    <3>1. disk' = disk /\ before' = before /\ op' = op /\ audit' = audit
      BY <2>2 DEF actionVars
    <3>2. SameRequest /\ \A p : Arrived(p)' <=> Arrived(p)
      BY <3>1 DEF SameRequest, Arrived, Actions!Dest, Actions!Rebased
    <3>3. RequestTypes' /\ Rooted(before)' /\ Actions!OnlyTargets'
      BY <3>1, <3>2, SameNames DEF ActionsInv, RequestTypes, Actions!OnlyTargets
    <3>4. Staged'
      BY <3>1, <3>2, SameNames DEF ActionsInv, Staged
    <3>5. (Kept => Kept') /\ (Intact => Intact') /\ (Copying => Copying')
      BY <3>1, <3>2, SameNames, KeptStays DEF Intact, Copying
    <3>6. SourceStaged'
      BY <3>1, <3>2, <3>5, SameNames DEF ActionsInv, SourceStaged
    <3> QED
      BY <3>3, <3>4, <3>6 DEF ActionsInv
  <2> QED
    BY <2>1, <2>2 DEF Next, vars
<1> QED
  BY <1>1, <1>2, ActionsInvSays, PTL DEF Spec

-----------------------------------------------------------------------------
(* FrameAssembly: the counters of what is assembled.                       *)

\* The lengths in s add up to n; their running total never falls.
SumsTo(s, n) ==
    \E sum \in [0..Len(s) -> Nat] :
      /\ sum[0] = 0 /\ sum[Len(s)] = n
      /\ \A j \in 1..Len(s) : sum[j] = sum[j - 1] + s[j]
      /\ \A j, k \in 0..Len(s) : j <= k => sum[j] <= sum[k]

\* A message in assembly: its counter is what its chunks hold, within the limits.
Buffers == [expected : Nat, chunks : Seq(Nat), received : Nat]
Counts(b) ==
    /\ b \in Buffers
    /\ SumsTo(b.chunks, b.received) /\ b.received <= MaxBytes /\ Len(b.chunks) <= b.expected

\* A framed message has a place for each of its chunks from the start.
FramesInv ==
    /\ DOMAIN messages = MsgIds /\ DOMAIN transfers = MsgIds
    /\ messages = [i \in MsgIds |-> messages[i]] /\ transfers = [i \in MsgIds |-> transfers[i]]
    /\ \A i \in MsgIds : Counts(messages[i]) /\ Counts(transfers[i])
    /\ \A i \in MsgIds : Len(messages[i].chunks) = messages[i].expected

\* What the running total says (the counters of daemon/files.rs 162-185).
LEMMA SumsAddUp ==
    ASSUME NEW s \in Seq(Nat), NEW n \in Nat, SumsTo(s, n)
    PROVE  Frames!AddUpTo(s, n)
<1>1. Len(s) \in Nat
  BY LenProperties
<1>2. PICK sum \in [0..Len(s) -> Nat] :
        /\ sum[0] = 0 /\ sum[Len(s)] = n
        /\ \A j \in 1..Len(s) : sum[j] = sum[j - 1] + s[j]
        /\ \A j, k \in 0..Len(s) : j <= k => sum[j] <= sum[k]
  BY DEF SumsTo
<1>3. ASSUME NEW j \in 0..Len(s) PROVE sum[j] \in 0..n
  <2>1. Len(s) \in 0..Len(s) /\ j <= Len(s)
    BY <1>1
  <2>2. sum[j] <= sum[Len(s)] /\ sum[j] \in Nat
    BY <2>1, <1>2
  <2> QED
    BY <2>2, <1>2
<1>4. sum \in [0..Len(s) -> 0..n]
  BY <1>2, <1>3
<1> QED
  BY <1>2, <1>4 DEF Frames!AddUpTo

\* A message begins with empty chunks, which add up to nothing.
LEMMA ZeroSums ==
    ASSUME NEW n \in Nat
    PROVE  /\ [k \in 1..n |-> 0] \in Seq(Nat) /\ Len([k \in 1..n |-> 0]) = n
           /\ SumsTo([k \in 1..n |-> 0], 0)
<1> DEFINE z == [k \in 1..n |-> 0]
           sum == [k \in 0..n |-> 0]
<1>1. z \in [1..n -> Nat]
  OBVIOUS
<1>2. z \in Seq(Nat)
  BY <1>1, SeqDef
<1>3. Len(z) = n
  BY <1>1, <1>2, LenProperties
<1>4. /\ sum \in [0..n -> Nat] /\ sum[0] = 0 /\ sum[n] = 0
      /\ \A j \in 1..n : sum[j] = sum[j - 1] + z[j]
      /\ \A j, k \in 0..n : j <= k => sum[j] <= sum[k]
  <2>1. \A j \in 0..n : sum[j] = 0
    OBVIOUS
  <2>2. \A j \in 1..n : z[j] = 0 /\ j \in 0..n /\ j - 1 \in 0..n
    OBVIOUS
  <2>3. sum \in [0..n -> Nat] /\ 0 \in 0..n /\ n \in 0..n
    OBVIOUS
  <2> HIDE DEF z, sum
  <2> QED
    BY <2>1, <2>2, <2>3
<1> HIDE DEF z, sum
<1>5. SumsTo(z, 0)
  BY <1>3, <1>4 DEF SumsTo
<1> QED
  BY <1>2, <1>3, <1>5 DEF z

\* A sum in which one of the earlier terms is replaced.
LEMMA ShiftOne ==
    ASSUME NEW b \in Nat, NEW c \in Nat, NEW y \in Nat, NEW l \in Nat
    PROVE  ((b + c) - y) + l = ((b - y) + l) + c
OBVIOUS

\* Sums in which the last term is replaced, and how they compare.
LEMMA Replaced ==
    /\ \A a, y, l \in Nat : a >= y => (a - y) + l \in Nat
    /\ \A b, y, l \in Nat : ((b + y) - y) + l = b + l
    /\ \A a, b, y, l \in Nat : a <= b => (a - y) + l <= (b - y) + l
    /\ \A a, b, c, y, l \in Nat : a <= c /\ c + y <= b => a <= (b - y) + l
OBVIOUS

\* What is taken away and put back is what there was.
LEMMA PutBack == \A b, y, len \in Nat : ((b + y) - y) + len = b + len
OBVIOUS

\* The same change on both sides keeps the order.
LEMMA KeepsOrder ==
    \A a, b, y, len \in Nat : a <= b => (a - y) + len <= (b - y) + len
OBVIOUS

\* The chunk at k is replaced by one of length len (daemon/files.rs 162-185).
LEMMA ReplaceSums ==
    ASSUME NEW s \in Seq(Nat), NEW n \in Nat, SumsTo(s, n), NEW k \in 1..Len(s), NEW len \in Nat
    PROVE  /\ (n - s[k]) + len \in Nat
           /\ [s EXCEPT ![k] = len] \in Seq(Nat) /\ Len([s EXCEPT ![k] = len]) = Len(s)
           /\ SumsTo([s EXCEPT ![k] = len], (n - s[k]) + len)
<1> DEFINE t == [s EXCEPT ![k] = len]
<1>1. PICK m \in Nat : m = Len(s) /\ s \in [1..m -> Nat]
  BY LenProperties
<1>2. PICK sum \in [0..m -> Nat] :
        /\ sum[0] = 0 /\ sum[m] = n
        /\ \A j \in 1..m : sum[j] = sum[j - 1] + s[j]
        /\ \A i, j \in 0..m : i <= j => sum[i] <= sum[j]
  BY <1>1 DEF SumsTo
<1>3. t \in [1..m -> Nat] /\ \A j \in 1..m : t[j] = IF j = k THEN len ELSE s[j]
  BY <1>1
<1> HIDE DEF t
<1>4. t \in Seq(Nat) /\ Len(t) = m
  <2>1. t \in Seq(Nat)
    BY <1>3, SeqDef
  <2> QED
    BY <2>1, <1>3, LenProperties
<1>5. PICK y \in Nat : y = s[k]
  BY <1>1
<1>6. k \in 1..m /\ k - 1 \in 0..m /\ k \in 0..m /\ m \in 0..m /\ 0 \in 0..m /\ k \in Nat
  BY <1>1
<1>7. sum[k] = sum[k - 1] + y /\ sum[k] \in Nat /\ sum[k - 1] \in Nat
  BY <1>2, <1>5, <1>6
<1>8. ASSUME NEW j \in 0..m, j >= k PROVE sum[j] >= y /\ sum[j] \in Nat
  <2>1. sum[k] <= sum[j] /\ sum[j] \in Nat
    BY <1>2, <1>6, <1>8
  <2> QED
    BY <2>1, <1>7, <1>5
<1> DEFINE w(j) == (sum[j] - y) + len
<1> DEFINE u == [j \in 0..m |-> IF j < k THEN sum[j] ELSE w(j)]
<1>9. \A j \in 0..m : w(j) \in Nat \/ j < k
  <2>1. ASSUME NEW j \in 0..m, ~(j < k) PROVE w(j) \in Nat
    <3>1. PICK a \in Nat : a = sum[j] /\ a >= y
      BY <2>1, <1>6, <1>8
    <3> QED
      BY <3>1, <1>5, Replaced
  <2> QED
    BY <2>1
<1>a. /\ \A j \in 0..m : j < k => u[j] = sum[j]
      /\ \A j \in 0..m : ~(j < k) => u[j] = w(j)
  OBVIOUS
<1>b. \A j \in 0..m : sum[j] \in Nat
  BY <1>2
<1>10. u \in [0..m -> Nat]
  <2> HIDE DEF w
  <2> QED
    BY <1>9, <1>b
<1> HIDE DEF u
<1>11. u[0] = 0 /\ u[m] = (n - y) + len
  <2>1. 0 < k /\ ~(m < k)
    BY <1>6
  <2> QED
    BY <2>1, <1>a, <1>2, <1>6
<1>12. ASSUME NEW j \in 1..m PROVE u[j] = u[j - 1] + t[j]
  <2>0. j \in 0..m /\ j - 1 \in 0..m /\ j \in Nat
    OBVIOUS
  <2>1. PICK a, b, c \in Nat : a = sum[j] /\ b = sum[j - 1] /\ c = s[j]
    BY <2>0, <1>1, <1>2
  <2>2. a = b + c
    BY <2>1, <1>2
  <2>3. CASE j < k
    <3>0. j < k /\ j - 1 < k /\ j # k
      BY <2>3, <2>0, <1>6
    <3>1. u[j] = a /\ u[j - 1] = b /\ t[j] = c
      BY <2>0, <2>1, <3>0, <1>3, <1>a
    <3> QED
      BY <3>1, <2>2
  <2>4. CASE j = k
    <3>0. ~(j < k) /\ j - 1 < k
      BY <2>4, <2>0
    <3>1. u[j] = (a - y) + len /\ u[j - 1] = b /\ t[j] = len /\ c = y
      BY <2>0, <2>1, <2>4, <3>0, <1>3, <1>5, <1>a
    <3>2. ((b + y) - y) + len = b + len
      BY ONLY b \in Nat, y \in Nat, len \in Nat, PutBack
    <3>3. a = b + y
      BY ONLY <3>1, <2>2
    <3> QED
      BY ONLY <3>1, <3>2, <3>3
  <2>5. CASE j > k
    <3>0. ~(j < k) /\ ~(j - 1 < k) /\ j # k
      BY <2>5, <2>0, <1>6
    <3>1. u[j] = (a - y) + len /\ u[j - 1] = (b - y) + len /\ t[j] = c
      BY <2>0, <2>1, <3>0, <1>3, <1>a
    <3>2. (a - y) + len = ((b - y) + len) + c
      <4>1. ((b + c) - y) + len = ((b - y) + len) + c
        BY ShiftOne
      <4> QED
        BY <4>1, <2>2
    <3> QED
      BY <3>1, <3>2
  <2> QED
    BY <2>0, <2>3, <2>4, <2>5, <1>6
<1>13. ASSUME NEW i \in 0..m, NEW j \in 0..m, i <= j PROVE u[i] <= u[j]
  <2>0. i \in Nat /\ j \in Nat
    OBVIOUS
  <2>1. PICK a, b, c, d \in Nat : a = sum[i] /\ b = sum[j] /\ c = sum[k - 1] /\ d = sum[k]
    BY <1>b, <1>6
  <2>2. a <= b
    BY <2>1, <1>2, <1>13
  <2>3. CASE j < k
    <3>0. i < k
      BY <2>0, <2>3, <1>6, <1>13
    <3> QED
      BY <2>1, <2>2, <2>3, <3>0, <1>a
  <2>4. CASE ~(i < k)
    <3>0. ~(j < k)
      BY <2>0, <2>4, <1>6, <1>13
    <3>1. u[i] = (a - y) + len /\ u[j] = (b - y) + len
      BY <2>1, <2>4, <3>0, <1>a
    <3>2. (a - y) + len <= (b - y) + len
      BY ONLY a \in Nat, b \in Nat, y \in Nat, len \in Nat, <2>2, KeepsOrder
    <3> QED
      BY ONLY <3>1, <3>2
  <2>5. CASE i < k /\ ~(j < k)
    <3>1. u[i] = a /\ u[j] = (b - y) + len
      BY <2>1, <2>5, <1>a
    <3>2. i <= k - 1 /\ k <= j
      BY <2>0, <2>5, <1>6
    <3>3. a <= c
      BY <3>2, <2>1, <1>2, <1>6
    <3>4. d <= b /\ d = c + y
      BY <3>2, <2>1, <1>2, <1>6, <1>7
    <3>5. c + y <= b
      BY <3>4
    <3>6. a <= (b - y) + len
      BY <3>3, <3>5, <2>1, <1>5, Replaced
    <3> QED
      BY <3>1, <3>6
  <2> QED
    BY <2>3, <2>4, <2>5
<1>14. (n - y) + len \in Nat /\ SumsTo(t, (n - y) + len)
  <2>1. (n - y) + len \in Nat
    BY <1>6, <1>10, <1>11
  <2> QED
    BY <2>1, <1>4, <1>10, <1>11, <1>12, <1>13 DEF SumsTo
<1> QED
  BY <1>1, <1>4, <1>5, <1>14 DEF t

\* One more chunk (daemon/files.rs 1126-1140).
LEMMA AppendSums ==
    ASSUME NEW s \in Seq(Nat), NEW n \in Nat, SumsTo(s, n), NEW len \in Nat
    PROVE  /\ Append(s, len) \in Seq(Nat) /\ Len(Append(s, len)) = Len(s) + 1
           /\ SumsTo(Append(s, len), n + len)
<1> DEFINE t == Append(s, len)
<1>1. PICK m \in Nat : m = Len(s)
  BY LenProperties
<1>2. /\ t \in Seq(Nat) /\ Len(t) = m + 1 /\ t[m + 1] = len /\ \A j \in 1..m : t[j] = s[j]
  BY <1>1, AppendProperties
<1> HIDE DEF t
<1>3. PICK sum \in [0..m -> Nat] :
        /\ sum[0] = 0 /\ sum[m] = n
        /\ \A j \in 1..m : sum[j] = sum[j - 1] + s[j]
        /\ \A i, j \in 0..m : i <= j => sum[i] <= sum[j]
  BY <1>1 DEF SumsTo
<1> DEFINE u == [j \in 0..(m + 1) |-> IF j <= m THEN sum[j] ELSE n + len]
<1>4. /\ u \in [0..(m + 1) -> Nat] /\ u[0] = 0 /\ u[m + 1] = n + len
      /\ \A j \in 0..m : u[j] = sum[j] /\ sum[j] \in Nat
  BY <1>3
<1> HIDE DEF u
<1>5. ASSUME NEW j \in 1..(m + 1) PROVE u[j] = u[j - 1] + t[j]
  <2>1. CASE j \in 1..m
    <3>1. j \in 0..m /\ j - 1 \in 0..m
      BY <2>1
    <3> QED
      BY <2>1, <3>1, <1>2, <1>3, <1>4
  <2>2. CASE j = m + 1
    <3>1. j - 1 = m /\ m \in 0..m
      BY <2>2
    <3> QED
      BY <2>2, <3>1, <1>2, <1>3, <1>4
  <2> QED
    BY <2>1, <2>2
<1>6. ASSUME NEW i \in 0..(m + 1), NEW j \in 0..(m + 1), i <= j PROVE u[i] <= u[j]
  <2>1. CASE j \in 0..m
    <3>1. i \in 0..m
      BY <2>1, <1>6
    <3> QED
      BY <2>1, <3>1, <1>3, <1>4, <1>6
  <2>2. CASE j = m + 1 /\ i \in 0..m
    <3>1. u[i] <= n /\ u[i] \in Nat
      BY <2>2, <1>3, <1>4
    <3> QED
      BY <2>2, <3>1, <1>4
  <2>3. CASE j = m + 1 /\ i = m + 1
    BY <2>3, <1>4
  <2> QED
    BY <2>1, <2>2, <2>3
<1>7. SumsTo(t, n + len)
  BY <1>2, <1>4, <1>5, <1>6 DEF SumsTo
<1> QED
  BY <1>1, <1>2, <1>7 DEF t

\* A message that is not there holds nothing.
LEMMA NoneCounts == Counts(Frames!None) /\ Len(Frames!None.chunks) = 0 /\ Frames!None.expected = 0
<1>1. <<>> \in Seq(Nat) /\ Len(<<>>) = 0
  BY EmptySeq
<1>2. SumsTo(<<>>, 0)
  <2> DEFINE u == [j \in 0..0 |-> 0]
  <2>1. u \in [0..0 -> Nat] /\ u[0] = 0 /\ \A j \in 0..0 : j = 0
    OBVIOUS
  <2>2. \A j \in 1..0 : FALSE
    OBVIOUS
  <2> HIDE DEF u
  <2> QED
    BY <1>1, <2>1, <2>2 DEF SumsTo
<1>3. Frames!None = [expected |-> 0, chunks |-> <<>>, received |-> 0]
  BY DEF Frames!None
<1>4. 0 <= MaxBytes
  BY FramesAssumption DEF Frames!FramesAssumption
<1> QED
  BY <1>1, <1>2, <1>3, <1>4 DEF Counts, Buffers

\* One message of the table changes.
LEMMA OneMessage ==
    ASSUME FramesInv, NEW i \in MsgIds, NEW b, Counts(b),
           \/ messages' = [messages EXCEPT ![i] = b] /\ transfers' = transfers /\ Len(b.chunks) = b.expected
           \/ transfers' = [transfers EXCEPT ![i] = b] /\ messages' = messages
    PROVE  FramesInv'
<1>1. CASE messages' = [messages EXCEPT ![i] = b] /\ transfers' = transfers /\ Len(b.chunks) = b.expected
  <2>1. DOMAIN messages' = MsgIds /\ messages' = [j \in MsgIds |-> messages'[j]]
    BY <1>1 DEF FramesInv
  <2>2. \A j \in MsgIds : messages'[j] = IF j = i THEN b ELSE messages[j]
    BY <1>1 DEF FramesInv
  <2> QED
    BY <1>1, <2>1, <2>2 DEF FramesInv
<1>2. CASE transfers' = [transfers EXCEPT ![i] = b] /\ messages' = messages
  <2>1. DOMAIN transfers' = MsgIds /\ transfers' = [j \in MsgIds |-> transfers'[j]]
    BY <1>2 DEF FramesInv
  <2>2. \A j \in MsgIds : transfers'[j] = IF j = i THEN b ELSE transfers[j]
    BY <1>2 DEF FramesInv
  <2> QED
    BY <1>2, <2>1, <2>2 DEF FramesInv
<1> QED
  BY <1>1, <1>2

\* Every frame, end, cancellation and timeout keeps the counters.
LEMMA FramesStep == FramesInv /\ [Frames!Next]_(Frames!vars) => FramesInv'
<1> SUFFICES ASSUME FramesInv, [Frames!Next]_(Frames!vars) PROVE FramesInv'
  OBVIOUS
<1>0. MaxChunks \in Nat /\ MaxBytes \in Nat
  BY FramesAssumption DEF Frames!FramesAssumption
<1>u. ASSUME UNCHANGED <<messages, transfers>> PROVE FramesInv'
  BY <1>u DEF FramesInv
<1>1. ASSUME NEW i \in MsgIds, NEW n \in 0..(MaxChunks + 1), Frames!FramedStart(i, n) PROVE FramesInv'
  <2>1. PICK b : b = [expected |-> n, chunks |-> [k \in 1..n |-> 0], received |-> 0]
    OBVIOUS
  <2>2. messages' = [messages EXCEPT ![i] = b] /\ transfers' = transfers /\ n \in Nat
    BY <1>1, <2>1, <1>0 DEF Frames!FramedStart
  <2>3. PICK z : z = [k \in 1..n |-> 0]
    OBVIOUS
  <2>4. z \in Seq(Nat) /\ Len(z) = n /\ SumsTo(z, 0)
    BY <2>2, <2>3, ZeroSums
  <2>5. b = [expected |-> n, chunks |-> z, received |-> 0]
    BY <2>1, <2>3
  <2>6. b \in Buffers /\ b.chunks = z /\ b.received = 0 /\ b.expected = n
    BY <2>2, <2>4, <2>5 DEF Buffers
  <2>7. Counts(b) /\ Len(b.chunks) = b.expected
    BY <2>2, <2>4, <2>6, <1>0 DEF Counts
  <2> QED
    BY <2>2, <2>7, OneMessage
<1>2. ASSUME NEW i \in MsgIds, NEW n \in 0..(MaxChunks + 1), Frames!TransferStart(i, n) PROVE FramesInv'
  <2>1. PICK b : b = [expected |-> n, chunks |-> <<>>, received |-> 0]
    OBVIOUS
  <2>2. transfers' = [transfers EXCEPT ![i] = b] /\ messages' = messages /\ n \in Nat
    BY <1>2, <2>1, <1>0 DEF Frames!TransferStart
  <2>3. PICK z : z = <<>>
    OBVIOUS
  <2>4. z \in Seq(Nat) /\ Len(z) = 0 /\ SumsTo(z, 0)
    BY <2>3, NoneCounts, EmptySeq DEF Counts, Frames!None
  <2>6. b \in Buffers /\ b.chunks = z /\ b.received = 0 /\ b.expected = n
    BY <2>1, <2>2, <2>3, <2>4 DEF Buffers
  <2>7. Counts(b)
    BY <2>2, <2>4, <2>6, <1>0 DEF Counts
  <2> QED
    BY <2>2, <2>7, OneMessage
<1>3. ASSUME NEW i \in MsgIds, NEW len \in 0..MaxBytes, Frames!TransferChunk(i, len) PROVE FramesInv'
  <2>1. PICK t : t = transfers[i]
    OBVIOUS
  <2>2. /\ Counts(t) /\ t \in Buffers /\ t.chunks \in Seq(Nat) /\ t.received \in Nat /\ t.expected \in Nat
        /\ SumsTo(t.chunks, t.received) /\ len \in Nat
    BY <2>1, <1>0 DEF FramesInv, Counts, Buffers
  <2>3. PICK b : b = IF Len(t.chunks) >= t.expected \/ t.received + len > MaxBytes THEN Frames!None
                     ELSE [t EXCEPT !.chunks = Append(t.chunks, len), !.received = t.received + len]
    OBVIOUS
  <2>4. transfers' = [transfers EXCEPT ![i] = b] /\ messages' = messages
    BY <1>3, <2>1, <2>3 DEF Frames!TransferChunk
  <2>5. CASE b = Frames!None
    BY <2>4, <2>5, NoneCounts, OneMessage
  <2>6. CASE b # Frames!None
    <3>1. PICK z, n : z = Append(t.chunks, len) /\ n = t.received + len
      OBVIOUS
    <3>2. /\ z \in Seq(Nat) /\ Len(z) = Len(t.chunks) + 1 /\ SumsTo(z, n) /\ n \in Nat
          /\ Len(t.chunks) \in Nat
      <4>1. n \in Nat /\ Len(t.chunks) \in Nat
        BY <2>2, <3>1, LenProperties
      <4> QED
        BY <4>1, <2>2, <3>1, AppendSums
    <3>3. b = [t EXCEPT !.chunks = z, !.received = n] /\ ~(Len(t.chunks) >= t.expected) /\ ~(n > MaxBytes)
      BY <2>3, <2>6, <3>1
    <3>4. b \in Buffers /\ b.chunks = z /\ b.received = n /\ b.expected = t.expected
      BY <2>2, <3>2, <3>3 DEF Buffers
    <3>5. n <= MaxBytes /\ Len(z) <= t.expected
      BY <3>2, <3>3, <2>2, <1>0
    <3>6. Counts(b)
      BY <3>2, <3>4, <3>5 DEF Counts
    <3> QED
      BY <2>4, <3>6, OneMessage
  <2> QED
    BY <2>5, <2>6
<1>4. ASSUME NEW i \in MsgIds, NEW len \in 0..MaxBytes, NEW k \in 1..MaxChunks, Frames!FramedChunk(i, k, len)
      PROVE  FramesInv'
  <2>1. PICK t : t = messages[i]
    OBVIOUS
  <2>2. /\ Counts(t) /\ t \in Buffers /\ t.chunks \in Seq(Nat) /\ t.received \in Nat /\ t.expected \in Nat
        /\ SumsTo(t.chunks, t.received) /\ Len(t.chunks) = t.expected /\ len \in Nat
    BY <2>1, <1>0 DEF FramesInv, Counts, Buffers
  <2>3. PICK z, n : z = [t.chunks EXCEPT ![k] = len] /\ n = (t.received - t.chunks[k]) + len
    OBVIOUS
  <2>4. k \in 1..Len(t.chunks)
    BY <1>4, <2>1, <2>2, <1>0 DEF Frames!FramedChunk
  <2>5. n \in Nat /\ z \in Seq(Nat) /\ Len(z) = Len(t.chunks) /\ SumsTo(z, n)
    BY <2>2, <2>3, <2>4, ReplaceSums
  <2>6. PICK b : b = IF n > MaxBytes THEN Frames!None ELSE [t EXCEPT !.chunks = z, !.received = n]
    OBVIOUS
  <2>7. messages' = [messages EXCEPT ![i] = b] /\ transfers' = transfers
    <3>1. n = t.received - t.chunks[k] + len
      BY <2>3
    <3>2. [t EXCEPT !.chunks = z, !.received = n] = [t EXCEPT !.chunks[k] = len, !.received = n]
      BY <2>2, <2>3 DEF Buffers
    <3> QED
      BY <1>4, <2>1, <2>6, <3>1, <3>2 DEF Frames!FramedChunk
  <2>8. CASE n > MaxBytes
    BY <2>6, <2>7, <2>8, NoneCounts, OneMessage
  <2>9. CASE ~(n > MaxBytes)
    <3>1. b = [t EXCEPT !.chunks = z, !.received = n] /\ n <= MaxBytes
      BY <2>6, <2>9, <2>5, <1>0
    <3>2. b \in Buffers /\ b.chunks = z /\ b.received = n /\ b.expected = t.expected
      BY <2>2, <2>5, <3>1 DEF Buffers
    <3>3. Counts(b) /\ Len(b.chunks) = b.expected
      BY <2>2, <2>5, <3>1, <3>2 DEF Counts
    <3> QED
      BY <2>7, <3>3, OneMessage
  <2> QED
    BY <2>8, <2>9
<1>5. ASSUME NEW i \in MsgIds, Frames!FramedEnd(i) \/ Frames!FramedExpires(i) PROVE FramesInv'
  <2>1. messages' = [messages EXCEPT ![i] = Frames!None] /\ transfers' = transfers
    BY <1>5 DEF Frames!FramedEnd, Frames!FramedExpires
  <2> QED
    BY <2>1, NoneCounts, OneMessage
<1>6. ASSUME NEW i \in MsgIds, Frames!TransferEnd(i) \/ Frames!TransferDropped(i) \/ Frames!TransferExpires(i)
      PROVE  FramesInv'
  <2>1. transfers' = [transfers EXCEPT ![i] = Frames!None] /\ messages' = messages
    BY <1>6 DEF Frames!TransferEnd, Frames!TransferDropped, Frames!TransferExpires
  <2> QED
    BY <2>1, NoneCounts, OneMessage
<1>7. CASE UNCHANGED Frames!vars
  BY <1>7, <1>u DEF Frames!vars
<1> QED
  BY <1>1, <1>2, <1>3, <1>4, <1>5, <1>6, <1>7 DEF Frames!Next

\* FramesSound, of MCFileOps: for any number of messages, chunks and bytes, and
\* whichever chunks are sent twice, out of order, too many or too long, the
\* counter that bounds a message in assembly is what its chunks hold, and never
\* exceeds the limit (daemon/files.rs 162-185, 1126-1140).
THEOREM FramesAreSound == Spec => []FramesSound
<1>1. Init => FramesInv
  <2> SUFFICES ASSUME Init PROVE FramesInv
    OBVIOUS
  <2>1. messages = [i \in MsgIds |-> Frames!None] /\ transfers = [i \in MsgIds |-> Frames!None]
    BY DEF Init, Frames!Init, FramesRest
  <2> QED
    BY <2>1, NoneCounts DEF FramesInv
<1>2. FramesInv /\ [Next]_vars => FramesInv'
  <2>1. [Next]_vars => [Frames!Next]_(Frames!vars)
    BY DEF Next, vars, frameVars, Frames!vars
  <2> QED
    BY <2>1, FramesStep
<1>3. FramesInv => FramesSound
  <2> SUFFICES ASSUME FramesInv, NEW i \in MsgIds, NEW b \in {messages[i], transfers[i]}
      PROVE  Frames!AddUpTo(b.chunks, b.received) /\ b.received <= MaxBytes /\ Len(b.chunks) <= b.expected
    BY DEF FramesSound, Frames!BuffersBounded
  <2>1. Counts(b) /\ b.chunks \in Seq(Nat) /\ b.received \in Nat
    BY DEF FramesInv, Counts, Buffers
  <2> QED
    BY <2>1, SumsAddUp DEF Counts
<1> QED
  BY <1>1, <1>2, <1>3, PTL DEF Spec

-----------------------------------------------------------------------------
(* AuditLog: the record on disk, and the pages that a device has read.     *)

\* A name that names a file; how many of the archives up to n there are.
Full(n) == logNames[n] # Audit!NoFile
Filled(names, n) == Cardinality({m \in 1..n : names[m] # Audit!NoFile})

\* The steps of a writer.  p is that of the only one at work.
Steps ==
    {Audit!NoStep, <<"drop", Archives>>, <<"open", 0>>, <<"line", 0>>, <<"newline", 0>>}
        \cup {<<"shift", k>> : k \in 0..(Archives - 1)}
At(p) ==
    \/ p = Audit!NoStep /\ writing = [w \in AuditWriters |-> Audit!NoStep]
    \/ \E w \in AuditWriters :
          /\ p # Audit!NoStep
          /\ writing = [v \in AuditWriters |-> IF v = w THEN p ELSE Audit!NoStep]
          /\ p \in {<<"line", 0>>, <<"newline", 0>>} => logFd[w] = logNames[0]

\* In a rotation the log is full and the name it goes on to is free, unless a
\* failure was ignored; a writer writes to the log.
Shape(p) ==
    /\ p = <<"drop", Archives>> \/ (\E k \in 0..(Archives - 1) : p = <<"shift", k>>) =>
          Full(0) /\ Audit!Lines(Audit!Bytes(0)) >= LogLines
    /\ \A k \in 0..(Archives - 1) : p = <<"shift", k>> => ~Full(k + 1) \/ auditIgnored
    /\ p \in {<<"line", 0>>, <<"newline", 0>>} => Full(0)

LogTypes ==
    /\ logData \in Seq(Seq(Nat))
    /\ logNames \in [Audit!Slots -> 0..Len(logData)]
    /\ \A m, n \in Audit!Slots : m # n /\ Full(m) => logNames[m] # logNames[n]
    /\ lastEvent \in Nat /\ auditFaults \in Nat /\ auditIgnored \in BOOLEAN
    /\ logFd = [w \in AuditWriters |-> logFd[w]]

\* A file that holds the events a..b, in order, each followed by a newline at
\* most.
Holds(s, a, b) ==
    /\ {s[i] : i \in DOMAIN s} \ {Audit!Newline} = a..b
    /\ \A i, j \in DOMAIN s : i < j /\ s[i] # Audit!Newline /\ s[j] # Audit!Newline => s[i] < s[j]
    /\ Audit!Lines(s) + a <= b + 1

\* Slot n holds lo[n]..hi[n], older slots older events.
Ordered(lo, hi) ==
    /\ \A n \in Audit!Slots : Full(n) => Holds(Audit!Bytes(n), lo[n], hi[n])
    /\ \A n \in Audit!Slots : Full(n) => lo[n] >= 1 /\ lo[n] <= hi[n] + 1 /\ hi[n] <= lastEvent
    /\ \A n \in Audit!Slots : Full(n) /\ n # 0 => lo[n] <= hi[n]
    /\ Full(0) => hi[0] = lastEvent
    /\ \A m, n \in Audit!Slots : m < n /\ Full(m) /\ Full(n) => hi[n] < lo[m]

\* Nothing is missing from low on.
Covered(lo, hi, low) ==
    /\ low >= 1 /\ low <= lastEvent + 1 /\ (lastEvent > 0 => low <= lastEvent)
    /\ \A n \in Audit!Slots : Full(n) => low <= lo[n]
    /\ \A e \in low..lastEvent : \E n \in Audit!Slots : Full(n) /\ e \in lo[n]..hi[n]

\* A rotation that is under way leaves one name free.
Bit(p, n) == IF \E k \in 0..(Archives - 1) : p = <<"shift", k>> /\ n > k + 1 THEN 1 ELSE 0

\* The archives are full files, and between those that are there, or before an
\* event that is lost, as many are missing as there were failures.
Top(lo) == IF Full(0) THEN lo[0] ELSE lastEvent + 1
Sized(p, lo, low) ==
    /\ \A n \in 1..Archives : Full(n) => lo[n] + LogLines * Filled(logNames, n) <= Top(lo)
    /\ \A n \in 1..Archives : Full(n) => Filled(logNames, n - 1) + auditFaults + Bit(p, n) >= n - 1
    /\ low > 1 => Filled(logNames, Archives) + auditFaults + Bit(p, Archives + 1) >= Archives

Record(p, lo, hi, low) ==
    /\ Ordered(lo, hi) /\ (~auditIgnored => Covered(lo, hi, low) /\ Sized(p, lo, low))
    /\ p = <<"newline", 0>> => Audit!Lines(Audit!Bytes(0)) + lo[0] <= hi[0]

LogInv ==
    /\ LogTypes
    /\ \E p \in Steps : At(p) /\ Shape(p)
          /\ \E lo \in [Audit!Slots -> Nat], hi \in [Audit!Slots -> Nat], low \in Nat : Record(p, lo, hi, low)

\* What a device has read goes back from one event to the next.
PagesInv ==
    /\ shown \in Seq(Nat) /\ \A i \in 1..Len(shown) : shown[i] <= lastEvent
    /\ olderThan = IF shown = <<>> THEN EventMax + 1 ELSE shown[Len(shown)]
    /\ Audit!PagesGapFree

-----------------------------------------------------------------------------

\* The constants and their bounds.
LEMMA AuditConstants ==
    /\ LogLines \in Nat /\ LogLines >= 1 /\ Archives \in Nat /\ Archives >= 1
    /\ EventMax \in Nat /\ PageLimit \in Nat
    /\ Audit!Slots = 0..Archives /\ Audit!NoFile = 0 /\ Audit!Newline = 0
    /\ Audit!NoStep = <<"idle", 0>>
BY AuditAssumption DEF Audit!AuditAssumption, Audit!Slots, Audit!NoFile, Audit!Newline, Audit!NoStep

\* One archive more is one more file: products of the sizes.
LEMMA TimesOneMore == \A a, b \in Nat : a * (b + 1) = a * b + a /\ a * b \in Nat
OBVIOUS

\* The lines of a file to which something is appended (audit.rs 127-128).
LEMMA LinesAppend ==
    ASSUME NEW s \in Seq(Nat), NEW b \in Nat
    PROVE  /\ Audit!Lines(s) \in Nat
           /\ Audit!Lines(Append(s, b)) = IF b = Audit!Newline THEN Audit!Lines(s) + 1 ELSE Audit!Lines(s)
<1> DEFINE L(t) == {i \in DOMAIN t : t[i] = Audit!Newline}
<1>1. \A t : Audit!Lines(t) = Cardinality(L(t))
  BY DEF Audit!Lines, Audit!Cardinality, Cardinality
<1>2. PICK n \in Nat : n = Len(s) /\ DOMAIN s = 1..n
  BY LenProperties
<1>3. IsFiniteSet(L(s))
  <2>1. IsFiniteSet(1..n) /\ L(s) \subseteq 1..n
    BY <1>2, FS_Interval
  <2> QED
    BY <2>1, FS_Subset
<1>4. /\ DOMAIN Append(s, b) = 1..(n + 1) /\ Append(s, b)[n + 1] = b
      /\ \A i \in 1..n : Append(s, b)[i] = s[i]
  BY <1>2, AppendProperties, LenProperties
<1>5. CASE b = Audit!Newline
  <2>1. L(Append(s, b)) = L(s) \cup {n + 1}
    BY <1>2, <1>4, <1>5
  <2>2. n + 1 \notin L(s)
    BY <1>2
  <2>3. Cardinality(L(s) \cup {n + 1}) = Cardinality(L(s)) + 1 /\ Cardinality(L(s)) \in Nat
    BY <1>3, <2>2, FS_AddElement, FS_CardinalityType
  <2> QED
    BY <1>1, <1>5, <2>1, <2>3
<1>6. CASE b # Audit!Newline
  <2>1. L(Append(s, b)) = L(s)
    BY <1>2, <1>4, <1>6
  <2> QED
    BY <1>1, <1>3, <1>6, <2>1, FS_CardinalityType
<1> QED
  BY <1>5, <1>6

\* A new file has no lines.
LEMMA LinesEmpty == Audit!Lines(<<>>) = 0
<1>1. {i \in DOMAIN <<>> : <<>>[i] = Audit!Newline} = {}
  OBVIOUS
<1> QED
  BY <1>1, FS_EmptySet DEF Audit!Lines, Audit!Cardinality, Cardinality

\* Counting archives.
LEMMA FilledFacts ==
    ASSUME NEW names, NEW n \in Nat
    PROVE  /\ IsFiniteSet({m \in 1..n : names[m] # Audit!NoFile})
           /\ Filled(names, n) \in Nat
<1>1. IsFiniteSet({m \in 1..n : names[m] # Audit!NoFile})
  <2>1. IsFiniteSet(1..n) /\ {m \in 1..n : names[m] # Audit!NoFile} \subseteq 1..n
    BY FS_Interval
  <2> QED
    BY <2>1, FS_Subset
<1> QED
  BY <1>1, FS_CardinalityType DEF Filled

\* The same archives are there.
LEMMA FilledSame ==
    ASSUME NEW names, NEW other, NEW n \in Nat,
           \A m \in 1..n : names[m] = Audit!NoFile <=> other[m] = Audit!NoFile
    PROVE  Filled(names, n) = Filled(other, n)
<1>1. {m \in 1..n : names[m] # Audit!NoFile} = {m \in 1..n : other[m] # Audit!NoFile}
  OBVIOUS
<1> QED
  BY <1>1 DEF Filled

\* One archive more.
LEMMA FilledMore ==
    ASSUME NEW names, NEW other, NEW n \in Nat, NEW k \in 1..n,
           names[k] = Audit!NoFile, other[k] # Audit!NoFile,
           \A m \in 1..n : m # k => (names[m] = Audit!NoFile <=> other[m] = Audit!NoFile)
    PROVE  Filled(other, n) = Filled(names, n) + 1
<1> DEFINE N == {m \in 1..n : names[m] # Audit!NoFile}
           M == {m \in 1..n : other[m] # Audit!NoFile}
<1>1. M = N \cup {k} /\ k \notin N
  OBVIOUS
<1>2. IsFiniteSet(N)
  BY FilledFacts
<1> QED
  BY <1>1, <1>2, FS_AddElement DEF Filled

\* The archive k moves to k + 1, if it is there.
LEMMA FilledMoves ==
    ASSUME NEW names, NEW other, NEW n \in Nat, NEW k \in 1..n, k + 1 <= n,
           names[k] # Audit!NoFile, names[k + 1] = Audit!NoFile,
           other[k] = Audit!NoFile, other[k + 1] # Audit!NoFile,
           \A m \in 1..n : m # k /\ m # k + 1 => (names[m] = Audit!NoFile <=> other[m] = Audit!NoFile)
    PROVE  Filled(other, n) = Filled(names, n)
<1>1. PICK z : z = [m \in 1..n |-> IF m = k \/ m = k + 1 THEN Audit!NoFile ELSE names[m]]
  OBVIOUS
<1>2. k + 1 \in 1..n /\ k # k + 1
  OBVIOUS
<1>3. z[k] = Audit!NoFile /\ z[k + 1] = Audit!NoFile
  BY <1>1, <1>2
<1>4. \A m \in 1..n : m # k /\ m # k + 1 => z[m] = names[m]
  BY <1>1
<1>5. Filled(names, n) = Filled(z, n) + 1
  BY <1>2, <1>3, <1>4, FilledMore
<1>6. Filled(other, n) = Filled(z, n) + 1
  <2>1. \A m \in 1..n : m # k + 1 => (z[m] = Audit!NoFile <=> other[m] = Audit!NoFile)
    BY <1>3, <1>4
  <2> QED
    BY <1>2, <1>3, <2>1, FilledMore
<1> QED
  BY <1>5, <1>6

\* The last archive is counted, or not.
LEMMA FilledLast ==
    ASSUME NEW names, NEW n \in Nat, n >= 1
    PROVE  Filled(names, n) = IF names[n] # Audit!NoFile THEN Filled(names, n - 1) + 1 ELSE Filled(names, n - 1)
<1> DEFINE N == {m \in 1..(n - 1) : names[m] # Audit!NoFile}
           M == {m \in 1..n : names[m] # Audit!NoFile}
<1>1. M = IF names[n] # Audit!NoFile THEN N \cup {n} ELSE N
  OBVIOUS
<1>2. IsFiniteSet(N) /\ n \notin N
  BY FilledFacts
<1> QED
  BY <1>1, <1>2, FS_AddElement DEF Filled

\* What is readable of a file to which something is appended.
LEMMA ReadableAppend ==
    ASSUME NEW s \in Seq(Nat), NEW b \in Nat, NEW k \in Audit!Readable(Append(s, b))
    PROVE  \/ k = Len(s) + 1 /\ Append(s, b)[k] = b /\ b # Audit!Newline
           \/ k \in Audit!Readable(s) /\ Append(s, b)[k] = s[k]
<1>1. PICK n \in Nat : n = Len(s) /\ DOMAIN s = 1..n
  BY LenProperties
<1>2. PICK t : t = Append(s, b)
  OBVIOUS
<1>3. /\ DOMAIN t = 1..(n + 1) /\ t[n + 1] = b /\ Len(t) = n + 1
      /\ \A i \in 1..n : t[i] = s[i]
  BY <1>1, <1>2, AppendProperties, LenProperties
<1>4. /\ k \in 1..(n + 1) /\ t[k] # Audit!Newline
      /\ k = 1 \/ t[k - 1] = Audit!Newline
      /\ k = n + 1 \/ t[k + 1] = Audit!Newline
  BY <1>2, <1>3 DEF Audit!Readable
<1>5. CASE k = n + 1
  BY <1>1, <1>2, <1>3, <1>4, <1>5
<1>6. CASE k # n + 1
  <2>1. k \in 1..n /\ (k # 1 => k - 1 \in 1..n) /\ (k # n => k + 1 \in 1..n)
    BY <1>4, <1>6
  <2>2. k \in Audit!Readable(s)
    BY <2>1, <1>1, <1>3, <1>4, <1>6 DEF Audit!Readable
  <2> QED
    BY <2>1, <2>2, <1>2, <1>3
<1> QED
  BY <1>5, <1>6

\* The steps of one writer; the others rest.
LEMMA Alone ==
    ASSUME NEW p \in Steps, At(p), NEW w \in AuditWriters, writing[w] # Audit!NoStep
    PROVE  /\ p = writing[w] /\ p # Audit!NoStep
           /\ writing = [v \in AuditWriters |-> IF v = w THEN p ELSE Audit!NoStep]
           /\ p \in {<<"line", 0>>, <<"newline", 0>>} => logFd[w] = logNames[0]
BY DEF At

\* Where it goes on from there.
LEMMA GoesOn ==
    ASSUME NEW p, NEW q, NEW w \in AuditWriters,
           writing = [v \in AuditWriters |-> IF v = w THEN p ELSE Audit!NoStep],
           Audit!Goes(w, q), q \in {<<"line", 0>>, <<"newline", 0>>} => logFd'[w] = logNames'[0]
    PROVE  At(q)'
<1>1. writing' = [v \in AuditWriters |-> IF v = w THEN q ELSE Audit!NoStep]
  BY DEF Audit!Goes
<1>2. CASE q = Audit!NoStep
  <2>1. writing' = [v \in AuditWriters |-> Audit!NoStep]
    BY <1>1, <1>2
  <2> QED
    BY <2>1, <1>2 DEF At
<1>3. CASE q # Audit!NoStep
  BY <1>1, <1>3 DEF At
<1> QED
  BY <1>2, <1>3

\* What names and files are.
LEMMA BytesType ==
    ASSUME LogTypes, NEW n \in Audit!Slots
    PROVE  /\ Audit!Bytes(n) \in Seq(Nat)
           /\ Full(n) => logNames[n] \in 1..Len(logData) /\ Audit!Bytes(n) = logData[logNames[n]]
           /\ ~Full(n) => Audit!Bytes(n) = <<>>
<1>1. PICK d \in Nat : d = Len(logData) /\ DOMAIN logData = 1..d
  BY LenProperties DEF LogTypes
<1>2. logNames[n] \in 0..d
  BY <1>1 DEF LogTypes
<1>3. \A i \in 1..d : logData[i] \in Seq(Nat)
  BY <1>1, ElementOfSeq DEF LogTypes
<1>4. <<>> \in Seq(Nat)
  OBVIOUS
<1> QED
  BY <1>1, <1>2, <1>3, <1>4, AuditConstants DEF Full, Audit!Bytes

\* The step of a writer sets Bit only in the middle of a rotation.
LEMMA BitFacts ==
    /\ \A p, n : Bit(p, n) \in {0, 1}
    /\ \A n : Bit(Audit!NoStep, n) = 0 /\ Bit(<<"drop", Archives>>, n) = 0 /\ Bit(<<"open", 0>>, n) = 0
              /\ Bit(<<"line", 0>>, n) = 0 /\ Bit(<<"newline", 0>>, n) = 0
    /\ \A k \in 0..(Archives - 1) : \A n \in Nat : Bit(<<"shift", k>>, n) = IF n > k + 1 THEN 1 ELSE 0
BY AuditConstants DEF Bit

\* Files that stay as they are, and a writer that gets on or gives up.
LEMMA FilesStay ==
    ASSUME LogTypes, NEW p, NEW q, NEW lo, NEW hi, NEW low, Record(p, lo, hi, low),
           UNCHANGED <<logNames, logData, lastEvent>>, auditFaults' \in Nat,
           \A n \in 1..(Archives + 1) : auditFaults + Bit(p, n) <= auditFaults' + Bit(q, n),
           q # <<"newline", 0>>, auditIgnored => auditIgnored'
    PROVE  Record(q, lo, hi, low)'
<1>1. \A n : Full(n)' <=> Full(n)
  BY DEF Full
<1>2. \A n : Audit!Bytes(n)' = Audit!Bytes(n)
  BY DEF Audit!Bytes
<1>3. Ordered(lo, hi)'
  BY <1>1, <1>2 DEF Record, Ordered
<1>4. ~auditIgnored => Covered(lo, hi, low)'
  BY <1>1 DEF Record, Covered
<1>5. Top(lo)' = Top(lo)
  BY <1>1 DEF Top
<1>6. ~auditIgnored => Sized(q, lo, low)'
  <2> SUFFICES ASSUME ~auditIgnored PROVE Sized(q, lo, low)'
    OBVIOUS
  <2>1. \A n \in 1..Archives : Full(n)' => (lo[n] + LogLines * Filled(logNames, n) <= Top(lo))'
    BY <1>1, <1>5 DEF Record, Sized
  <2>2. \A n \in 1..Archives : Full(n)' => Filled(logNames', n - 1) + auditFaults' + Bit(q, n) >= n - 1
    <3> SUFFICES ASSUME NEW n \in 1..Archives, Full(n) PROVE Filled(logNames, n - 1) + auditFaults' + Bit(q, n) >= n - 1
      BY <1>1
    <3>1. Filled(logNames, n - 1) + auditFaults + Bit(p, n) >= n - 1
      BY DEF Record, Sized
    <3>2. n \in 1..(Archives + 1) /\ n - 1 \in Nat
      BY AuditConstants
    <3>3. PICK f \in Nat : f = Filled(logNames, n - 1)
      BY <3>2, FilledFacts
    <3>4. PICK b \in {0, 1}, c \in {0, 1} : b = Bit(p, n) /\ c = Bit(q, n)
      BY BitFacts
    <3>5. f + auditFaults + b >= n - 1 /\ auditFaults + b <= auditFaults' + c
      BY <3>1, <3>2, <3>3, <3>4
    <3>6. f + auditFaults' + c >= n - 1
      BY <3>5 DEF LogTypes
    <3> QED
      BY <3>3, <3>4, <3>6
  <2>3. low > 1 => Filled(logNames, Archives) + auditFaults' + Bit(q, Archives + 1) >= Archives
    <3> SUFFICES ASSUME low > 1 PROVE Filled(logNames, Archives) + auditFaults' + Bit(q, Archives + 1) >= Archives
      OBVIOUS
    <3>1. Filled(logNames, Archives) + auditFaults + Bit(p, Archives + 1) >= Archives
      BY DEF Record, Sized
    <3>2. Archives + 1 \in 1..(Archives + 1)
      BY AuditConstants
    <3>3. PICK f \in Nat : f = Filled(logNames, Archives)
      BY AuditConstants, FilledFacts
    <3>4. PICK b \in {0, 1}, c \in {0, 1} : b = Bit(p, Archives + 1) /\ c = Bit(q, Archives + 1)
      BY BitFacts
    <3>5. f + auditFaults + b >= Archives /\ auditFaults + b <= auditFaults' + c
      BY <3>1, <3>2, <3>3, <3>4
    <3>6. f + auditFaults' + c >= Archives
      BY <3>5, AuditConstants DEF LogTypes
    <3> QED
      BY <3>3, <3>4, <3>6
  <2> QED
    BY <2>1, <2>2, <2>3 DEF Sized
<1> QED
  BY <1>3, <1>4, <1>6 DEF Record

\* A log that has its lines is there, and holds as many events at least.
LEMMA LogLong ==
    ASSUME LogTypes, NEW p, NEW lo \in [Audit!Slots -> Nat], NEW hi \in [Audit!Slots -> Nat], NEW low,
           Record(p, lo, hi, low), Audit!Lines(Audit!Bytes(0)) >= LogLines
    PROVE  Full(0) /\ lo[0] + LogLines <= lastEvent + 1 /\ lo[0] <= lastEvent /\ hi[0] = lastEvent
<1>1. 0 \in Audit!Slots /\ LogLines \in Nat /\ LogLines >= 1
  BY AuditConstants
<1>2. Audit!Bytes(0) \in Seq(Nat)
  BY <1>1, BytesType
<1>3. PICK l \in Nat : l = Audit!Lines(Audit!Bytes(0))
  BY <1>2, LinesAppend
<1>4. Full(0)
  <2> SUFFICES ASSUME ~Full(0) PROVE FALSE
    OBVIOUS
  <2>1. l = 0
    BY <1>1, <1>3, BytesType, LinesEmpty
  <2> QED
    BY <2>1, <1>1, <1>3
<1>5. hi[0] = lastEvent /\ l + lo[0] <= hi[0] + 1
  BY <1>1, <1>3, <1>4 DEF Record, Ordered, Holds
<1>6. lo[0] \in Nat /\ lastEvent \in Nat
  BY <1>1 DEF LogTypes
<1> QED
  BY <1>1, <1>3, <1>4, <1>5, <1>6

\* The oldest archive is removed, and what it held is the newest that is lost
\* (audit.rs 269-273).
LEMMA OldestDropped ==
    ASSUME LogTypes, NEW lo \in [Audit!Slots -> Nat], NEW hi \in [Audit!Slots -> Nat], NEW low \in Nat,
           NEW p, NEW q, p = <<"drop", Archives>>, q = <<"shift", Archives - 1>>,
           Record(p, lo, hi, low), Shape(p),
           logNames' = [logNames EXCEPT ![Archives] = Audit!NoFile],
           UNCHANGED <<logData, lastEvent, auditFaults, auditIgnored>>
    PROVE  \E l \in Nat : Record(q, lo, hi, l)'
<1>0. PICK B \in Nat :
      /\ B = Archives - 1 /\ Archives = B + 1 /\ Archives \in Nat /\ Archives >= 1
      /\ Audit!Slots = 0..Archives /\ Audit!NoFile = 0 /\ 0 \in 0..Archives /\ Archives \in 0..Archives
  BY AuditConstants
<1>1. \A n \in 0..Archives : n # Archives => logNames'[n] = logNames[n]
  BY <1>0 DEF LogTypes
<1>2. logNames'[Archives] = 0
  BY <1>0 DEF LogTypes
<1>3. \A n \in 1..(Archives + 1) : Bit(p, n) = 0 /\ Bit(q, n) = IF n > Archives THEN 1 ELSE 0
  BY <1>0 DEF Bit
<1>4. CASE ~Full(Archives)
  <2>1. logNames' = logNames
    BY <1>0, <1>4 DEF LogTypes, Full
  <2>2. auditFaults' \in Nat
    BY DEF LogTypes
  <2>3. \A n \in 1..(Archives + 1) : auditFaults + Bit(p, n) <= auditFaults' + Bit(q, n)
    <3> SUFFICES ASSUME NEW n \in 1..(Archives + 1) PROVE auditFaults + Bit(p, n) <= auditFaults' + Bit(q, n)
      OBVIOUS
    <3>1. Bit(p, n) = 0 /\ Bit(q, n) \in {0, 1}
      BY <1>3
    <3> QED
      BY <3>1, <2>2
  <2>4. Record(q, lo, hi, low)'
    BY <2>1, <2>2, <2>3, FilesStay
  <2> QED
    BY <2>4
<1>5. CASE Full(Archives)
  <2>1. /\ \A n \in 0..Archives : Full(n)' <=> Full(n) /\ n # Archives
        /\ \A n \in 0..Archives : n # Archives => Audit!Bytes(n)' = Audit!Bytes(n)
    BY <1>0, <1>1, <1>2 DEF Full, Audit!Bytes
  <2>2. PICK x \in Nat, y \in Nat, z \in Nat, e \in Nat : x = lo[0] /\ y = hi[Archives] /\ z = lo[Archives] /\ e = lastEvent
    BY <1>0 DEF LogTypes
  <2>3. Full(0) /\ x + LogLines <= e + 1 /\ x <= e /\ hi[0] = e
    <3>1. Audit!Lines(Audit!Bytes(0)) >= LogLines
      BY DEF Shape
    <3> QED
      BY <2>2, <3>1, LogLong
  <2>4. y < x /\ z <= y + 1 /\ (~auditIgnored => low <= z)
    BY <1>0, <1>5, <2>2, <2>3 DEF Record, Ordered, Covered
  <2>5. Ordered(lo, hi)'
    BY <1>0, <2>1 DEF Record, Ordered
  <2>6. ~auditIgnored => Covered(lo, hi, y + 1)'
    <3> SUFFICES ASSUME ~auditIgnored PROVE Covered(lo, hi, y + 1)'
      OBVIOUS
    <3>1. y + 1 >= 1 /\ y + 1 <= e /\ y + 1 <= e + 1 /\ lastEvent' = e
      BY <2>2, <2>3, <2>4
    <3>2. \A n \in 0..Archives : Full(n)' => y + 1 <= lo[n]
      <4> SUFFICES ASSUME NEW n \in 0..Archives, Full(n), n # Archives PROVE y + 1 <= lo[n]
        BY <2>1
      <4>1. n < Archives
        BY <1>0
      <4>2. hi[Archives] < lo[n]
        BY <4>1, <1>0, <1>5 DEF Record, Ordered
      <4> QED
        BY <4>2, <2>2, <1>0
    <3>3. \A d \in (y + 1)..e : \E n \in 0..Archives : Full(n)' /\ d \in lo[n]..hi[n]
      <4> SUFFICES ASSUME NEW d \in (y + 1)..e PROVE \E n \in 0..Archives : Full(n)' /\ d \in lo[n]..hi[n]
        OBVIOUS
      <4>1. d \in low..e
        BY <2>4
      <4>2. PICK n \in 0..Archives : Full(n) /\ d \in lo[n]..hi[n]
        BY <4>1, <2>2, <1>0 DEF Record, Covered
      <4>3. n # Archives
        BY <4>2, <2>2
      <4> QED
        BY <4>2, <4>3, <2>1
    <3> QED
      BY <3>1, <3>2, <3>3, <1>0 DEF Covered
  <2>7. \A n \in 0..B : Filled(logNames', n) = Filled(logNames, n)
    <3> SUFFICES ASSUME NEW n \in 0..B PROVE Filled(logNames', n) = Filled(logNames, n)
      OBVIOUS
    <3>1. n \in Nat /\ \A m \in 1..n : logNames'[m] = Audit!NoFile <=> logNames[m] = Audit!NoFile
      BY <1>0, <1>1
    <3> QED
      BY <3>1, FilledSame
  <2>8. ~auditIgnored => Sized(q, lo, y + 1)'
    <3> SUFFICES ASSUME ~auditIgnored PROVE Sized(q, lo, y + 1)'
      OBVIOUS
    <3>1. Top(lo)' = Top(lo)
      BY <2>1, <1>0 DEF Top
    <3>2. \A n \in 1..Archives : Full(n)' => (lo[n] + LogLines * Filled(logNames, n) <= Top(lo))'
      <4> SUFFICES ASSUME NEW n \in 1..Archives, Full(n)' PROVE lo[n] + LogLines * Filled(logNames', n) <= Top(lo)'
        OBVIOUS
      <4>1. n \in 0..B /\ Full(n)
        BY <2>1, <1>0
      <4> QED
        BY <4>1, <2>7, <3>1 DEF Record, Sized
    <3>3. \A n \in 1..Archives : Full(n)' => Filled(logNames', n - 1) + auditFaults' + Bit(q, n) >= n - 1
      <4> SUFFICES ASSUME NEW n \in 1..Archives, Full(n)' PROVE Filled(logNames', n - 1) + auditFaults' + Bit(q, n) >= n - 1
        OBVIOUS
      <4>1. n \in 0..B /\ n - 1 \in 0..B /\ n \in 1..(Archives + 1) /\ ~(n > Archives) /\ Full(n)
        BY <2>1, <1>0
      <4>2. Filled(logNames, n - 1) + auditFaults + Bit(p, n) >= n - 1
        BY <4>1 DEF Record, Sized
      <4>3. Bit(p, n) = 0 /\ Bit(q, n) = 0
        BY <4>1, <1>3
      <4> QED
        BY <4>1, <4>2, <4>3, <2>7
    <3>4. Filled(logNames', Archives) + auditFaults' + Bit(q, Archives + 1) >= Archives
      <4>1. Filled(logNames', Archives) = Filled(logNames, B)
        <5>1. Filled(logNames', Archives) = Filled(logNames', Archives - 1)
          BY <1>0, <1>2, FilledLast
        <5>2. Archives - 1 = B /\ B \in 0..B
          BY <1>0
        <5> QED
          BY <5>1, <5>2, <2>7
      <4>2. Filled(logNames, B) + auditFaults + Bit(p, Archives) >= B
        <5>1. Archives \in 1..Archives /\ Archives - 1 = B
          BY <1>0
        <5> QED
          BY <5>1, <1>5 DEF Record, Sized
      <4>3. Bit(p, Archives) = 0 /\ Bit(q, Archives + 1) = 1
        <5>1. Archives \in 1..(Archives + 1) /\ Archives + 1 \in 1..(Archives + 1) /\ ~(Archives > Archives) /\ Archives + 1 > Archives
          BY <1>0
        <5> QED
          BY <5>1, <1>3
      <4>4. PICK f \in Nat, g \in Nat : f = Filled(logNames, B) /\ g = auditFaults /\ g = auditFaults'
        BY <1>0, FilledFacts DEF LogTypes
      <4>5. f + g + 0 >= B
        BY <4>2, <4>3, <4>4
      <4>6. f + g + 1 >= Archives
        BY <4>5, <1>0
      <4> QED
        BY <4>1, <4>3, <4>4, <4>6
    <3> QED
      BY <3>2, <3>3, <3>4 DEF Sized
  <2>9. Record(q, lo, hi, y + 1)'
    BY <2>5, <2>6, <2>8 DEF Record
  <2> QED
    BY <2>9
<1> QED
  BY <1>4, <1>5

\* An archive, or the log itself, takes the next name, and the order of the
\* files stays (audit.rs 276-288).
LEMMA FileMoved ==
    ASSUME LogTypes, NEW lo \in [Audit!Slots -> Nat], NEW hi \in [Audit!Slots -> Nat], NEW low \in Nat,
           Ordered(lo, hi), NEW k \in 0..(Archives - 1), Full(k), lo[k] <= hi[k],
           logNames' = [logNames EXCEPT ![k + 1] = logNames[k], ![k] = Audit!NoFile],
           UNCHANGED <<logData, lastEvent, auditFaults, auditIgnored, logFd>>,
           NEW mo, NEW mh, mo = [lo EXCEPT ![k + 1] = lo[k]], mh = [hi EXCEPT ![k + 1] = hi[k]]
    PROVE  /\ Ordered(mo, mh)' /\ (Covered(lo, hi, low) /\ ~Full(k + 1) => Covered(mo, mh, low)') /\ LogTypes'
           /\ mo \in [Audit!Slots -> Nat] /\ mh \in [Audit!Slots -> Nat]
<1> DEFINE of(n) == IF n = k + 1 THEN k ELSE n
<1>0. /\ Audit!Slots = 0..Archives /\ Audit!NoFile = 0 /\ Archives \in Nat
      /\ k \in 0..Archives /\ k + 1 \in 0..Archives /\ k # k + 1
  BY AuditConstants
<1>1. \A n \in 0..Archives : logNames'[n] = IF n = k THEN 0 ELSE logNames[of(n)]
  BY <1>0 DEF LogTypes
<1>2. \A n \in 0..Archives : of(n) \in 0..Archives /\ (n # k => of(n) # k + 1)
  BY <1>0
<1>3. \A n \in 0..Archives : /\ Full(n)' <=> n # k /\ Full(of(n))
                             /\ n # k => Audit!Bytes(n)' = Audit!Bytes(of(n))
  <2> SUFFICES ASSUME NEW n \in 0..Archives
      PROVE  (Full(n)' <=> n # k /\ Full(of(n))) /\ (n # k => Audit!Bytes(n)' = Audit!Bytes(of(n)))
    OBVIOUS
  <2>1. PICK o \in 0..Archives : o = of(n)
    BY <1>2
  <2>2. logNames'[n] = IF n = k THEN 0 ELSE logNames[o]
    BY <1>1, <2>1
  <2>3. (Full(n)' <=> n # k /\ Full(o)) /\ (n # k => Audit!Bytes(n)' = Audit!Bytes(o))
    BY <1>0, <2>2 DEF Full, Audit!Bytes
  <2> QED
    BY <2>1, <2>3
<1>4. /\ mo \in [0..Archives -> Nat] /\ mh \in [0..Archives -> Nat]
      /\ \A n \in 0..Archives : mo[n] = lo[of(n)] /\ mh[n] = hi[of(n)]
  BY <1>0
<1>5. \A m, n \in 0..Archives : m < n /\ m # k /\ n # k => of(m) < of(n)
  BY <1>0
<1>6. Ordered(mo, mh)'
  <2>1. \A n \in 0..Archives : Full(n)' => Holds(Audit!Bytes(n), mo[n], mh[n])'
    <3> SUFFICES ASSUME NEW n \in 0..Archives, Full(n)' PROVE Holds(Audit!Bytes(n)', mo[n], mh[n])
      BY DEF Holds
    <3>1. PICK o \in 0..Archives : o = of(n) /\ Full(o) /\ Audit!Bytes(n)' = Audit!Bytes(o) /\ mo[n] = lo[o] /\ mh[n] = hi[o]
      BY <1>2, <1>3, <1>4
    <3> QED
      BY <3>1, <1>0 DEF Ordered
  <2>2. \A n \in 0..Archives : Full(n)' => mo[n] >= 1 /\ mo[n] <= mh[n] + 1 /\ mh[n] <= lastEvent
    BY <1>0, <1>2, <1>3, <1>4 DEF Ordered
  <2>3. \A n \in 0..Archives : Full(n)' /\ n # 0 => mo[n] <= mh[n]
    <3> SUFFICES ASSUME NEW n \in 0..Archives, Full(n)', n # 0 PROVE mo[n] <= mh[n]
      OBVIOUS
    <3>1. CASE n = k + 1
      BY <3>1, <1>0, <1>4
    <3>2. CASE n # k + 1
      BY <3>2, <1>0, <1>3, <1>4 DEF Ordered
    <3> QED
      BY <3>1, <3>2
  <2>4. Full(0)' => mh[0] = lastEvent
    <3>1. 0 \in 0..Archives /\ of(0) = 0
      BY <1>0
    <3>2. (Full(0)' => Full(0)) /\ mh[0] = hi[0]
      BY <3>1, <1>3, <1>4
    <3>3. Full(0) => hi[0] = lastEvent
      BY DEF Ordered
    <3> QED
      BY ONLY <3>2, <3>3
  <2>5. \A m, n \in 0..Archives : m < n /\ Full(m)' /\ Full(n)' => mh[n] < mo[m]
    <3> SUFFICES ASSUME NEW m \in 0..Archives, NEW n \in 0..Archives, m < n, Full(m)', Full(n)' PROVE mh[n] < mo[m]
      OBVIOUS
    <3>1. PICK a \in 0..Archives : a = of(m) /\ Full(a) /\ mo[m] = lo[a] /\ m # k
      BY <1>2, <1>3, <1>4
    <3>2. PICK b \in 0..Archives : b = of(n) /\ Full(b) /\ mh[n] = hi[b] /\ n # k
      BY <1>2, <1>3, <1>4
    <3>3. a < b
      BY <1>5, <3>1, <3>2
    <3> QED
      BY <3>1, <3>2, <3>3, <1>0 DEF Ordered
  <2> QED
    BY <2>1, <2>2, <2>3, <2>4, <2>5, <1>0 DEF Ordered
<1>7. Covered(lo, hi, low) /\ ~Full(k + 1) => Covered(mo, mh, low)'
  <2> SUFFICES ASSUME Covered(lo, hi, low), ~Full(k + 1) PROVE Covered(mo, mh, low)'
    OBVIOUS
  <2>1. \A n \in 0..Archives : Full(n)' => low <= mo[n]
    BY <1>0, <1>2, <1>3, <1>4 DEF Covered
  <2>2. \A e \in low..lastEvent : \E n \in 0..Archives : Full(n)' /\ e \in mo[n]..mh[n]
    <3> SUFFICES ASSUME NEW e \in low..lastEvent PROVE \E n \in 0..Archives : Full(n)' /\ e \in mo[n]..mh[n]
      OBVIOUS
    <3>1. PICK n \in 0..Archives : Full(n) /\ e \in lo[n]..hi[n]
      BY <1>0 DEF Covered
    <3>2. PICK o \in 0..Archives : o = IF n = k THEN k + 1 ELSE n
      BY <1>0
    <3>3. of(o) = n /\ o # k
      BY <3>1, <3>2, <1>0
    <3> QED
      BY <3>1, <3>3, <1>3, <1>4
  <2> QED
    BY <2>1, <2>2, <1>0 DEF Covered
<1>8. /\ logNames' \in [0..Archives -> 0..Len(logData')]
      /\ \A m, n \in 0..Archives : m # n /\ Full(m)' => logNames'[m] # logNames'[n]
  <2>1. logNames' \in [0..Archives -> 0..Len(logData')]
    <3>1. PICK d \in Nat : d = Len(logData) /\ d = Len(logData')
      BY LenProperties DEF LogTypes
    <3>2. logNames \in [0..Archives -> 0..d]
      BY <3>1, <1>0 DEF LogTypes
    <3>3. ASSUME NEW n \in 0..Archives PROVE logNames'[n] \in 0..d
      <4>1. PICK o \in 0..Archives : o = of(n)
        BY <1>2
      <4>2. logNames'[n] = 0 \/ logNames'[n] = logNames[o]
        BY <1>1, <4>1
      <4>3. logNames[o] \in 0..d
        BY <4>1, <3>2
      <4>4. 0 \in 0..d
        BY <3>1
      <4> QED
        BY <4>2, <4>3, <4>4
    <3>4. logNames' = [n \in 0..Archives |-> logNames'[n]]
      BY <3>2, <1>0
    <3> QED
      BY <3>1, <3>3, <3>4
  <2>2. ASSUME NEW m \in 0..Archives, NEW n \in 0..Archives, m # n, Full(m)' PROVE logNames'[m] # logNames'[n]
    <3>1. m # k /\ Full(of(m)) /\ of(m) \in 0..Archives /\ logNames'[m] = logNames[of(m)] /\ logNames'[m] # 0
      BY <2>2, <1>0, <1>1, <1>2, <1>3 DEF Full
    <3>2. CASE n = k
      BY <3>1, <3>2, <1>1
    <3>3. CASE n # k
      <4>1. of(m) # of(n) /\ of(n) \in 0..Archives /\ logNames'[n] = logNames[of(n)]
        BY <2>2, <3>1, <3>3, <1>1, <1>2
      <4> QED
        BY <3>1, <4>1, <1>0 DEF LogTypes
    <3> QED
      BY <3>2, <3>3
  <2> QED
    BY <2>1, <2>2
<1>9. LogTypes'
  BY <1>0, <1>8 DEF LogTypes
<1> QED
  BY <1>0, <1>4, <1>6, <1>7, <1>9

\* The names after a file has moved from k to k + 1.
LEMMA NamesMoved ==
    ASSUME LogTypes, NEW k \in 0..(Archives - 1), Full(k),
           logNames' = [logNames EXCEPT ![k + 1] = logNames[k], ![k] = Audit!NoFile]
    PROVE  /\ logNames'[k] = Audit!NoFile /\ logNames'[k + 1] # Audit!NoFile
           /\ \A m \in 0..Archives : m # k /\ m # k + 1 => logNames'[m] = logNames[m]
BY AuditConstants DEF LogTypes, Full

\* Counting archives after one has moved from k to k + 1.
LEMMA CountMoved ==
    ASSUME NEW names, NEW other, NEW a \in Nat, NEW k \in Nat, k >= 1, k + 1 <= a,
           names[k] # Audit!NoFile, names[k + 1] = Audit!NoFile,
           other[k] = Audit!NoFile, other[k + 1] # Audit!NoFile,
           \A m \in 0..a : m # k /\ m # k + 1 => other[m] = names[m]
    PROVE  /\ \A n \in 0..a : n # k => Filled(other, n) = Filled(names, n)
           /\ Filled(other, k) = Filled(names, k - 1) /\ Filled(names, k + 1) = Filled(names, k)
<1>1. ASSUME NEW n \in 0..a, n < k PROVE Filled(other, n) = Filled(names, n)
  <2>1. n \in Nat /\ \A m \in 1..n : other[m] = Audit!NoFile <=> names[m] = Audit!NoFile
    BY <1>1
  <2> QED
    BY <2>1, FilledSame
<1>2. ASSUME NEW n \in 0..a, n > k PROVE Filled(other, n) = Filled(names, n)
  <2>1. n \in Nat /\ k \in 1..n /\ k + 1 <= n
    BY <1>2
  <2>2. \A m \in 1..n : m # k /\ m # k + 1 => (names[m] = Audit!NoFile <=> other[m] = Audit!NoFile)
    BY <1>2
  <2> QED
    BY <2>1, <2>2, FilledMoves
<1>3. \A n \in 0..a : n # k => n < k \/ n > k
  OBVIOUS
<1>4. Filled(other, k) = Filled(other, k - 1)
  BY FilledLast
<1>5. k - 1 \in 0..a /\ k - 1 < k
  OBVIOUS
<1>6. Filled(names, k + 1) = Filled(names, k)
  <2>1. PICK j \in Nat : j = k + 1 /\ j >= 1 /\ j - 1 = k
    OBVIOUS
  <2>2. Filled(names, j) = Filled(names, j - 1)
    BY <2>1, FilledLast
  <2> QED
    BY <2>1, <2>2
<1> QED
  BY <1>1, <1>2, <1>3, <1>4, <1>5, <1>6

\* An archive moves on: as many are there, and the free name is one further down.
LEMMA ArchiveMoved ==
    ASSUME LogTypes, NEW lo, NEW low, NEW k \in Nat, k >= 1, k + 1 <= Archives, Full(k), ~Full(k + 1),
           NEW p, NEW q, p = <<"shift", k>>, q = <<"shift", k - 1>>, Sized(p, lo, low),
           logNames'[k] = Audit!NoFile, logNames'[k + 1] # Audit!NoFile,
           \A m \in 0..Archives : m # k /\ m # k + 1 => logNames'[m] = logNames[m],
           UNCHANGED <<lastEvent, auditFaults>>,
           NEW mo, mo[k + 1] = lo[k], \A n \in 0..Archives : n # k + 1 => mo[n] = lo[n]
    PROVE  Sized(q, mo, low)'
<1>0. Archives \in Nat
  BY AuditConstants
<1>1. /\ \A n \in 0..Archives : n # k => Filled(logNames', n) = Filled(logNames, n)
      /\ Filled(logNames', k) = Filled(logNames, k - 1) /\ Filled(logNames, k + 1) = Filled(logNames, k)
  <2>1. logNames[k] # Audit!NoFile /\ logNames[k + 1] = Audit!NoFile
    BY DEF Full
  <2>a. PICK a \in Nat : a = Archives
    BY <1>0
  <2>2. PICK names, other : names = logNames /\ other = logNames' /\ a = Archives
    BY <2>a
  <2>3. /\ k \in Nat /\ k >= 1 /\ names[k] # Audit!NoFile /\ names[k + 1] = Audit!NoFile /\ k + 1 <= a
        /\ other[k] = Audit!NoFile /\ other[k + 1] # Audit!NoFile
        /\ \A m \in 0..a : m # k /\ m # k + 1 => other[m] = names[m]
    BY <2>1, <2>2
  <2>4. /\ \A n \in 0..a : n # k => Filled(other, n) = Filled(names, n)
        /\ Filled(other, k) = Filled(names, k - 1) /\ Filled(names, k + 1) = Filled(names, k)
    BY ONLY a \in Nat, <2>3, CountMoved
  <2> QED
    BY <2>2, <2>4
<1>8. \A n \in Nat : Bit(p, n) = (IF n > k + 1 THEN 1 ELSE 0) /\ Bit(q, n) = (IF n > k THEN 1 ELSE 0)
  BY <1>0 DEF Bit
<1>9. Top(mo)' = Top(lo)
  <2>1. 0 \in 0..Archives /\ 0 # k /\ 0 # k + 1
    BY <1>0
  <2>2. logNames'[0] = logNames[0] /\ mo[0] = lo[0]
    BY <2>1
  <2> QED
    BY <2>2 DEF Top, Full
<1>10. ASSUME NEW n \in 1..Archives, Full(n)'
       PROVE  n \in Nat /\ n \in 0..Archives /\ n # k /\ (n # k + 1 => Full(n))
  <2>1. n \in Nat /\ n \in 0..Archives
    BY <1>0
  <2>2. logNames'[n] # Audit!NoFile
    BY <1>10 DEF Full
  <2> QED
    BY <2>1, <2>2 DEF Full
<1>12. ASSUME NEW n \in 1..Archives, Full(n)' PROVE mo[n] + LogLines * Filled(logNames', n) <= Top(mo)'
  <2>0. n \in Nat /\ n \in 0..Archives /\ n # k /\ (n # k + 1 => Full(n))
    BY <1>10, <1>12
  <2>1. CASE n = k + 1
    <3>1. Filled(logNames', n) = Filled(logNames, k)
      BY <2>0, <2>1, <1>1
    <3>2. k \in 1..Archives
      BY <1>0
    <3>3. lo[k] + LogLines * Filled(logNames, k) <= Top(lo)
      BY <3>2 DEF Sized
    <3> QED
      BY <2>1, <3>1, <3>3, <1>9
  <2>2. CASE n # k + 1
    <3>1. Full(n) /\ Filled(logNames', n) = Filled(logNames, n) /\ mo[n] = lo[n]
      BY <2>0, <2>2, <1>1
    <3>2. lo[n] + LogLines * Filled(logNames, n) <= Top(lo)
      BY <3>1 DEF Sized
    <3> QED
      BY <3>1, <3>2, <1>9
  <2> QED
    BY <2>1, <2>2
<1>13. ASSUME NEW n \in 1..Archives, Full(n)' PROVE Filled(logNames', n - 1) + auditFaults' + Bit(q, n) >= n - 1
  <2>0. n \in Nat /\ n # k /\ (n # k + 1 => Full(n)) /\ auditFaults \in Nat /\ auditFaults' = auditFaults
    BY <1>10, <1>13 DEF LogTypes
  <2>1. CASE n = k + 1
    <3>1. PICK f \in Nat : f = Filled(logNames, k - 1) /\ f = Filled(logNames', k)
      <4>1. k - 1 \in Nat
        OBVIOUS
      <4> QED
        BY <4>1, <1>1, FilledFacts
    <3>2. Filled(logNames, k - 1) + auditFaults + Bit(p, k) >= k - 1
      <4>1. k \in 1..Archives
        BY <1>0
      <4> QED
        BY <4>1 DEF Sized
    <3>3. Bit(p, k) = 0 /\ Bit(q, n) = 1
      <4>1. ~(k > k + 1) /\ n > k
        BY <2>1
      <4> QED
        BY <4>1, <1>8, <2>0
    <3>4. f + auditFaults + 0 >= k - 1
      BY <3>1, <3>2, <3>3
    <3>5. f + auditFaults + 1 >= k
      BY <3>4, <2>0
    <3>6. Filled(logNames', n - 1) = f
      <4>1. n - 1 = k
        BY <2>1
      <4> QED
        BY <3>1, <4>1
    <3>7. f + auditFaults' + Bit(q, n) >= n - 1
      BY <3>3, <3>5, <2>0, <2>1
    <3> QED
      BY <3>6, <3>7
  <2>2. CASE n # k + 1
    <3>1. Full(n) /\ Filled(logNames', n - 1) = Filled(logNames, n - 1)
      <4>1. n - 1 \in 0..Archives /\ n - 1 # k
        BY <2>0, <2>2, <1>0
      <4> QED
        BY <4>1, <1>1, <2>0, <2>2
    <3>2. Filled(logNames, n - 1) + auditFaults + Bit(p, n) >= n - 1
      BY <3>1 DEF Sized
    <3>3. Bit(q, n) = Bit(p, n)
      <4>1. n > k + 1 <=> n > k
        BY <2>0, <2>2
      <4> QED
        BY <4>1, <2>0, <1>8
    <3> QED
      BY <3>1, <3>2, <3>3, <2>0
  <2> QED
    BY <2>1, <2>2
<1>14. low > 1 => Filled(logNames', Archives) + auditFaults' + Bit(q, Archives + 1) >= Archives
  <2>1. Archives \in 0..Archives /\ Archives # k /\ Archives + 1 \in Nat /\ Archives + 1 > k + 1 /\ Archives + 1 > k
    BY <1>0
  <2>2. Filled(logNames', Archives) = Filled(logNames, Archives) /\ Bit(q, Archives + 1) = Bit(p, Archives + 1)
    BY <2>1, <1>1, <1>8
  <2> QED
    BY <2>2 DEF Sized
<1> QED
  BY <1>12, <1>13, <1>14 DEF Sized

\* The log itself becomes an archive: a full file more.
LEMMA LogMoved ==
    ASSUME LogTypes, NEW lo, NEW low, Full(0), ~Full(1),
           NEW x \in Nat, x = lo[0], x + LogLines <= lastEvent + 1,
           NEW p, NEW q, p = <<"shift", 0>>, q = <<"open", 0>>, Sized(p, lo, low),
           logNames'[0] = Audit!NoFile, logNames'[1] # Audit!NoFile,
           \A m \in 0..Archives : m # 0 /\ m # 1 => logNames'[m] = logNames[m],
           UNCHANGED <<lastEvent, auditFaults>>,
           NEW mo, mo[1] = lo[0], \A n \in 0..Archives : n # 1 => mo[n] = lo[n], \A n \in 0..Archives : lo[n] \in Nat
    PROVE  Sized(q, mo, low)'
<1>0. Archives \in Nat /\ Archives >= 1 /\ LogLines \in Nat
  BY AuditConstants
<1>1. PICK e \in Nat : e = lastEvent /\ e = lastEvent' /\ x + LogLines <= e + 1
  BY DEF LogTypes
<1>4. logNames[1] = Audit!NoFile
  BY DEF Full
<1>5. ASSUME NEW n \in 0..Archives, n >= 1
      PROVE  Filled(logNames', n) = Filled(logNames, n) + 1 /\ Filled(logNames, n) \in Nat
  <2>1. n \in Nat /\ 1 \in 1..n
    BY <1>0, <1>5
  <2>2. \A m \in 1..n : m # 1 => (logNames[m] = Audit!NoFile <=> logNames'[m] = Audit!NoFile)
    BY <1>0
  <2> QED
    BY <2>1, <2>2, <1>4, FilledMore, FilledFacts
<1>6. Filled(logNames, 1) = 0 /\ \A names : Filled(names, 0) = 0
  <2>1. \A names : {m \in 1..0 : names[m] # Audit!NoFile} = {}
    OBVIOUS
  <2>2. \A names : Filled(names, 0) = 0
    BY <2>1, FS_EmptySet DEF Filled
  <2>3. PICK j \in Nat : j = 1 /\ j >= 1 /\ j - 1 = 0
    OBVIOUS
  <2>4. Filled(logNames, j) = Filled(logNames, j - 1)
    BY <2>3, <1>4, FilledLast
  <2> QED
    BY <2>2, <2>3, <2>4
<1>8. \A n \in Nat : Bit(p, n) = (IF n > 1 THEN 1 ELSE 0) /\ Bit(q, n) = 0
  BY <1>0 DEF Bit
<1>9. Top(mo)' = e + 1 /\ Top(lo) = x
  BY <1>1 DEF Top, Full
<1>10. ASSUME NEW n \in 1..Archives, Full(n)'
       PROVE  n \in Nat /\ n \in 0..Archives /\ n >= 1 /\ (n # 1 => Full(n))
  <2>1. n \in Nat /\ n \in 0..Archives /\ n >= 1 /\ n # 0
    BY <1>0
  <2>2. logNames'[n] # Audit!NoFile
    BY <1>10 DEF Full
  <2> QED
    BY <2>1, <2>2 DEF Full
<1>12. ASSUME NEW n \in 1..Archives, Full(n)' PROVE mo[n] + LogLines * Filled(logNames', n) <= Top(mo)'
  <2>0. n \in Nat /\ n \in 0..Archives /\ n >= 1 /\ (n # 1 => Full(n))
    BY <1>10, <1>12
  <2>1. CASE n = 1
    <3>1. Filled(logNames', n) = 1
      BY <2>0, <2>1, <1>5, <1>6
    <3>2. LogLines * 1 = LogLines
      BY <1>0
    <3>3. mo[n] = x
      BY <2>1
    <3> QED
      BY <3>1, <3>2, <3>3, <1>1, <1>9
  <2>2. CASE n # 1
    <3>2. PICK f \in Nat : f = Filled(logNames, n) /\ Filled(logNames', n) = f + 1
      BY <2>0, <1>5
    <3>3. lo[n] + LogLines * f <= x
      BY <2>0, <2>2, <3>2, <1>9 DEF Sized
    <3>4. PICK g \in Nat : g = LogLines * f /\ LogLines * (f + 1) = g + LogLines
      BY <1>0, TimesOneMore
    <3>5. PICK y \in Nat : y = lo[n] /\ y = mo[n]
      BY <2>0, <2>2
    <3>6. y + g <= x
      BY <3>3, <3>4, <3>5
    <3>7. y + (g + LogLines) <= e + 1
      BY <3>6, <1>0, <1>1
    <3> QED
      BY <3>2, <3>4, <3>5, <3>7, <1>9
  <2> QED
    BY <2>1, <2>2
<1>13. ASSUME NEW n \in 1..Archives, Full(n)' PROVE Filled(logNames', n - 1) + auditFaults' + Bit(q, n) >= n - 1
  <2>0. /\ n \in Nat /\ n \in 0..Archives /\ n >= 1 /\ (n # 1 => Full(n))
        /\ auditFaults \in Nat /\ auditFaults' = auditFaults
    BY <1>10, <1>13 DEF LogTypes
  <2>1. CASE n = 1
    <3>1. n - 1 = 0 /\ Bit(q, n) = 0
      BY <2>0, <2>1, <1>8
    <3>2. Filled(logNames', n - 1) = 0
      BY <3>1, <1>6
    <3> QED
      BY <3>1, <3>2, <2>0
  <2>2. CASE n # 1
    <3>1. n - 1 \in 0..Archives /\ n - 1 >= 1 /\ n > 1
      BY <2>0, <2>2, <1>0
    <3>2. PICK f \in Nat : f = Filled(logNames, n - 1) /\ Filled(logNames', n - 1) = f + 1
      BY <3>1, <1>5
    <3>3. Bit(p, n) = 1 /\ Bit(q, n) = 0
      BY <3>1, <2>0, <1>8
    <3>4. f + auditFaults + 1 >= n - 1
      BY <2>0, <2>2, <3>2, <3>3 DEF Sized
    <3> QED
      BY <3>2, <3>3, <3>4, <2>0
  <2> QED
    BY <2>1, <2>2
<1>14. low > 1 => Filled(logNames', Archives) + auditFaults' + Bit(q, Archives + 1) >= Archives
  <2>1. Archives \in 0..Archives /\ Archives + 1 \in Nat /\ Archives + 1 > 1
    BY <1>0
  <2>2. PICK f \in Nat : f = Filled(logNames, Archives) /\ Filled(logNames', Archives) = f + 1
    BY <2>1, <1>0, <1>5
  <2>3. Bit(q, Archives + 1) = 0 /\ Bit(p, Archives + 1) = 1
    BY <2>1, <1>8
  <2>4. low > 1 => f + auditFaults + 1 >= Archives
    BY <2>2, <2>3 DEF Sized
  <2> QED
    BY <2>2, <2>3, <2>4, <1>0 DEF LogTypes
<1> QED
  BY <1>12, <1>13, <1>14 DEF Sized

\* A new log has no events: the first one to come is the next (audit.rs 119-122).
LEMMA LogCreated ==
    ASSUME LogTypes, NEW lo \in [Audit!Slots -> Nat], NEW hi \in [Audit!Slots -> Nat], NEW low \in Nat,
           NEW p, NEW q, p = <<"open", 0>>, q = <<"line", 0>>, Record(p, lo, hi, low), ~Full(0),
           logData' = Append(logData, <<>>), logNames' = [logNames EXCEPT ![0] = Len(logData')],
           UNCHANGED <<lastEvent, auditFaults, auditIgnored>>, logFd' = [w \in AuditWriters |-> logFd'[w]],
           NEW mo, NEW mh, mo = [lo EXCEPT ![0] = lastEvent + 1], mh = [hi EXCEPT ![0] = lastEvent]
    PROVE  /\ Record(q, mo, mh, low)' /\ LogTypes' /\ Full(0)'
           /\ mo \in [Audit!Slots -> Nat] /\ mh \in [Audit!Slots -> Nat]
           /\ \A n \in Audit!Slots : Audit!Bytes(n)' = Audit!Bytes(n)
<1>0. Audit!Slots = 0..Archives /\ Audit!NoFile = 0 /\ Archives \in Nat /\ 0 \in 0..Archives
  BY AuditConstants
<1>1. PICK e \in Nat, d \in Nat : e = lastEvent /\ e = lastEvent' /\ d = Len(logData) /\ DOMAIN logData = 1..d
  BY LenProperties DEF LogTypes
<1>2. /\ logData' \in Seq(Seq(Nat)) /\ Len(logData') = d + 1 /\ logData'[d + 1] = <<>>
      /\ \A i \in 1..d : logData'[i] = logData[i]
  <2>1. <<>> \in Seq(Nat)
    OBVIOUS
  <2> QED
    BY <1>1, <2>1, AppendProperties DEF LogTypes
<1>3. /\ logNames'[0] = d + 1 /\ \A n \in 0..Archives : n # 0 => logNames'[n] = logNames[n]
      /\ DOMAIN logNames' = 0..Archives /\ logNames' = [n \in 0..Archives |-> logNames'[n]]
  BY <1>0, <1>2 DEF LogTypes
<1>4. \A n \in 0..Archives : logNames[n] \in 0..d
  BY <1>0, <1>1 DEF LogTypes
<1>5. /\ mo \in [0..Archives -> Nat] /\ mh \in [0..Archives -> Nat] /\ mo[0] = e + 1 /\ mh[0] = e
      /\ \A n \in 0..Archives : n # 0 => mo[n] = lo[n] /\ mh[n] = hi[n]
  BY <1>0, <1>1
<1>6. Full(0)' /\ \A n \in 0..Archives : n # 0 => (Full(n)' <=> Full(n))
  BY <1>0, <1>1, <1>3 DEF Full
<1>7. ASSUME NEW n \in 0..Archives PROVE Audit!Bytes(n)' = Audit!Bytes(n)
  <2>1. CASE n = 0
    <3>1. Audit!Bytes(0)' = <<>>
      BY <1>0, <1>1, <1>2, <1>3 DEF Audit!Bytes
    <3>2. Audit!Bytes(0) = <<>>
      BY <1>0, BytesType
    <3> QED
      BY <2>1, <3>1, <3>2
  <2>2. CASE n # 0
    <3>1. logNames'[n] = logNames[n] /\ logNames[n] \in 0..d
      BY <2>2, <1>3, <1>4
    <3>2. logNames[n] # 0 => logData'[logNames[n]] = logData[logNames[n]]
      BY <3>1, <1>1, <1>2
    <3> QED
      BY <3>1, <3>2, <1>0 DEF Audit!Bytes
  <2> QED
    BY <2>1, <2>2
<1>8. LogTypes'
  <2>1. logNames' \in [0..Archives -> 0..Len(logData')]
    <3>1. \A n \in 0..Archives : logNames'[n] \in 0..(d + 1)
      BY <1>1, <1>3, <1>4
    <3> QED
      BY <3>1, <1>2, <1>3
  <2>2. ASSUME NEW m \in 0..Archives, NEW n \in 0..Archives, m # n, Full(m)' PROVE logNames'[m] # logNames'[n]
    <3>1. \A i \in 0..Archives : i # 0 => logNames'[i] = logNames[i] /\ logNames'[i] # d + 1
      BY <1>1, <1>3, <1>4
    <3>2. CASE m = 0 \/ n = 0
      BY <2>2, <3>1, <3>2, <1>3
    <3>3. CASE m # 0 /\ n # 0
      <4>1. Full(m)
        BY <2>2, <3>3, <1>6
      <4> QED
        BY <2>2, <3>1, <3>3, <4>1, <1>0 DEF LogTypes
    <3> QED
      BY <3>2, <3>3
  <2> QED
    BY <2>1, <2>2, <1>0, <1>2 DEF LogTypes
<1>9. Holds(<<>>, e + 1, e)
  <2>1. (e + 1)..e = {} /\ {<<>>[i] : i \in DOMAIN <<>>} = {}
    BY <1>1
  <2>2. Audit!Lines(<<>>) + (e + 1) <= e + 1
    BY LinesEmpty, <1>1
  <2> QED
    BY <2>1, <2>2 DEF Holds
<1>10. Ordered(mo, mh)'
  <2>1. \A n \in 0..Archives : Full(n)' => Holds(Audit!Bytes(n), mo[n], mh[n])'
    <3> SUFFICES ASSUME NEW n \in 0..Archives, Full(n)' PROVE Holds(Audit!Bytes(n)', mo[n], mh[n])
      BY DEF Holds
    <3>1. CASE n = 0
      <4>1. Audit!Bytes(0) = <<>> /\ Audit!Bytes(0)' = Audit!Bytes(0)
        BY <1>0, <1>7, BytesType
      <4> QED
        BY <3>1, <4>1, <1>5, <1>9
    <3>2. CASE n # 0
      BY <3>2, <1>0, <1>5, <1>6, <1>7 DEF Record, Ordered
    <3> QED
      BY <3>1, <3>2
  <2>2. \A n \in 0..Archives : Full(n)' => mo[n] >= 1 /\ mo[n] <= mh[n] + 1 /\ mh[n] <= e
    <3> SUFFICES ASSUME NEW n \in 0..Archives, Full(n)' PROVE mo[n] >= 1 /\ mo[n] <= mh[n] + 1 /\ mh[n] <= e
      OBVIOUS
    <3>1. CASE n = 0
      BY <3>1, <1>5
    <3>2. CASE n # 0
      BY <3>2, <1>0, <1>1, <1>5, <1>6 DEF Record, Ordered
    <3> QED
      BY <3>1, <3>2
  <2>3. \A n \in 0..Archives : Full(n)' /\ n # 0 => mo[n] <= mh[n]
    BY <1>0, <1>5, <1>6 DEF Record, Ordered
  <2>4. \A m, n \in 0..Archives : m < n /\ Full(m)' /\ Full(n)' => mh[n] < mo[m]
    <3> SUFFICES ASSUME NEW m \in 0..Archives, NEW n \in 0..Archives, m < n, Full(m)', Full(n)' PROVE mh[n] < mo[m]
      OBVIOUS
    <3>1. n # 0 /\ Full(n) /\ mh[n] = hi[n] /\ hi[n] \in Nat /\ hi[n] <= e
      BY <1>0, <1>1, <1>5, <1>6 DEF Record, Ordered
    <3>2. CASE m = 0
      BY <3>1, <3>2, <1>5
    <3>3. CASE m # 0
      BY <3>1, <3>3, <1>0, <1>5, <1>6 DEF Record, Ordered
    <3> QED
      BY <3>2, <3>3
  <2> QED
    BY <2>1, <2>2, <2>3, <2>4, <1>0, <1>1, <1>5 DEF Ordered
<1>11. ~auditIgnored => Covered(mo, mh, low)'
  <2> SUFFICES ASSUME ~auditIgnored PROVE Covered(mo, mh, low)'
    OBVIOUS
  <2>1. low >= 1 /\ low <= e + 1 /\ (e > 0 => low <= e)
    BY <1>1 DEF Record, Covered
  <2>2. \A n \in 0..Archives : Full(n)' => low <= mo[n]
    <3> SUFFICES ASSUME NEW n \in 0..Archives, Full(n)' PROVE low <= mo[n]
      OBVIOUS
    <3>1. CASE n = 0
      BY <3>1, <2>1, <1>5
    <3>2. CASE n # 0
      BY <3>2, <1>0, <1>5, <1>6 DEF Record, Covered
    <3> QED
      BY <3>1, <3>2
  <2>3. \A f \in low..e : \E n \in 0..Archives : Full(n)' /\ f \in mo[n]..mh[n]
    <3> SUFFICES ASSUME NEW f \in low..e PROVE \E n \in 0..Archives : Full(n)' /\ f \in mo[n]..mh[n]
      OBVIOUS
    <3>1. PICK n \in 0..Archives : Full(n) /\ f \in lo[n]..hi[n]
      BY <1>0, <1>1 DEF Record, Covered
    <3>2. n # 0
      BY <3>1
    <3> QED
      BY <3>1, <3>2, <1>5, <1>6
  <2> QED
    BY <2>1, <2>2, <2>3, <1>0, <1>1 DEF Covered
<1>12. ~auditIgnored => Sized(q, mo, low)'
  <2> SUFFICES ASSUME ~auditIgnored PROVE Sized(q, mo, low)'
    OBVIOUS
  <2>1. Top(mo)' = e + 1 /\ Top(lo) = e + 1
    BY <1>1, <1>5, <1>6 DEF Top
  <2>2. \A n \in 0..Archives : Filled(logNames', n) = Filled(logNames, n)
    <3> SUFFICES ASSUME NEW n \in 0..Archives PROVE Filled(logNames', n) = Filled(logNames, n)
      OBVIOUS
    <3>1. n \in Nat /\ \A m \in 1..n : logNames'[m] = Audit!NoFile <=> logNames[m] = Audit!NoFile
      BY <1>0, <1>3
    <3> QED
      BY ONLY <3>1, FilledSame
  <2>3. \A n : Bit(p, n) = 0 /\ Bit(q, n) = 0
    BY BitFacts
  <2>4. ASSUME NEW n \in 1..Archives, Full(n)'
        PROVE  /\ mo[n] + LogLines * Filled(logNames', n) <= Top(mo)'
               /\ Filled(logNames', n - 1) + auditFaults' + Bit(q, n) >= n - 1
    <3>1. n \in 0..Archives /\ n - 1 \in 0..Archives /\ n # 0
      BY <1>0
    <3>2. Full(n) /\ mo[n] = lo[n]
      BY <2>4, <3>1, <1>5, <1>6
    <3>3. /\ lo[n] + LogLines * Filled(logNames, n) <= Top(lo)
          /\ Filled(logNames, n - 1) + auditFaults + Bit(p, n) >= n - 1
      BY <3>2 DEF Record, Sized
    <3> QED
      BY <3>1, <3>2, <3>3, <2>1, <2>2, <2>3
  <2>5. low > 1 => Filled(logNames', Archives) + auditFaults' + Bit(q, Archives + 1) >= Archives
    <3>1. Archives \in 0..Archives
      BY <1>0
    <3> QED
      BY <3>1, <2>2, <2>3 DEF Record, Sized
  <2> QED
    BY <2>4, <2>5 DEF Sized
<1> QED
  BY <1>0, <1>5, <1>6, <1>7, <1>8, <1>10, <1>11, <1>12 DEF Record

\* Events and their order in a file to which an event, or a newline, is appended.
LEMMA HoldsMore ==
    ASSUME NEW s \in Seq(Nat), NEW a \in Nat, NEW b \in Nat, a <= b + 1, Holds(s, a, b)
    PROVE  /\ Holds(Append(s, b + 1), a, b + 1) /\ Audit!Lines(Append(s, b + 1)) + a <= b + 1
           /\ Audit!Lines(s) + a <= b => Holds(Append(s, Audit!Newline), a, b)
<1>0. Audit!Newline = 0 /\ b + 1 \in Nat /\ b + 1 # 0 /\ 0 \in Nat
  BY AuditConstants
<1>1. PICK n \in Nat : n = Len(s) /\ DOMAIN s = 1..n /\ \A i \in 1..n : s[i] \in Nat
  BY LenProperties, ElementOfSeq
<1>2. \A c \in Nat : /\ DOMAIN Append(s, c) = 1..(n + 1) /\ Append(s, c)[n + 1] = c
                     /\ \A i \in 1..n : Append(s, c)[i] = s[i]
  BY <1>1, AppendProperties, LenProperties
<1>3. PICK l \in Nat : l = Audit!Lines(s)
  BY LinesAppend
<1>4. Audit!Lines(Append(s, b + 1)) = l /\ Audit!Lines(Append(s, 0)) = l + 1 /\ l + a <= b + 1
  BY <1>0, <1>3, LinesAppend DEF Holds
<1>5. {s[i] : i \in 1..n} \ {0} = a..b
  BY <1>0, <1>1 DEF Holds
<1>6. \A i \in 1..n : s[i] # 0 => s[i] \in a..b
  BY <1>5
<1>7. \A i, j \in 1..n : i < j /\ s[i] # 0 /\ s[j] # 0 => s[i] < s[j]
  BY <1>0, <1>1 DEF Holds
<1>8. ASSUME NEW t, t = Append(s, b + 1) PROVE Holds(t, a, b + 1)
  <2>1. DOMAIN t = 1..(n + 1) /\ t[n + 1] = b + 1 /\ \A i \in 1..n : t[i] = s[i]
    BY <1>0, <1>2, <1>8
  <2>2. {t[i] : i \in DOMAIN t} \ {0} = a..(b + 1)
    <3>1. ASSUME NEW x \in {t[i] : i \in DOMAIN t} \ {0} PROVE x \in a..(b + 1)
      <4>1. PICK i \in 1..(n + 1) : x = t[i] /\ x # 0
        BY <2>1
      <4>2. CASE i = n + 1
        BY <4>1, <4>2, <2>1
      <4>3. CASE i # n + 1
        <5>1. i \in 1..n
          BY <4>3
        <5>2. x \in a..b
          BY <5>1, <4>1, <2>1, <1>6
        <5> QED
          BY <5>2
      <4> QED
        BY <4>2, <4>3
    <3>2. ASSUME NEW x \in a..(b + 1) PROVE x \in {t[i] : i \in DOMAIN t} \ {0}
      <4>1. CASE x = b + 1
        BY <4>1, <2>1, <1>0
      <4>2. CASE x # b + 1
        <5>1. x \in a..b
          BY <4>2
        <5>2. PICK i \in 1..n : x = s[i] /\ x # 0
          BY <5>1, <1>5
        <5>3. i \in 1..(n + 1)
          BY <5>2
        <5> QED
          BY <5>2, <5>3, <2>1
      <4> QED
        BY <4>1, <4>2
    <3> QED
      BY <3>1, <3>2
  <2>3. ASSUME NEW i \in 1..(n + 1), NEW j \in 1..(n + 1), i < j, t[i] # 0, t[j] # 0 PROVE t[i] < t[j]
    <3>1. i \in 1..n
      BY <2>3
    <3>2. CASE j = n + 1
      BY <2>1, <2>3, <3>1, <3>2, <1>6
    <3>3. CASE j # n + 1
      <4>1. j \in 1..n
        BY <3>3
      <4>2. t[i] = s[i] /\ t[j] = s[j]
        BY <3>1, <4>1, <2>1
      <4> QED
        BY <2>3, <3>1, <4>1, <4>2, <1>7
    <3> QED
      BY <3>2, <3>3
  <2>4. Audit!Lines(t) + a <= (b + 1) + 1
    BY <1>4, <1>8
  <2> QED
    BY <2>1, <2>2, <2>3, <2>4, <1>0 DEF Holds
<1>9. ASSUME NEW t, t = Append(s, 0), l + a <= b PROVE Holds(t, a, b)
  <2>1. DOMAIN t = 1..(n + 1) /\ t[n + 1] = 0 /\ \A i \in 1..n : t[i] = s[i]
    BY <1>0, <1>2, <1>9
  <2>2. {t[i] : i \in DOMAIN t} \ {0} = a..b
    <3>1. {t[i] : i \in 1..(n + 1)} \ {0} = {s[i] : i \in 1..n} \ {0}
      BY <2>1
    <3> QED
      BY <3>1, <2>1, <1>5
  <2>3. \A i, j \in 1..(n + 1) : i < j /\ t[i] # 0 /\ t[j] # 0 => t[i] < t[j]
    BY <2>1, <1>7
  <2>4. Audit!Lines(t) + a <= b + 1
    BY <1>4, <1>9
  <2> QED
    BY <2>1, <2>2, <2>3, <2>4, <1>0 DEF Holds
<1> QED
  BY <1>0, <1>3, <1>4, <1>8, <1>9

\* A writer appends to the file that the log is, and to no other.
LEMMA LogAppended ==
    ASSUME LogTypes, NEW c \in Nat, Full(0), lastEvent' \in Nat, auditFaults' \in Nat, auditIgnored' \in BOOLEAN,
           logFd' = [w \in AuditWriters |-> logFd'[w]],
           logData' = [logData EXCEPT ![logNames[0]] = Append(@, c)], logNames' = logNames
    PROVE  /\ LogTypes' /\ Audit!Bytes(0)' = Append(Audit!Bytes(0), c)
           /\ \A n \in Audit!Slots : (Full(n)' <=> Full(n)) /\ (n # 0 => Audit!Bytes(n)' = Audit!Bytes(n))
<1>0. Audit!Slots = 0..Archives /\ Audit!NoFile = 0 /\ Archives \in Nat /\ 0 \in 0..Archives
  BY AuditConstants
<1>1. PICK d \in Nat : d = Len(logData) /\ DOMAIN logData = 1..d
  BY LenProperties DEF LogTypes
<1>2. PICK x \in 1..d : x = logNames[0]
  <2>1. logNames[0] \in 0..d /\ logNames[0] # 0
    BY <1>0, <1>1 DEF LogTypes, Full
  <2>2. logNames[0] \in 1..d
    BY <2>1
  <2> QED
    BY <2>2
<1>3. \A i \in 1..d : logData[i] \in Seq(Nat)
  BY <1>1, ElementOfSeq DEF LogTypes
<1>4. PICK z : z = Append(logData[x], c) /\ z \in Seq(Nat)
  <2>1. Append(logData[x], c) \in Seq(Nat)
    BY <1>2, <1>3, AppendProperties
  <2> QED
    BY <2>1
<1>5. /\ DOMAIN logData' = 1..d /\ logData'[x] = z /\ \A i \in 1..d : i # x => logData'[i] = logData[i]
      /\ logData' = [i \in 1..d |-> IF i = x THEN z ELSE logData[i]]
  BY <1>1, <1>2, <1>4
<1>6. logData' \in Seq(Seq(Nat)) /\ Len(logData') = d
  <2>1. logData' = [logData EXCEPT ![x] = z]
    BY <1>1, <1>2, <1>4
  <2>2. logData' \in Seq(Seq(Nat))
    <3>1. PICK T : T = Seq(Nat)
      OBVIOUS
    <3>2. logData \in Seq(T) /\ x \in 1..Len(logData) /\ z \in T
      BY <3>1, <1>1, <1>4 DEF LogTypes
    <3>3. [logData EXCEPT ![x] = z] \in Seq(T)
      BY ONLY <3>2, ExceptSeq
    <3> QED
      BY <3>1, <3>3, <2>1
  <2>3. DOMAIN logData' = 1..Len(logData') /\ Len(logData') \in Nat
    BY <2>2, LenProperties
  <2>4. Len(logData') = d
    BY <2>3, <1>1, <1>5
  <2> QED
    BY <2>2, <2>4
<1>7. \A n : Full(n)' <=> Full(n)
  BY DEF Full
<1>8. LogTypes'
  BY <1>0, <1>1, <1>6, <1>7 DEF LogTypes
<1>9. Audit!Bytes(0)' = Append(Audit!Bytes(0), c)
  <2>1. Audit!Bytes(0) = logData[x] /\ Audit!Bytes(0)' = logData'[x]
    BY <1>0, <1>2 DEF Audit!Bytes, Full
  <2> QED
    BY <2>1, <1>4, <1>5
<1>10. ASSUME NEW n \in 0..Archives, n # 0 PROVE Audit!Bytes(n)' = Audit!Bytes(n)
  <2>1. CASE Full(n)
    <3>1. PICK y \in 1..d : y = logNames[n] /\ y # x
      <4>1. logNames[n] \in 0..d /\ logNames[n] # 0 /\ logNames[n] # logNames[0]
        BY <2>1, <1>0, <1>1, <1>10 DEF LogTypes, Full
      <4>2. logNames[n] \in 1..d
        BY <4>1
      <4> QED
        BY <4>1, <4>2, <1>2
    <3>2. Audit!Bytes(n) = logData[y] /\ Audit!Bytes(n)' = logData'[y]
      BY <1>0, <3>1 DEF Audit!Bytes
    <3> QED
      BY <3>1, <3>2, <1>5
  <2>2. CASE ~Full(n)
    BY <2>2 DEF Audit!Bytes, Full
  <2> QED
    BY <2>1, <2>2
<1> QED
  BY <1>0, <1>7, <1>8, <1>9, <1>10

\* The sizes of the archives, when only the log changes.
LEMMA SizedStays ==
    ASSUME NEW p, NEW q, NEW lo, NEW low, Sized(p, lo, low), \A n : Bit(p, n) = Bit(q, n),
           Full(0), UNCHANGED <<logNames, auditFaults>>
    PROVE  Sized(q, lo, low)'
<1>1. \A n : Full(n)' <=> Full(n)
  BY DEF Full
<1>2. Top(lo)' = Top(lo)
  BY <1>1 DEF Top
<1> QED
  BY <1>1, <1>2 DEF Sized

\* The line of an event (audit.rs 127).
LEMMA LineWritten ==
    ASSUME LogTypes, LogTypes', NEW lo \in [Audit!Slots -> Nat], NEW hi \in [Audit!Slots -> Nat], NEW low \in Nat,
           NEW p, NEW q, p = <<"line", 0>>, q = <<"newline", 0>>, Record(p, lo, hi, low), Full(0),
           lastEvent' = lastEvent + 1, UNCHANGED <<logNames, auditFaults, auditIgnored>>,
           Audit!Bytes(0)' = Append(Audit!Bytes(0), lastEvent + 1),
           \A n \in Audit!Slots : (Full(n)' <=> Full(n)) /\ (n # 0 => Audit!Bytes(n)' = Audit!Bytes(n)),
           NEW mh, mh \in [Audit!Slots -> Nat], mh[0] = lastEvent + 1, \A n \in Audit!Slots : n # 0 => mh[n] = hi[n]
    PROVE  Record(q, lo, mh, low)'
<1>0. Audit!Slots = 0..Archives /\ Archives \in Nat /\ 0 \in 0..Archives
  BY AuditConstants
<1>1. PICK e \in Nat : e = lastEvent /\ lastEvent' = e + 1 /\ hi[0] = e /\ mh[0] = e + 1
  BY <1>0 DEF LogTypes, Record, Ordered
<1>2. PICK a \in Nat : a = lo[0] /\ a >= 1 /\ a <= e + 1
  BY <1>0, <1>1 DEF Record, Ordered
<1>3. PICK s \in Seq(Nat) : s = Audit!Bytes(0) /\ Holds(s, a, e) /\ Audit!Bytes(0)' = Append(s, e + 1)
  BY <1>0, <1>1, <1>2, BytesType DEF Record, Ordered
<1>4. Holds(Audit!Bytes(0)', a, e + 1) /\ (Audit!Lines(Audit!Bytes(0)) + a <= e + 1)'
  BY <1>1, <1>2, <1>3, HoldsMore
<1>5. Ordered(lo, mh)'
  <2>1. \A n \in 0..Archives : Full(n)' => Holds(Audit!Bytes(n), lo[n], mh[n])'
    <3> SUFFICES ASSUME NEW n \in 0..Archives, Full(n)' PROVE Holds(Audit!Bytes(n)', lo[n], mh[n])
      BY DEF Holds
    <3>1. CASE n = 0
      BY <3>1, <1>1, <1>2, <1>4
    <3>2. CASE n # 0
      BY <3>2, <1>0 DEF Record, Ordered
    <3> QED
      BY <3>1, <3>2
  <2>2. \A n \in 0..Archives : Full(n)' => lo[n] >= 1 /\ lo[n] <= mh[n] + 1 /\ mh[n] <= e + 1
    <3> SUFFICES ASSUME NEW n \in 0..Archives, Full(n)' PROVE lo[n] >= 1 /\ lo[n] <= mh[n] + 1 /\ mh[n] <= e + 1
      OBVIOUS
    <3>1. CASE n = 0
      BY <3>1, <1>1, <1>2
    <3>2. CASE n # 0
      BY <3>2, <1>0, <1>1 DEF Record, Ordered
    <3> QED
      BY <3>1, <3>2
  <2>3. \A n \in 0..Archives : Full(n)' /\ n # 0 => lo[n] <= mh[n]
    BY <1>0 DEF Record, Ordered
  <2>4. \A m, n \in 0..Archives : m < n /\ Full(m)' /\ Full(n)' => mh[n] < lo[m]
    <3> SUFFICES ASSUME NEW m \in 0..Archives, NEW n \in 0..Archives, m < n, Full(m)', Full(n)' PROVE mh[n] < lo[m]
      OBVIOUS
    <3>1. n # 0
      OBVIOUS
    <3> QED
      BY <3>1, <1>0 DEF Record, Ordered
  <2> QED
    BY <2>1, <2>2, <2>3, <2>4, <1>0, <1>1 DEF Ordered
<1>6. ~auditIgnored => Covered(lo, mh, low)'
  <2> SUFFICES ASSUME ~auditIgnored PROVE Covered(lo, mh, low)'
    OBVIOUS
  <2>1. low >= 1 /\ low <= e + 1 /\ low <= (e + 1) + 1
    BY <1>1 DEF Record, Covered
  <2>2. \A n \in 0..Archives : Full(n)' => low <= lo[n]
    BY <1>0 DEF Record, Covered
  <2>3. \A f \in low..(e + 1) : \E n \in 0..Archives : Full(n)' /\ f \in lo[n]..mh[n]
    <3> SUFFICES ASSUME NEW f \in low..(e + 1) PROVE \E n \in 0..Archives : Full(n)' /\ f \in lo[n]..mh[n]
      OBVIOUS
    <3>1. CASE f = e + 1
      <4>1. f \in lo[0]..mh[0] /\ Full(0)'
        BY <3>1, <1>0, <1>1, <1>2
      <4> QED
        BY <4>1, <1>0
    <3>2. CASE f # e + 1
      <4>1. f \in low..e
        BY <3>2
      <4>2. PICK n \in 0..Archives : Full(n) /\ f \in lo[n]..hi[n]
        BY <4>1, <1>0, <1>1 DEF Record, Covered
      <4>3. CASE n = 0
        <5>1. f \in lo[0]..mh[0]
          BY <4>2, <4>3, <1>1, <1>2
        <5> QED
          BY <5>1, <4>2, <4>3, <1>0
      <4>4. CASE n # 0
        BY <4>2, <4>4, <1>0
      <4> QED
        BY <4>3, <4>4
    <3> QED
      BY <3>1, <3>2
  <2> QED
    BY <2>1, <2>2, <2>3, <1>0, <1>1 DEF Covered
<1>7. ~auditIgnored => Sized(q, lo, low)'
  BY BitFacts, SizedStays DEF Record
<1> QED
  BY <1>1, <1>2, <1>4, <1>5, <1>6, <1>7 DEF Record

\* The newline after it (audit.rs 128).
LEMMA NewlineWritten ==
    ASSUME LogTypes, LogTypes', NEW lo \in [Audit!Slots -> Nat], NEW hi \in [Audit!Slots -> Nat], NEW low \in Nat,
           NEW p, NEW q, p = <<"newline", 0>>, q = Audit!NoStep, Record(p, lo, hi, low), Full(0),
           UNCHANGED <<logNames, auditFaults, auditIgnored, lastEvent>>,
           Audit!Bytes(0)' = Append(Audit!Bytes(0), Audit!Newline),
           \A n \in Audit!Slots : (Full(n)' <=> Full(n)) /\ (n # 0 => Audit!Bytes(n)' = Audit!Bytes(n))
    PROVE  Record(q, lo, hi, low)'
<1>0. Audit!Slots = 0..Archives /\ Archives \in Nat /\ 0 \in 0..Archives
  BY AuditConstants
<1>1. PICK e \in Nat, a \in Nat : e = hi[0] /\ a = lo[0] /\ a <= e + 1
  BY <1>0 DEF Record, Ordered
<1>2. PICK s \in Seq(Nat) : s = Audit!Bytes(0) /\ Holds(s, a, e) /\ Audit!Lines(s) + a <= e
  BY <1>0, <1>1, BytesType DEF Record, Ordered
<1>3. Holds(Audit!Bytes(0)', a, e)
  BY <1>1, <1>2, HoldsMore
<1>4. Ordered(lo, hi)'
  <2>1. \A n \in 0..Archives : Full(n)' => Holds(Audit!Bytes(n), lo[n], hi[n])'
    <3> SUFFICES ASSUME NEW n \in 0..Archives, Full(n)' PROVE Holds(Audit!Bytes(n)', lo[n], hi[n])
      BY DEF Holds
    <3>1. CASE n = 0
      BY <3>1, <1>1, <1>3
    <3>2. CASE n # 0
      BY <3>2, <1>0 DEF Record, Ordered
    <3> QED
      BY <3>1, <3>2
  <2> QED
    BY <2>1, <1>0 DEF Record, Ordered
<1>5. ~auditIgnored => Covered(lo, hi, low)'
  BY <1>0 DEF Record, Covered
<1>6. ~auditIgnored => Sized(q, lo, low)'
  BY BitFacts, SizedStays DEF Record
<1>7. q # <<"newline", 0>>
  BY AuditConstants
<1> QED
  BY <1>4, <1>5, <1>6, <1>7 DEF Record

\* No step of a writer changes what was written: a file is new, or one that was
\* there, or one to which a newline or the next event has been appended.
Rewritten ==
    \A n \in Audit!Slots :
        \/ Audit!Bytes(n)' = <<>>
        \/ \E m \in Audit!Slots : Audit!Bytes(n)' = Audit!Bytes(m)
        \/ \E m \in Audit!Slots, c \in {Audit!Newline, lastEvent + 1} :
              Audit!Bytes(n)' = Append(Audit!Bytes(m), c)

\* The parts of the invariant, put together.
LEMMA LogHolds ==
    ASSUME LogTypes', NEW q \in Steps, At(q)', Shape(q)',
           NEW lo \in [Audit!Slots -> Nat], NEW hi \in [Audit!Slots -> Nat], NEW low \in Nat, Record(q, lo, hi, low)'
    PROVE  LogInv'
BY DEF LogInv

\* A step that leaves the files alone.
LEMMA LogStays ==
    ASSUME LogTypes, UNCHANGED <<logNames, logData, lastEvent>>, auditFaults' \in Nat, auditIgnored' \in BOOLEAN,
           logFd' = [w \in AuditWriters |-> logFd'[w]]
    PROVE  LogTypes' /\ Rewritten /\ \A n : (Full(n)' <=> Full(n)) /\ Audit!Bytes(n)' = Audit!Bytes(n)
<1>1. \A n : (Full(n)' <=> Full(n)) /\ Audit!Bytes(n)' = Audit!Bytes(n)
  BY DEF Full, Audit!Bytes
<1>2. LogTypes'
  BY <1>1 DEF LogTypes
<1> QED
  BY <1>1, <1>2 DEF Rewritten

\* write_audit_event begins: it rotates a log that is full (audit.rs 109-117).
LEMMA BeginsStep ==
    ASSUME LogInv, ~AuditOverlap, NEW w \in AuditWriters, Audit!Begins(w)
    PROVE  LogInv' /\ Rewritten
<1>1. PICK p \in Steps : At(p) /\ Shape(p)
          /\ \E lo \in [Audit!Slots -> Nat], hi \in [Audit!Slots -> Nat], low \in Nat : Record(p, lo, hi, low)
  BY DEF LogInv
<1>2. PICK lo \in [Audit!Slots -> Nat], hi \in [Audit!Slots -> Nat], low \in Nat : Record(p, lo, hi, low)
  BY <1>1
<1>3. p = Audit!NoStep /\ writing = [v \in AuditWriters |-> Audit!NoStep]
  <2>1. \A v \in AuditWriters : writing[v] = Audit!NoStep
    BY DEF Audit!Begins
  <2> QED
    BY <1>1, <2>1 DEF At
<1>4. PICK q : q = IF Audit!Lines(Audit!Bytes(0)) >= LogLines THEN <<"drop", Archives>> ELSE <<"open", 0>>
  OBVIOUS
<1>5. Audit!Goes(w, q) /\ UNCHANGED <<logNames, logData, logFd, lastEvent, auditFaults, auditIgnored>>
  BY <1>4 DEF Audit!Begins, Audit!files
<1>6. LogTypes /\ auditIgnored' \in BOOLEAN /\ auditFaults' \in Nat /\ logFd' = [v \in AuditWriters |-> logFd'[v]]
  BY <1>5 DEF LogInv, LogTypes
<1>7. LogTypes' /\ Rewritten /\ \A n : (Full(n)' <=> Full(n)) /\ Audit!Bytes(n)' = Audit!Bytes(n)
  BY <1>5, <1>6, LogStays
<1>8. q \in Steps /\ q \notin {<<"line", 0>>, <<"newline", 0>>} /\ \A k \in 0..(Archives - 1) : q # <<"shift", k>>
  BY <1>4 DEF Steps
<1>9. At(q)'
  <2>1. writing = [v \in AuditWriters |-> IF v = w THEN p ELSE Audit!NoStep]
    BY <1>3
  <2> QED
    BY <2>1, <1>5, <1>8, GoesOn
<1>10. Record(q, lo, hi, low)'
  <2>1. \A n : Bit(p, n) = 0 /\ Bit(q, n) = 0
    BY <1>3, <1>4, BitFacts
  <2>2. \A n \in 1..(Archives + 1) : auditFaults + Bit(p, n) <= auditFaults' + Bit(q, n)
    BY <2>1, <1>5, <1>6
  <2> QED
    BY <2>2, <1>2, <1>5, <1>6, <1>8, FilesStay
<1>11. Shape(q)'
  <2>1. CASE q = <<"drop", Archives>>
    <3>1. Audit!Lines(Audit!Bytes(0)) >= LogLines
      BY <2>1, <1>4
    <3>2. Full(0)
      BY <3>1, <1>2, <1>6, LogLong
    <3>3. Full(0)' /\ (Audit!Lines(Audit!Bytes(0)) >= LogLines)'
      BY <3>1, <3>2, <1>7
    <3> QED
      BY <3>3, <1>8 DEF Shape
  <2>2. CASE q # <<"drop", Archives>>
    BY <2>2, <1>8 DEF Shape
  <2> QED
    BY <2>1, <2>2
<1> QED
  BY <1>7, <1>8, <1>9, <1>10, <1>11, LogHolds

\* A rotation or a write is given up (audit.rs 111-115, 119-128).
LEMMA GivesUp ==
    ASSUME LogInv, NEW w \in AuditWriters, Audit!RotationFails(w) \/ Audit!Stops(w)
    PROVE  LogInv' /\ Rewritten
<1>1. PICK p \in Steps : At(p) /\ Shape(p)
          /\ \E lo \in [Audit!Slots -> Nat], hi \in [Audit!Slots -> Nat], low \in Nat : Record(p, lo, hi, low)
  BY DEF LogInv
<1>2. PICK lo \in [Audit!Slots -> Nat], hi \in [Audit!Slots -> Nat], low \in Nat : Record(p, lo, hi, low)
  BY <1>1
<1>3. PICK q \in {<<"open", 0>>, Audit!NoStep} : Audit!Goes(w, q)
  BY DEF Audit!RotationFails, Audit!Stops
<1>4. /\ writing[w] # Audit!NoStep /\ auditFaults' = auditFaults + 1
      /\ UNCHANGED <<logNames, logData, lastEvent, auditIgnored>>
  BY AuditConstants DEF Audit!RotationFails, Audit!Stops, Audit!files
<1>5. LogTypes /\ auditIgnored' \in BOOLEAN /\ auditFaults \in Nat /\ auditFaults' \in Nat /\ logFd' = [v \in AuditWriters |-> logFd'[v]]
  <2>1. logFd' = logFd \/ logFd' = [logFd EXCEPT ![w] = Audit!NoFile]
    BY DEF Audit!RotationFails, Audit!Stops
  <2> QED
    BY <2>1, <1>4 DEF LogInv, LogTypes
<1>6. writing = [v \in AuditWriters |-> IF v = w THEN p ELSE Audit!NoStep]
  BY <1>1, <1>4, Alone
<1>7. LogTypes' /\ Rewritten
  BY <1>4, <1>5, LogStays
<1>8. /\ q \in Steps /\ q \notin {<<"line", 0>>, <<"newline", 0>>} /\ q # <<"drop", Archives>>
      /\ \A k \in 0..(Archives - 1) : q # <<"shift", k>>
  BY <1>3, AuditConstants DEF Steps
<1>9. At(q)'
  BY <1>3, <1>6, <1>8, GoesOn
<1>10. Record(q, lo, hi, low)'
  <2>1. ASSUME NEW n \in 1..(Archives + 1) PROVE auditFaults + Bit(p, n) <= auditFaults' + Bit(q, n)
    <3>1. PICK b \in {0, 1}, c \in {0, 1} : b = Bit(p, n) /\ c = Bit(q, n)
      BY BitFacts
    <3>2. auditFaults + b <= (auditFaults + 1) + c
      BY <1>5
    <3> QED
      BY <3>1, <3>2, <1>4
  <2> QED
    BY <2>1, <1>2, <1>4, <1>5, <1>8, FilesStay
<1>11. Shape(q)'
  BY <1>8 DEF Shape
<1> QED
  BY <1>7, <1>8, <1>9, <1>10, <1>11, LogHolds

\* An archive that could not be removed or renamed stays, and the rotation goes
\* on (audit.rs 271, 281).
LEMMA IgnoreStep ==
    ASSUME LogInv, NEW w \in AuditWriters, Audit!IgnoresFailure(w)
    PROVE  LogInv' /\ Rewritten
<1>1. PICK p \in Steps : At(p) /\ Shape(p)
          /\ \E lo \in [Audit!Slots -> Nat], hi \in [Audit!Slots -> Nat], low \in Nat : Record(p, lo, hi, low)
  BY DEF LogInv
<1>2. PICK lo \in [Audit!Slots -> Nat], hi \in [Audit!Slots -> Nat], low \in Nat : Record(p, lo, hi, low)
  BY <1>1
<1>3. PICK n \in 1..Archives :
          /\ writing[w] = IF n = Archives THEN <<"drop", n>> ELSE <<"shift", n>>
          /\ Audit!Goes(w, <<"shift", n - 1>>) /\ auditFaults' = auditFaults + 1 /\ auditIgnored' = TRUE
          /\ UNCHANGED <<logNames, logData, logFd, lastEvent>>
  BY DEF Audit!IgnoresFailure, Audit!files
<1>4. PICK q : q = <<"shift", n - 1>>
  OBVIOUS
<1>0. Archives \in Nat /\ n - 1 \in 0..(Archives - 1) /\ (n # Archives => n \in 0..(Archives - 1))
  BY AuditConstants
<1>5. p = writing[w] /\ writing = [v \in AuditWriters |-> IF v = w THEN p ELSE Audit!NoStep]
  <2>1. writing[w] # Audit!NoStep
    BY <1>3, AuditConstants
  <2> QED
    BY <2>1, <1>1, Alone
<1>6. p = <<"drop", Archives>> \/ \E k \in 0..(Archives - 1) : p = <<"shift", k>>
  BY <1>0, <1>3, <1>5
<1>7. LogTypes /\ auditIgnored' \in BOOLEAN /\ auditFaults' \in Nat /\ logFd' = [v \in AuditWriters |-> logFd'[v]]
  BY <1>3 DEF LogInv, LogTypes
<1>8. LogTypes' /\ Rewritten /\ \A i : (Full(i)' <=> Full(i)) /\ Audit!Bytes(i)' = Audit!Bytes(i)
  BY <1>3, <1>7, LogStays
<1>9. q \in Steps /\ q \notin {<<"line", 0>>, <<"newline", 0>>}
  BY <1>0, <1>4 DEF Steps
<1>10. At(q)'
  BY <1>3, <1>4, <1>5, <1>9, GoesOn
<1>11. Record(q, lo, hi, low)'
  <2>1. Ordered(lo, hi)'
    BY <1>2, <1>3, <1>8 DEF Record, Ordered
  <2> QED
    BY <2>1, <1>3, <1>9 DEF Record
<1>12. Shape(q)'
  <2>1. Full(0) /\ Audit!Lines(Audit!Bytes(0)) >= LogLines
    BY <1>1, <1>6 DEF Shape
  <2>2. Full(0)' /\ (Audit!Lines(Audit!Bytes(0)) >= LogLines)'
    BY <2>1, <1>8
  <2> QED
    BY <2>2, <1>3, <1>9 DEF Shape
<1> QED
  BY <1>8, <1>9, <1>10, <1>11, <1>12, LogHolds

\* The oldest archive goes.
LEMMA DropStep ==
    ASSUME LogInv, NEW w \in AuditWriters, Audit!DropsOldest(w)
    PROVE  LogInv' /\ Rewritten
<1>1. PICK p \in Steps : At(p) /\ Shape(p)
          /\ \E lo \in [Audit!Slots -> Nat], hi \in [Audit!Slots -> Nat], low \in Nat : Record(p, lo, hi, low)
  BY DEF LogInv
<1>2. PICK lo \in [Audit!Slots -> Nat], hi \in [Audit!Slots -> Nat], low \in Nat : Record(p, lo, hi, low)
  BY <1>1
<1>3. PICK q : q = <<"shift", Archives - 1>>
  OBVIOUS
<1>4. /\ writing[w] = <<"drop", Archives>> /\ writing[w] # Audit!NoStep /\ Audit!Goes(w, q)
      /\ logNames' = [logNames EXCEPT ![Archives] = Audit!NoFile]
      /\ UNCHANGED <<logData, logFd, lastEvent, auditFaults, auditIgnored>>
  BY <1>3, AuditConstants DEF Audit!DropsOldest
<1>5. p = <<"drop", Archives>> /\ writing = [v \in AuditWriters |-> IF v = w THEN p ELSE Audit!NoStep]
  BY <1>1, <1>4, Alone
<1>0. /\ Archives \in Nat /\ Archives >= 1 /\ Audit!Slots = 0..Archives /\ 0 \in 0..Archives
      /\ Archives - 1 \in 0..(Archives - 1) /\ (Archives - 1) + 1 = Archives /\ Audit!NoFile = 0
      /\ \A k \in 0..(Archives - 1) : k = Archives - 1 => k + 1 = Archives
  BY AuditConstants
<1>6. LogTypes
  BY DEF LogInv
<1>7. /\ logNames'[Archives] = 0 /\ \A n \in 0..Archives : n # Archives => logNames'[n] = logNames[n]
      /\ logNames' = [n \in 0..Archives |-> logNames'[n]]
  <2>1. Archives \in 0..Archives
    BY <1>0
  <2>2. DOMAIN logNames = 0..Archives
    BY <1>0, <1>6 DEF LogTypes
  <2>3. logNames' = [n \in 0..Archives |-> IF n = Archives THEN 0 ELSE logNames[n]]
    BY <2>2, <1>0, <1>4, <1>6 DEF LogTypes
  <2> QED
    BY <2>1, <2>3
<1>8. /\ ~Full(Archives)' /\ \A n \in 0..Archives : n # Archives => (Full(n)' <=> Full(n))
      /\ Audit!Bytes(Archives)' = <<>> /\ \A n \in 0..Archives : n # Archives => Audit!Bytes(n)' = Audit!Bytes(n)
  BY <1>0, <1>4, <1>7 DEF Full, Audit!Bytes
<1>9. Rewritten
  BY <1>0, <1>8 DEF Rewritten
<1>10. LogTypes'
  <2>1. PICK d \in Nat : d = Len(logData) /\ d = Len(logData')
    BY <1>4, <1>6, LenProperties DEF LogTypes
  <2>2. \A n \in 0..Archives : logNames'[n] \in 0..d
    <3>1. \A n \in 0..Archives : logNames[n] \in 0..d
      BY <2>1, <1>0, <1>6 DEF LogTypes
    <3>2. 0 \in 0..d
      BY <2>1
    <3> QED
      BY <3>1, <3>2, <1>7
  <2>3. logNames' \in [0..Archives -> 0..d]
    BY <2>2, <1>7
  <2>4. ASSUME NEW m \in 0..Archives, NEW n \in 0..Archives, m # n, Full(m)' PROVE logNames'[m] # logNames'[n]
    <3>1. m # Archives /\ Full(m) /\ logNames'[m] = logNames[m] /\ logNames[m] # 0
      BY <2>4, <1>0, <1>7, <1>8 DEF Full
    <3>2. CASE n = Archives
      BY <3>1, <3>2, <1>7
    <3>3. CASE n # Archives
      BY <2>4, <3>1, <3>3, <1>0, <1>6, <1>7 DEF LogTypes
    <3> QED
      BY <3>2, <3>3
  <2> QED
    BY <2>1, <2>3, <2>4, <1>0, <1>4, <1>6 DEF LogTypes
<1>11. PICK l \in Nat : Record(q, lo, hi, l)'
  BY <1>1, <1>2, <1>3, <1>4, <1>5, <1>6, OldestDropped
<1>12. q \in Steps /\ q \notin {<<"line", 0>>, <<"newline", 0>>}
  BY <1>0, <1>3 DEF Steps
<1>13. At(q)'
  BY <1>4, <1>5, <1>12, GoesOn
<1>14. Shape(q)'
  <2>1. Full(0) /\ Audit!Lines(Audit!Bytes(0)) >= LogLines
    BY <1>1, <1>5 DEF Shape
  <2>2. Full(0)' /\ (Audit!Lines(Audit!Bytes(0)) >= LogLines)'
    BY <2>1, <1>0, <1>8
  <2>3. \A k \in 0..(Archives - 1) : q = <<"shift", k>> => ~Full(k + 1)'
    BY <1>0, <1>3, <1>8
  <2> QED
    BY <2>2, <2>3, <1>12 DEF Shape
<1> QED
  BY <1>9, <1>10, <1>11, <1>12, <1>13, <1>14, LogHolds

\* An archive, and at last the log, takes the next name.
LEMMA ShiftStep ==
    ASSUME LogInv, NEW w \in AuditWriters, Audit!Shifts(w)
    PROVE  LogInv' /\ Rewritten
<1>1. PICK p \in Steps : At(p) /\ Shape(p)
          /\ \E lo \in [Audit!Slots -> Nat], hi \in [Audit!Slots -> Nat], low \in Nat : Record(p, lo, hi, low)
  BY DEF LogInv
<1>2. PICK lo \in [Audit!Slots -> Nat], hi \in [Audit!Slots -> Nat], low \in Nat : Record(p, lo, hi, low)
  BY <1>1
<1>3. PICK k \in Audit!Slots \ {Archives} :
          /\ writing[w] = <<"shift", k>> /\ Audit!Renamed(k)
          /\ Audit!Goes(w, IF k = 0 THEN <<"open", 0>> ELSE <<"shift", k - 1>>)
          /\ UNCHANGED <<logData, logFd, lastEvent, shown, olderThan, auditFaults, auditIgnored>>
  BY DEF Audit!Shifts
<1>4. PICK q : q = IF k = 0 THEN <<"open", 0>> ELSE <<"shift", k - 1>>
  OBVIOUS
<1>0. /\ Archives \in Nat /\ Archives >= 1 /\ Audit!Slots = 0..Archives /\ 0 \in 0..Archives
      /\ Audit!NoFile = 0 /\ k \in 0..(Archives - 1) /\ k \in Nat /\ k \in 0..Archives /\ k + 1 \in 0..Archives
  BY <1>3, AuditConstants
<1>5. p = <<"shift", k>> /\ writing = [v \in AuditWriters |-> IF v = w THEN p ELSE Audit!NoStep]
  <2>1. writing[w] # Audit!NoStep
    BY <1>3, AuditConstants
  <2> QED
    BY <2>1, <1>1, <1>3, Alone
<1>6. LogTypes
  BY DEF LogInv
<1>7. Full(0) /\ Audit!Lines(Audit!Bytes(0)) >= LogLines /\ (~Full(k + 1) \/ auditIgnored)
  BY <1>0, <1>1, <1>5 DEF Shape
<1>8. q \in Steps /\ q \notin {<<"line", 0>>, <<"newline", 0>>} /\ q # <<"drop", Archives>>
  <2>1. k # 0 => k - 1 \in 0..(Archives - 1)
    BY <1>0
  <2> QED
    BY <2>1, <1>4 DEF Steps
<1>9. At(q)'
  BY <1>3, <1>4, <1>5, <1>8, GoesOn
<1>10. CASE ~Full(k)
  <2>1. UNCHANGED <<logNames, logData, logFd, lastEvent, auditFaults, auditIgnored>>
    BY <1>3, <1>10 DEF Audit!Renamed, Full
  <2>2. auditIgnored' \in BOOLEAN /\ auditFaults' \in Nat /\ auditFaults \in Nat /\ logFd' = [v \in AuditWriters |-> logFd'[v]] /\ k # 0
    BY <2>1, <1>6, <1>7, <1>10 DEF LogTypes
  <2>3. LogTypes' /\ Rewritten /\ \A n : (Full(n)' <=> Full(n)) /\ Audit!Bytes(n)' = Audit!Bytes(n)
    BY <2>1, <2>2, <1>6, LogStays
  <2>4. q = <<"shift", k - 1>> /\ k - 1 \in 0..(Archives - 1) /\ (k - 1) + 1 = k
    <3>1. k # 0 /\ k \in 0..(Archives - 1) /\ Archives \in Nat
      BY <2>2, <1>0
    <3>2. q = <<"shift", k - 1>>
      BY <3>1, <1>4
    <3>3. k - 1 \in 0..(Archives - 1) /\ (k - 1) + 1 = k
      BY <3>1
    <3> QED
      BY <3>2, <3>3
  <2>5. Record(q, lo, hi, low)'
    <3>1. ASSUME NEW n \in 1..(Archives + 1) PROVE auditFaults + Bit(p, n) <= auditFaults' + Bit(q, n)
      <4>1. n \in Nat
        OBVIOUS
      <4>2. Bit(p, n) = (IF n > k + 1 THEN 1 ELSE 0) /\ Bit(q, n) = (IF n > k THEN 1 ELSE 0)
        BY <4>1, <2>4, <1>0, <1>5, BitFacts
      <4> QED
        BY <4>1, <4>2, <2>1, <2>2, <1>0
    <3>2. q # <<"newline", 0>>
      BY <1>8
    <3> QED
      BY <3>1, <3>2, <2>1, <2>2, <1>2, <1>6, FilesStay
  <2>6. Shape(q)'
    <3>1. Full(0)' /\ (Audit!Lines(Audit!Bytes(0)) >= LogLines)'
      BY <2>3, <1>7
    <3>2. \A j \in 0..(Archives - 1) : q = <<"shift", j>> => (~Full(j + 1) \/ auditIgnored)'
      BY <2>3, <2>4, <1>10
    <3> QED
      BY <3>1, <3>2, <1>8 DEF Shape
  <2> QED
    BY <2>3, <2>5, <2>6, <1>8, <1>9, LogHolds
<1>11. CASE Full(k)
  <2>1. logNames' = [logNames EXCEPT ![k + 1] = logNames[k], ![k] = Audit!NoFile]
    BY <1>3, <1>11 DEF Audit!Renamed, Full
  <2>2. PICK mo, mh : mo = [lo EXCEPT ![k + 1] = lo[k]] /\ mh = [hi EXCEPT ![k + 1] = hi[k]]
    OBVIOUS
  <2>3. lo[0] + LogLines <= lastEvent + 1 /\ lo[0] <= lastEvent /\ hi[0] = lastEvent
    BY <1>2, <1>6, <1>7, LogLong
  <2>4. lo[k] <= hi[k]
    <3>1. CASE k = 0
      BY <3>1, <2>3
    <3>2. CASE k # 0
      BY <3>2, <1>0, <1>2, <1>11 DEF Record, Ordered
    <3> QED
      BY <3>1, <3>2
  <2>5. Ordered(mo, mh)' /\ (~auditIgnored => Covered(mo, mh, low)') /\ LogTypes' /\ mo \in [Audit!Slots -> Nat] /\ mh \in [Audit!Slots -> Nat]
    BY <2>1, <2>2, <2>4, <1>0, <1>2, <1>3, <1>6, <1>7, <1>11, FileMoved DEF Record
  <2>6. /\ logNames'[k] = Audit!NoFile /\ logNames'[k + 1] # Audit!NoFile
        /\ \A m \in 0..Archives : m # k /\ m # k + 1 => logNames'[m] = logNames[m]
    BY <2>1, <1>0, <1>6, <1>7, <1>11, NamesMoved
  <2>7. mo[k + 1] = lo[k] /\ \A n \in 0..Archives : n # k + 1 => mo[n] = lo[n]
    BY <2>2, <1>0
  <2>8. logNames'[k + 1] = logNames[k]
    BY <2>1, <1>0, <1>6 DEF LogTypes
  <2>9. Rewritten
    <3> SUFFICES ASSUME NEW n \in 0..Archives
        PROVE  Audit!Bytes(n)' = <<>> \/ \E m \in 0..Archives : Audit!Bytes(n)' = Audit!Bytes(m)
      BY <1>0 DEF Rewritten
    <3>1. CASE n = k
      BY <3>1, <2>6 DEF Audit!Bytes
    <3>2. CASE n = k + 1
      BY <3>2, <2>8, <1>0, <1>3 DEF Audit!Bytes
    <3>3. CASE n # k /\ n # k + 1
      BY <3>3, <2>6, <1>3 DEF Audit!Bytes
    <3> QED
      BY <3>1, <3>2, <3>3
  <2>10. CASE k = 0
    <3>1. q = <<"open", 0>> /\ p = <<"shift", 0>>
      BY <2>10, <1>4, <1>5
    <3>2. PICK x \in Nat : x = lo[0] /\ x + LogLines <= lastEvent + 1
      BY <2>3, <1>0
    <3>3. \A n \in 0..Archives : lo[n] \in Nat
      BY <1>0
    <3>4. ~auditIgnored => Sized(q, mo, low)'
      <4> SUFFICES ASSUME ~auditIgnored PROVE Sized(q, mo, low)'
        OBVIOUS
      <4>a. Sized(p, lo, low)
        BY <1>2 DEF Record
      <4>1. /\ logNames'[0] = Audit!NoFile /\ logNames'[1] # Audit!NoFile
            /\ \A m \in 0..Archives : m # 0 /\ m # 1 => logNames'[m] = logNames[m]
            /\ mo[1] = lo[0] /\ \A n \in 0..Archives : n # 1 => mo[n] = lo[n]
            /\ ~Full(1) /\ UNCHANGED <<lastEvent, auditFaults>>
        BY <2>6, <2>7, <2>10, <1>3, <1>7
      <4> QED
        BY <4>1, <4>a, <3>1, <3>2, <3>3, <1>6, <1>7, LogMoved
    <3>5. Record(q, mo, mh, low)'
      BY <3>1, <3>4, <2>5, <1>3 DEF Record
    <3>6. Shape(q)'
      BY <3>1 DEF Shape
    <3> QED
      BY <3>5, <3>6, <2>5, <2>9, <1>8, <1>9, LogHolds
  <2>11. CASE k # 0
    <3>1. q = <<"shift", k - 1>> /\ k >= 1 /\ k + 1 <= Archives /\ k - 1 \in 0..(Archives - 1) /\ (k - 1) + 1 = k /\ 0 # k /\ 0 # k + 1
      BY <2>11, <1>0, <1>4
    <3>2. ~auditIgnored => Sized(q, mo, low)'
      <4> SUFFICES ASSUME ~auditIgnored PROVE Sized(q, mo, low)'
        OBVIOUS
      <4>1. Sized(p, lo, low) /\ ~Full(k + 1) /\ UNCHANGED <<lastEvent, auditFaults>>
        BY <1>2, <1>3, <1>7 DEF Record
      <4> QED
        BY <4>1, <3>1, <2>6, <2>7, <1>0, <1>5, <1>6, <1>11, ArchiveMoved
    <3>3. Record(q, mo, mh, low)'
      BY <3>2, <2>5, <1>3, <1>8 DEF Record
    <3>4. Shape(q)'
      <4>1. logNames'[0] = logNames[0]
        BY <3>1, <2>6, <1>0
      <4>2. Full(0)' /\ Audit!Bytes(0)' = Audit!Bytes(0)
        BY <4>1, <1>3, <1>7 DEF Full, Audit!Bytes
      <4>3. Full(0)' /\ (Audit!Lines(Audit!Bytes(0)) >= LogLines)'
        BY <4>2, <1>7
      <4>4. \A j \in 0..(Archives - 1) : q = <<"shift", j>> => ~Full(j + 1)'
        BY <3>1, <2>6 DEF Full
      <4> QED
        BY <4>3, <4>4, <1>8 DEF Shape
    <3> QED
      BY <3>3, <3>4, <2>5, <2>9, <1>8, <1>9, LogHolds
  <2> QED
    BY <2>10, <2>11
<1> QED
  BY <1>10, <1>11

\* The log is opened, and created when it is not there.
LEMMA OpenStep ==
    ASSUME LogInv, NEW w \in AuditWriters, Audit!Opens(w)
    PROVE  LogInv' /\ Rewritten
<1>1. PICK p \in Steps : At(p) /\ Shape(p)
          /\ \E lo \in [Audit!Slots -> Nat], hi \in [Audit!Slots -> Nat], low \in Nat : Record(p, lo, hi, low)
  BY DEF LogInv
<1>2. PICK lo \in [Audit!Slots -> Nat], hi \in [Audit!Slots -> Nat], low \in Nat : Record(p, lo, hi, low)
  BY <1>1
<1>3. PICK q : q = <<"line", 0>>
  OBVIOUS
<1>4. /\ writing[w] = <<"open", 0>> /\ writing[w] # Audit!NoStep /\ Audit!Goes(w, q)
      /\ logFd' = [logFd EXCEPT ![w] = logNames'[0]] /\ UNCHANGED <<lastEvent, auditFaults, auditIgnored>>
  BY <1>3, AuditConstants DEF Audit!Opens
<1>5. p = <<"open", 0>> /\ writing = [v \in AuditWriters |-> IF v = w THEN p ELSE Audit!NoStep]
  BY <1>1, <1>4, Alone
<1>6. LogTypes /\ auditIgnored' \in BOOLEAN /\ auditFaults' \in Nat /\ auditFaults \in Nat
  BY <1>4 DEF LogInv, LogTypes
<1>7. logFd' = [v \in AuditWriters |-> logFd'[v]] /\ logFd'[w] = logNames'[0]
  BY <1>4, <1>6 DEF LogTypes
<1>8. q \in Steps /\ At(q)'
  <2>1. At(q)'
    BY <1>4, <1>5, <1>7, GoesOn
  <2> QED
    BY <2>1, <1>3 DEF Steps
<1>9. Full(0)' => Shape(q)'
  BY <1>3 DEF Shape
<1>10. CASE Full(0)
  <2>1. UNCHANGED <<logNames, logData>>
    BY <1>10 DEF Audit!Opens, Audit!files, Full
  <2>2. LogTypes' /\ Rewritten /\ Full(0)'
    BY <2>1, <1>4, <1>6, <1>7, <1>10, LogStays
  <2>3. Record(q, lo, hi, low)'
    <3>1. \A n \in 1..(Archives + 1) : auditFaults + Bit(p, n) <= auditFaults' + Bit(q, n)
      BY <1>3, <1>4, <1>5, <1>6, BitFacts
    <3>2. q # <<"newline", 0>>
      BY <1>3
    <3> QED
      BY <3>1, <3>2, <2>1, <1>2, <1>4, <1>6, FilesStay
  <2> QED
    BY <2>2, <2>3, <1>8, <1>9, LogHolds
<1>11. CASE ~Full(0)
  <2>1. logData' = Append(logData, <<>>) /\ logNames' = [logNames EXCEPT ![0] = Len(logData')]
    BY <1>11 DEF Audit!Opens, Full
  <2>2. PICK mo, mh : mo = [lo EXCEPT ![0] = lastEvent + 1] /\ mh = [hi EXCEPT ![0] = lastEvent]
    OBVIOUS
  <2>3. /\ Record(q, mo, mh, low)' /\ LogTypes' /\ Full(0)'
        /\ mo \in [Audit!Slots -> Nat] /\ mh \in [Audit!Slots -> Nat]
        /\ \A n \in Audit!Slots : Audit!Bytes(n)' = Audit!Bytes(n)
    BY <2>1, <2>2, <1>2, <1>3, <1>4, <1>5, <1>6, <1>7, <1>11, LogCreated
  <2>4. Rewritten
    BY <2>3 DEF Rewritten
  <2> QED
    BY <2>3, <2>4, <1>8, <1>9, LogHolds
<1> QED
  BY <1>10, <1>11

\* The line of an event, and the newline after it.
LEMMA WriteStep ==
    ASSUME LogInv, NEW w \in AuditWriters, Audit!WritesLine(w) \/ Audit!WritesNewline(w)
    PROVE  LogInv' /\ Rewritten
<1>1. PICK p \in Steps : At(p) /\ Shape(p)
          /\ \E lo \in [Audit!Slots -> Nat], hi \in [Audit!Slots -> Nat], low \in Nat : Record(p, lo, hi, low)
  BY DEF LogInv
<1>2. PICK lo \in [Audit!Slots -> Nat], hi \in [Audit!Slots -> Nat], low \in Nat : Record(p, lo, hi, low)
  BY <1>1
<1>3. LogTypes /\ lastEvent \in Nat /\ lastEvent + 1 \in Nat /\ auditFaults \in Nat
  BY DEF LogInv, LogTypes
<1>4. writing[w] \in {<<"line", 0>>, <<"newline", 0>>} /\ writing[w] # Audit!NoStep
  <2>1. writing[w] = <<"line", 0>> \/ writing[w] = <<"newline", 0>>
    BY DEF Audit!WritesLine, Audit!WritesNewline
  <2>2. <<"line", 0>> # Audit!NoStep /\ <<"newline", 0>> # Audit!NoStep
    BY AuditConstants
  <2> QED
    BY <2>1, <2>2
<1>5. /\ p = writing[w] /\ writing = [v \in AuditWriters |-> IF v = w THEN p ELSE Audit!NoStep]
      /\ logFd[w] = logNames[0] /\ Full(0)
  BY <1>1, <1>4, Alone DEF Shape
<1>6. Audit!Slots = 0..Archives /\ 0 \in Audit!Slots /\ Audit!Newline = 0 /\ 0 \in Nat
  BY AuditConstants
<1>7. CASE Audit!WritesLine(w)
  <2>1. PICK q : q = <<"newline", 0>>
    OBVIOUS
  <2>2. /\ p = <<"line", 0>> /\ lastEvent' = lastEvent + 1 /\ Audit!Goes(w, q)
        /\ UNCHANGED <<logNames, logFd, auditFaults, auditIgnored>>
        /\ logData' = [logData EXCEPT ![logNames[0]] = Append(@, lastEvent + 1)]
    BY <2>1, <1>5, <1>7 DEF Audit!WritesLine, Audit!Appends
  <2>3. lastEvent' \in Nat /\ auditIgnored' \in BOOLEAN /\ auditFaults' \in Nat /\ logFd' = [v \in AuditWriters |-> logFd'[v]]
    BY <2>2, <1>3 DEF LogTypes
  <2>4. /\ LogTypes' /\ Audit!Bytes(0)' = Append(Audit!Bytes(0), lastEvent + 1)
        /\ \A n \in Audit!Slots : (Full(n)' <=> Full(n)) /\ (n # 0 => Audit!Bytes(n)' = Audit!Bytes(n))
    BY <2>2, <2>3, <1>3, <1>5, LogAppended
  <2>5. PICK mh \in [Audit!Slots -> Nat] : mh[0] = lastEvent + 1 /\ \A n \in Audit!Slots : n # 0 => mh[n] = hi[n]
    <3>1. PICK z : z = [hi EXCEPT ![0] = lastEvent + 1]
      OBVIOUS
    <3>2. z \in [Audit!Slots -> Nat] /\ z[0] = lastEvent + 1 /\ \A n \in Audit!Slots : n # 0 => z[n] = hi[n]
      BY <3>1, <1>3, <1>6
    <3> QED
      BY <3>2
  <2>6. Record(q, lo, mh, low)'
    BY <2>1, <2>2, <2>4, <2>5, <1>2, <1>3, <1>5, LineWritten
  <2>7. q \in Steps /\ At(q)' /\ Shape(q)'
    <3>1. At(q)'
      BY <2>2, <1>5, GoesOn
    <3>2. Full(0)'
      BY <2>4, <1>5, <1>6
    <3> QED
      BY <2>1, <3>1, <3>2 DEF Steps, Shape
  <2>8. Rewritten
    BY <2>4, <1>6 DEF Rewritten
  <2> QED
    BY <2>4, <2>6, <2>7, <2>8, LogHolds
<1>8. CASE Audit!WritesNewline(w)
  <2>1. PICK q : q = Audit!NoStep
    OBVIOUS
  <2>2. /\ p = <<"newline", 0>> /\ Audit!Goes(w, q) /\ UNCHANGED <<logNames, lastEvent, auditFaults, auditIgnored>>
        /\ logData' = [logData EXCEPT ![logNames[0]] = Append(@, Audit!Newline)]
        /\ logFd' = [logFd EXCEPT ![w] = Audit!NoFile]
    BY <2>1, <1>5, <1>8 DEF Audit!WritesNewline, Audit!Appends
  <2>3. lastEvent' \in Nat /\ auditIgnored' \in BOOLEAN /\ auditFaults' \in Nat /\ logFd' = [v \in AuditWriters |-> logFd'[v]]
    BY <2>2, <1>3 DEF LogTypes
  <2>4. /\ LogTypes' /\ Audit!Bytes(0)' = Append(Audit!Bytes(0), Audit!Newline)
        /\ \A n \in Audit!Slots : (Full(n)' <=> Full(n)) /\ (n # 0 => Audit!Bytes(n)' = Audit!Bytes(n))
    BY <2>2, <2>3, <1>3, <1>5, <1>6, LogAppended
  <2>5. Record(q, lo, hi, low)'
    BY <2>1, <2>2, <2>4, <1>2, <1>3, <1>5, NewlineWritten
  <2>6. q \in Steps /\ At(q)' /\ Shape(q)'
    <3>1. q \notin {<<"line", 0>>, <<"newline", 0>>} /\ q # <<"drop", Archives>> /\ \A k : q # <<"shift", k>>
      BY <2>1, AuditConstants
    <3>2. At(q)'
      BY <3>1, <2>2, <1>5, GoesOn
    <3> QED
      BY <2>1, <3>1, <3>2 DEF Steps, Shape
  <2>7. Rewritten
    BY <2>4, <1>6 DEF Rewritten
  <2> QED
    BY <2>4, <2>5, <2>6, <2>7, LogHolds
<1> QED
  BY <1>7, <1>8

\* A writer's step changes the record as the invariant says, and nothing of what
\* a device has read.
LEMMA WriterStep ==
    ASSUME LogInv, ~AuditOverlap, NEW w \in AuditWriters, Audit!Writes(w)
    PROVE  /\ LogInv' /\ Rewritten /\ UNCHANGED <<shown, olderThan>>
           /\ lastEvent' = lastEvent \/ lastEvent' = lastEvent + 1
<1>1. LogInv' /\ Rewritten
  BY BeginsStep, DropStep, ShiftStep, IgnoreStep, GivesUp, OpenStep, WriteStep DEF Audit!Writes
<1>2. UNCHANGED <<shown, olderThan>> /\ (lastEvent' = lastEvent \/ lastEvent' = lastEvent + 1)
  BY DEF Audit!Writes, Audit!Begins, Audit!DropsOldest, Audit!Shifts, Audit!IgnoresFailure, Audit!RotationFails, Audit!Opens,
         Audit!WritesLine, Audit!WritesNewline, Audit!Stops
<1> QED
  BY <1>1, <1>2

\* The record at the beginning: no file, and nothing lost.
LEMMA LogBegins == ASSUME Audit!Init PROVE LogInv /\ PagesInv
<1>0. /\ Audit!Slots = 0..Archives /\ Audit!NoFile = 0 /\ Archives \in Nat /\ LogLines \in Nat /\ EventMax \in Nat
  BY AuditConstants
<1>1. /\ logNames = [n \in 0..Archives |-> 0] /\ logData = <<>> /\ lastEvent = 0 /\ auditFaults = 0 /\ auditIgnored = FALSE
      /\ writing = [w \in AuditWriters |-> Audit!NoStep] /\ logFd = [w \in AuditWriters |-> 0]
      /\ shown = <<>> /\ olderThan = EventMax + 1
  BY <1>0 DEF Audit!Init
<1>2. \A n \in 0..Archives : ~Full(n) /\ Audit!Bytes(n) = <<>>
  BY <1>0, <1>1 DEF Full, Audit!Bytes
<1>3. LogTypes
  <2>1. logData \in Seq(Seq(Nat)) /\ Len(logData) = 0
    BY <1>1
  <2>2. logNames \in [0..Archives -> 0..Len(logData)]
    BY <2>1, <1>1
  <2>3. /\ lastEvent \in Nat /\ auditFaults \in Nat /\ auditIgnored \in BOOLEAN
        /\ logFd = [w \in AuditWriters |-> logFd[w]]
    BY <1>1
  <2> QED
    BY <2>1, <2>2, <2>3, <1>0, <1>2 DEF LogTypes
<1>4. PICK p, z : p = Audit!NoStep /\ z = [n \in Audit!Slots |-> 0]
  OBVIOUS
<1>5. p \in Steps /\ At(p) /\ Shape(p)
  <2>1. p \notin {<<"line", 0>>, <<"newline", 0>>} /\ p # <<"drop", Archives>> /\ \A k : p # <<"shift", k>>
    BY <1>4, AuditConstants
  <2> QED
    BY <2>1, <1>1, <1>4 DEF Steps, At, Shape
<1>6. z \in [Audit!Slots -> Nat] /\ 1 \in Nat
  BY <1>4
<1>7. Record(p, z, z, 1)
  <2>1. 0 \in 0..Archives /\ 1..Archives \subseteq 0..Archives /\ p # <<"newline", 0>>
    BY <1>0, <1>4, AuditConstants
  <2>2. Ordered(z, z) /\ Covered(z, z, 1)
    BY <2>1, <1>0, <1>1, <1>2 DEF Ordered, Covered
  <2>3. Sized(p, z, 1)
    BY <2>1, <1>0, <1>2 DEF Sized
  <2> QED
    BY <2>1, <2>2, <2>3 DEF Record
<1>8. PagesInv
  <2>1. Len(shown) = 0 /\ shown \in Seq(Nat)
    BY <1>1
  <2> QED
    BY <2>1, <1>1 DEF PagesInv, Audit!PagesGapFree
<1> QED
  BY <1>3, <1>5, <1>6, <1>7, <1>8 DEF LogInv

\* What the slots hold, and in which order.
LEMMA RecordOrder ==
    ASSUME LogTypes, NEW p, NEW lo \in [Audit!Slots -> Nat], NEW hi \in [Audit!Slots -> Nat], NEW low,
           Record(p, lo, hi, low)
    PROVE  /\ Audit!InOrder
           /\ \A n \in Audit!Slots : Audit!Events(n) = IF Full(n) THEN lo[n]..hi[n] ELSE {}
<1>1. ASSUME NEW n \in Audit!Slots PROVE Audit!Events(n) = IF Full(n) THEN lo[n]..hi[n] ELSE {}
  <2>1. CASE Full(n)
    <3>1. PICK s : s = Audit!Bytes(n) /\ Holds(s, lo[n], hi[n])
      BY <2>1 DEF Record, Ordered
    <3>2. {s[i] : i \in DOMAIN s} \ {Audit!Newline} = lo[n]..hi[n]
      BY <3>1 DEF Holds
    <3> QED
      BY <2>1, <3>1, <3>2 DEF Audit!Events
  <2>2. CASE ~Full(n)
    <3>1. Audit!Bytes(n) = <<>>
      BY <2>2, BytesType
    <3> QED
      BY <2>2, <3>1 DEF Audit!Events
  <2> QED
    BY <2>1, <2>2
<1>2. ASSUME NEW n \in Audit!Slots, NEW i \in DOMAIN Audit!Bytes(n), NEW j \in DOMAIN Audit!Bytes(n), i < j,
             Audit!Newline \notin {Audit!Bytes(n)[i], Audit!Bytes(n)[j]}
      PROVE  Audit!Bytes(n)[i] < Audit!Bytes(n)[j]
  <2>1. CASE Full(n)
    <3>1. PICK s : s = Audit!Bytes(n) /\ Holds(s, lo[n], hi[n])
      BY <2>1 DEF Record, Ordered
    <3>2. i \in DOMAIN s /\ j \in DOMAIN s /\ s[i] # Audit!Newline /\ s[j] # Audit!Newline
      BY <3>1, <1>2
    <3>3. s[i] < s[j]
      BY <3>1, <3>2, <1>2 DEF Holds
    <3> QED
      BY <3>1, <3>3
  <2>2. CASE ~Full(n)
    <3>1. Audit!Bytes(n) = <<>>
      BY <2>2, BytesType
    <3> QED
      BY <3>1
  <2> QED
    BY <2>1, <2>2
<1>3. ASSUME NEW m \in Audit!Slots, NEW n \in Audit!Slots, m < n, NEW d \in Audit!Events(m), NEW e \in Audit!Events(n)
      PROVE  e < d
  <2>1. Full(m) /\ Full(n) /\ d \in lo[m]..hi[m] /\ e \in lo[n]..hi[n]
    BY <1>1
  <2>2. hi[n] < lo[m]
    BY <2>1, <1>3 DEF Record, Ordered
  <2>3. lo[m] \in Nat /\ hi[n] \in Nat
    OBVIOUS
  <2> QED
    BY <2>1, <2>2, <2>3
<1> QED
  BY <1>1, <1>2, <1>3 DEF Audit!InOrder

\* The number of events from low on, by the archives that are there.
LEMMA SizeOfRecord ==
    ASSUME NEW l \in Nat, NEW a \in Nat, NEW f \in Nat, NEW b \in Nat, NEW g \in Nat, f + g + b >= a,
           NEW low \in Nat, NEW e \in Nat, low + l * (f + b) <= e + 1
    PROVE  (e - low) + 1 >= l * (a - g)
<1>1. PICK x \in Int : x = a - g /\ x <= f + b
  OBVIOUS
<1>2. \A u, v \in Int : u <= v => l * u <= l * v
  OBVIOUS
<1>3. l * x <= l * (f + b) /\ l * x \in Int /\ l * (f + b) \in Int
  BY <1>1, <1>2
<1> QED
  BY <1>1, <1>3

\* LogInv is strong enough: what is there has no hole, and is long enough.
LEMMA NoHole == ASSUME LogInv PROVE Audit!OldestLostFirst
<1>1. PICK p \in Steps : At(p) /\ Shape(p)
          /\ \E lo \in [Audit!Slots -> Nat], hi \in [Audit!Slots -> Nat], low \in Nat : Record(p, lo, hi, low)
  BY DEF LogInv
<1>2. PICK lo \in [Audit!Slots -> Nat], hi \in [Audit!Slots -> Nat], low \in Nat : Record(p, lo, hi, low)
  BY <1>1
<1>3. LogTypes /\ auditFaults \in Nat
  BY DEF LogInv, LogTypes
<1>0. /\ Archives \in Nat /\ Archives >= 1 /\ Audit!Slots = 0..Archives /\ 0 \in 0..Archives /\ LogLines \in Nat /\ LogLines >= 1
  BY AuditConstants
<1>4. Audit!InOrder /\ \A n \in 0..Archives : Audit!Events(n) = IF Full(n) THEN lo[n]..hi[n] ELSE {}
  BY <1>0, <1>2, <1>3, RecordOrder
<1>5. PICK e \in Nat : e = lastEvent
  BY <1>3 DEF LogTypes
<1>a. CASE auditIgnored
  BY <1>a, <1>4 DEF Audit!OldestLostFirst
<1>b. CASE ~auditIgnored
  <2>6. low >= 1 /\ low <= e + 1 /\ (e > 0 => low <= e)
    BY <1>b, <1>2, <1>5 DEF Record, Covered
  <2>7. \A n \in 0..Archives : Full(n) => low <= lo[n] /\ hi[n] <= e /\ lo[n] \in Nat /\ hi[n] \in Nat
    BY <1>b, <1>0, <1>2, <1>5 DEF Record, Covered, Ordered
  <2>8. UNION {Audit!Events(n) : n \in Audit!Slots} = low..e
    <3>1. ASSUME NEW x \in UNION {Audit!Events(n) : n \in Audit!Slots} PROVE x \in low..e
      <4>1. PICK n \in 0..Archives : x \in Audit!Events(n)
        BY <1>0
      <4>2. Full(n) /\ x \in lo[n]..hi[n]
        BY <4>1, <1>4
      <4> QED
        BY <4>2, <2>7
    <3>2. ASSUME NEW x \in low..e PROVE x \in UNION {Audit!Events(n) : n \in Audit!Slots}
      <4>1. PICK n \in 0..Archives : Full(n) /\ x \in lo[n]..hi[n]
        BY <1>b, <1>0, <1>2, <1>5 DEF Record, Covered
      <4>2. x \in Audit!Events(n)
        BY <4>1, <1>4
      <4> QED
        BY <4>2, <1>0
    <3> QED
      BY <3>1, <3>2
  <2>9. ASSUME low # 1 PROVE (e - low) + 1 >= LogLines * (Archives - auditFaults)
    <3>1. low > 1 /\ e > 0 /\ low \in low..e
      BY <2>6, <2>9
    <3>2. PICK n \in 0..Archives : Full(n) /\ low \in lo[n]..hi[n]
      BY <1>b, <3>1, <1>0, <1>2, <1>5 DEF Record, Covered
    <3>3. lo[n] = low
      BY <3>2, <2>7
    <3>4. ASSUME NEW m \in 1..Archives, m > n PROVE ~Full(m)
      <4> SUFFICES ASSUME Full(m) PROVE FALSE
        OBVIOUS
      <4>1. m \in 0..Archives /\ m # 0 /\ n < m
        BY <3>4, <1>0
      <4>2. hi[m] < lo[n] /\ lo[m] <= hi[m]
        BY <1>b, <4>1, <3>2, <1>0, <1>2 DEF Record, Ordered
      <4> QED
        BY <4>1, <4>2, <3>3, <2>7
    <3>5. PICK f \in Nat : f = Filled(logNames, Archives)
      BY <1>0, FilledFacts
    <3>6. PICK b \in {0, 1} : b = Bit(p, Archives + 1)
      BY BitFacts
    <3>7. f + auditFaults + b >= Archives
      BY <1>b, <3>1, <3>5, <3>6, <1>2 DEF Record, Sized
    <3>8. PICK t \in Nat : t = Top(lo) /\ t <= e + 1
      <4>1. Full(0) => lo[0] <= hi[0] + 1 /\ hi[0] = e /\ lo[0] \in Nat
        BY <1>b, <1>0, <1>2, <1>5 DEF Record, Ordered
      <4> QED
        BY <4>1, <1>5 DEF Top
    <3>9. low + LogLines * f <= t
      <4>1. CASE n = 0
        <5>1. {m \in 1..Archives : logNames[m] # Audit!NoFile} = {}
          BY <4>1, <3>4 DEF Full
        <5>2. f = 0
          BY <5>1, <3>5, FS_EmptySet DEF Filled
        <5>3. t = low
          BY <4>1, <3>2, <3>3, <3>8 DEF Top
        <5> QED
          BY <5>2, <5>3, <1>0
      <4>2. CASE n # 0
        <5>1. {m \in 1..Archives : logNames[m] # Audit!NoFile} = {m \in 1..n : logNames[m] # Audit!NoFile}
          BY <3>4, <1>0 DEF Full
        <5>2. f = Filled(logNames, n)
          BY <5>1, <3>5 DEF Filled
        <5>3. n \in 1..Archives
          BY <4>2
        <5>4. lo[n] + LogLines * Filled(logNames, n) <= Top(lo)
          BY <1>b, <5>3, <3>2, <1>2 DEF Record, Sized
        <5> QED
          BY <5>2, <5>4, <3>3, <3>8
      <4> QED
        BY <4>1, <4>2
    <3>10. PICK g \in Nat : g = LogLines * f /\ LogLines * (f + 1) = g + LogLines
      BY <1>0, TimesOneMore
    <3>11. low + LogLines * (f + b) <= e + 1
      <4>1. CASE b = 0
        <5>1. f + b = f
          BY <4>1
        <5> QED
          BY <5>1, <3>8, <3>9, <3>10
      <4>2. CASE b = 1
        <5>1. \E k \in 0..(Archives - 1) : p = <<"shift", k>>
          BY <4>2, <3>6 DEF Bit
        <5>2. Audit!Lines(Audit!Bytes(0)) >= LogLines
          BY <5>1, <1>1 DEF Shape
        <5>3. Full(0) /\ lo[0] + LogLines <= e + 1
          BY <5>2, <1>2, <1>3, <1>5, LogLong
        <5>4. t + LogLines <= e + 1
          BY <5>3, <3>8 DEF Top
        <5>5. low + (g + LogLines) <= e + 1
          BY <5>4, <3>8, <3>9, <3>10, <1>0
        <5> QED
          BY <5>5, <4>2, <3>10
      <4> QED
        BY <4>1, <4>2
    <3> QED
      BY <3>5, <3>6, <3>7, <3>11, <1>0, <1>3, SizeOfRecord
  <2>10. low \in 1..(lastEvent + 1)
    BY <1>5, <2>6
  <2> QED
    BY <1>4, <1>5, <2>6, <2>8, <2>9, <2>10 DEF Audit!OldestLostFirst
<1> QED
  BY <1>a, <1>b

\* What a writer's step makes readable was readable before, or is newer than
\* every event.
LEMMA ReadableKept ==
    ASSUME LogTypes, Rewritten, NEW n \in Audit!Slots, NEW s, s = Audit!Bytes(n)', NEW k \in Audit!Readable(s)
    PROVE  \/ s[k] = lastEvent + 1
           \/ \E m \in Audit!Slots : \E j \in Audit!Readable(Audit!Bytes(m)) : s[k] = Audit!Bytes(m)[j]
<1>1. CASE s = <<>>
  BY <1>1 DEF Audit!Readable
<1>2. CASE \E m \in Audit!Slots : s = Audit!Bytes(m)
  BY <1>2
<1>3. ASSUME NEW m \in Audit!Slots, NEW c \in {Audit!Newline, lastEvent + 1}, s = Append(Audit!Bytes(m), c)
      PROVE  \/ s[k] = lastEvent + 1
             \/ \E j \in Audit!Readable(Audit!Bytes(m)) : s[k] = Audit!Bytes(m)[j]
  <2>1. PICK t \in Seq(Nat) : t = Audit!Bytes(m)
    BY BytesType
  <2>2. c \in Nat
    BY AuditConstants DEF LogTypes
  <2>3. \/ k = Len(t) + 1 /\ Append(t, c)[k] = c /\ c # Audit!Newline
        \/ k \in Audit!Readable(t) /\ Append(t, c)[k] = t[k]
    BY <2>1, <2>2, <1>3, ReadableAppend
  <2> QED
    BY <2>1, <2>3, <1>3
<1> QED
  BY <1>1, <1>2, <1>3 DEF Rewritten

\* The pages that have been read stay without a gap.
LEMMA PagesStay ==
    ASSUME LogTypes, PagesInv, Rewritten, UNCHANGED <<shown, olderThan>>,
           lastEvent' = lastEvent \/ lastEvent' = lastEvent + 1
    PROVE  PagesInv'
<1>1. lastEvent \in Nat /\ lastEvent' >= lastEvent /\ lastEvent' \in Nat
  BY DEF LogTypes
<1>2. PICK l \in Nat : l = Len(shown) /\ \A i \in 1..l : shown[i] \in Nat /\ shown[i] <= lastEvent
  BY LenProperties, ElementOfSeq DEF PagesInv
<1>3. ASSUME NEW i \in 1..(Len(shown) - 1), NEW n \in Audit!Slots, NEW s, s = Audit!Bytes(n)', NEW k \in Audit!Readable(s)
      PROVE  ~(shown[i + 1] < s[k] /\ s[k] < shown[i])
  <2>1. CASE s[k] = lastEvent + 1
    <3>1. i \in 1..l
      BY <1>2
    <3> QED
      BY <2>1, <3>1, <1>1, <1>2
  <2>2. CASE \E m \in Audit!Slots : \E j \in Audit!Readable(Audit!Bytes(m)) : s[k] = Audit!Bytes(m)[j]
    BY <2>2 DEF PagesInv, Audit!PagesGapFree
  <2> QED
    BY <2>1, <2>2, <1>3, ReadableKept
<1>4. Audit!PagesGapFree'
  <2>1. ASSUME NEW i \in 1..(Len(shown) - 1) PROVE shown[i] > shown[i + 1]
    BY DEF PagesInv, Audit!PagesGapFree
  <2>2. ASSUME NEW i \in 1..(Len(shown) - 1), NEW n \in Audit!Slots, NEW k \in Audit!Readable(Audit!Bytes(n)')
        PROVE  ~(shown[i + 1] < Audit!Bytes(n)'[k] /\ Audit!Bytes(n)'[k] < shown[i])
    BY <1>3
  <2>3. shown' = shown
    OBVIOUS
  <2>4. \A n : (Audit!Readable(Audit!Bytes(n)))' = Audit!Readable(Audit!Bytes(n)')
    BY DEF Audit!Readable
  <2> QED
    BY <2>1, <2>2, <2>3, <2>4 DEF Audit!PagesGapFree
<1>5. \A i \in 1..Len(shown) : shown[i] <= lastEvent'
  BY <1>1, <1>2
<1> QED
  BY <1>4, <1>5 DEF PagesInv

\* A page goes on where the last one ended (audit.rs 195-253).
LEMMA PageStep ==
    ASSUME LogTypes, PagesInv, Audit!InOrder, NEW m \in Nat, m >= 1,
           \A n \in Audit!Slots : \A e \in Audit!Events(n) : e <= lastEvent,
           NEW s, s = Audit!Bytes(0), NEW page \in [1..m -> Audit!Older(s)], Audit!Matched(s, page),
           shown' = shown \o [i \in 1..m |-> s[page[i]]], olderThan' = s[page[m]],
           UNCHANGED <<logNames, logData, lastEvent>>
    PROVE  PagesInv'
<1>0. Audit!Slots = 0..Archives /\ 0 \in 0..Archives /\ Archives \in Nat /\ Audit!Newline = 0
  BY AuditConstants
<1>1. s \in Seq(Nat) /\ DOMAIN s = 1..Len(s) /\ Len(s) \in Nat /\ \A i \in DOMAIN s : s[i] \in Nat
  BY <1>0, BytesType, LenProperties, ElementOfSeq
<1>2. PICK new : new = [i \in 1..m |-> s[page[i]]]
  OBVIOUS
<1>3. \A i \in 1..m : page[i] \in DOMAIN s /\ page[i] \in Audit!Readable(s) /\ s[page[i]] < olderThan /\ s[page[i]] # 0 /\ s[page[i]] \in Nat
  BY <1>0, <1>1 DEF Audit!Older, Audit!Readable
<1>4. \A i, j \in DOMAIN s : s[i] # 0 /\ s[j] # 0 /\ i < j => s[i] < s[j]
  BY <1>0 DEF Audit!InOrder
<1>5. \A i, j \in DOMAIN s : s[i] # 0 /\ s[j] # 0 /\ s[i] < s[j] => i < j
  <2> SUFFICES ASSUME NEW i \in DOMAIN s, NEW j \in DOMAIN s, s[i] # 0, s[j] # 0, s[i] < s[j], ~(i < j) PROVE FALSE
    OBVIOUS
  <2>1. s[i] \in Nat /\ s[j] \in Nat /\ i \in Nat /\ j \in Nat
    BY <1>1
  <2>2. i = j \/ j < i
    BY <2>1
  <2>3. j < i => s[j] < s[i]
    BY <1>4
  <2> QED
    BY <2>1, <2>2, <2>3
<1>6. new \in Seq(Nat) /\ Len(new) = m /\ \A i \in 1..m : new[i] = s[page[i]]
  <2>1. new \in [1..m -> Nat]
    BY <1>2, <1>3
  <2> QED
    BY <2>1, <1>2
<1>7. PICK l \in Nat : l = Len(shown) /\ \A i \in 1..l : shown[i] \in Nat /\ shown[i] <= lastEvent
  BY LenProperties, ElementOfSeq DEF PagesInv
<1>8. /\ shown' \in Seq(Nat) /\ Len(shown') = l + m
      /\ \A i \in 1..l : shown'[i] = shown[i]
      /\ \A i \in 1..m : shown'[l + i] = new[i]
  <2>1. shown \in Seq(Nat)
    BY DEF PagesInv
  <2>2. shown' = shown \o new
    BY <1>2
  <2> QED
    BY <2>1, <2>2, <1>6, <1>7, ConcatProperties
<1>9. ASSUME NEW i \in 1..m PROVE new[i] <= lastEvent
  <2>1. new[i] \in Audit!Events(0)
    BY <1>0, <1>3, <1>6 DEF Audit!Events
  <2> QED
    BY <2>1, <1>0
<1>10. DOMAIN page = 1..m
  OBVIOUS
<1>11. \A i \in 1..m : {k \in Audit!Older(s) : k > page[i]} = {page[j] : j \in 1..(i - 1)}
  BY <1>10 DEF Audit!Matched
<1>12. \A i \in 1..m : \A j \in 1..(i - 1) : page[j] > page[i]
  BY <1>11
<1>13. ASSUME NEW n \in 0..Archives, n # 0, NEW k \in Audit!Readable(Audit!Bytes(n)), NEW i \in 1..m
       PROVE  Audit!Bytes(n)[k] < new[i]
  <2>1. Audit!Bytes(n)[k] \in Audit!Events(n) /\ new[i] \in Audit!Events(0)
    BY <1>0, <1>3, <1>6 DEF Audit!Events, Audit!Readable
  <2>2. 0 < n
    BY <1>13
  <2> QED
    BY <2>1, <2>2, <1>0 DEF Audit!InOrder
<1>14. \A n \in 0..Archives : \A k \in Audit!Readable(Audit!Bytes(n)) : Audit!Bytes(n)[k] \in Nat
  <2> SUFFICES ASSUME NEW n \in 0..Archives, NEW k \in Audit!Readable(Audit!Bytes(n)) PROVE Audit!Bytes(n)[k] \in Nat
    OBVIOUS
  <2>1. Audit!Bytes(n) \in Seq(Nat)
    BY <1>0, BytesType
  <2>2. k \in DOMAIN Audit!Bytes(n) /\ DOMAIN Audit!Bytes(n) = 1..Len(Audit!Bytes(n))
    BY <2>1, LenProperties DEF Audit!Readable
  <2> QED
    BY <2>1, <2>2, ElementOfSeq
\* Within the page.
<1>15. ASSUME NEW i \in 1..(m - 1)
       PROVE  /\ new[i] > new[i + 1]
              /\ \A k \in Audit!Readable(s) : ~(new[i + 1] < s[k] /\ s[k] < new[i])
  <2>1. i \in 1..m /\ i + 1 \in 1..m /\ i \in 1..((i + 1) - 1)
    OBVIOUS
  <2>2. page[i + 1] < page[i]
    BY <2>1, <1>1, <1>3, <1>12
  <2>3. new[i + 1] < new[i]
    BY <2>1, <2>2, <1>3, <1>4, <1>6
  <2>4. ASSUME NEW k \in Audit!Readable(s), new[i + 1] < s[k], s[k] < new[i] PROVE FALSE
    <3>1. k \in DOMAIN s /\ s[k] # 0 /\ s[k] \in Nat
      BY <1>0, <1>1 DEF Audit!Readable
    <3>2. k > page[i + 1]
      BY <2>1, <2>4, <3>1, <1>3, <1>5, <1>6, <1>1
    <3>3. s[k] < olderThan
      <4>1. new[i] < olderThan /\ new[i] \in Nat
        BY <2>1, <1>3, <1>6
      <4>2. olderThan \in Nat
        BY <1>7, AuditConstants DEF PagesInv
      <4> QED
        BY <2>4, <3>1, <4>1, <4>2
    <3>4. k \in Audit!Older(s)
      BY <3>3 DEF Audit!Older
    <3>5. PICK j \in 1..((i + 1) - 1) : k = page[j]
      BY <2>1, <3>2, <3>4, <1>11
    <3>6. CASE j = i
      BY <3>5, <3>6, <2>1, <2>4, <3>1, <1>6
    <3>7. CASE j # i
      <4>1. j \in 1..(i - 1) /\ j \in 1..m
        BY <3>7, <2>1
      <4>2. page[j] > page[i]
        BY <4>1, <2>1, <1>12
      <4>3. s[page[i]] < s[page[j]]
        BY <4>1, <4>2, <2>1, <1>1, <1>3, <1>4
      <4> QED
        BY <4>1, <4>3, <3>5, <2>1, <2>4, <3>1, <1>3, <1>6
    <3> QED
      BY <3>6, <3>7
  <2> QED
    BY <2>1, <2>3, <2>4, <1>3, <1>6
\* From the last page to this one.
<1>16. ASSUME l >= 1
       PROVE  /\ shown[l] > new[1]
              /\ \A k \in Audit!Readable(s) : ~(new[1] < s[k] /\ s[k] < shown[l])
  <2>1. olderThan = shown[l] /\ shown[l] \in Nat /\ 1 \in 1..m
    <3>1. shown # <<>>
      BY <1>7, <1>16
    <3> QED
      BY <3>1, <1>7, <1>16 DEF PagesInv
  <2>2. new[1] < olderThan /\ new[1] \in Nat
    BY <2>1, <1>3, <1>6
  <2>3. ASSUME NEW k \in Audit!Readable(s), new[1] < s[k], s[k] < shown[l] PROVE FALSE
    <3>1. k \in DOMAIN s /\ s[k] # 0 /\ s[k] \in Nat
      BY <1>0, <1>1 DEF Audit!Readable
    <3>2. k > page[1]
      BY <2>1, <2>3, <3>1, <1>3, <1>5, <1>6, <1>1
    <3>3. k \in Audit!Older(s)
      BY <2>1, <2>3 DEF Audit!Older
    <3>4. PICK j \in 1..(1 - 1) : k = page[j]
      BY <2>1, <3>2, <3>3, <1>11
    <3> QED
      BY <3>4
  <2> QED
    BY <2>1, <2>2, <2>3
<1>17. \A n : Audit!Bytes(n)' = Audit!Bytes(n)
  BY DEF Audit!Bytes
<1>18. ASSUME NEW i \in 1..(l + m - 1)
       PROVE  /\ shown'[i] > shown'[i + 1]
              /\ \A n \in 0..Archives : \A k \in Audit!Readable(Audit!Bytes(n)) :
                    ~(shown'[i + 1] < Audit!Bytes(n)[k] /\ Audit!Bytes(n)[k] < shown'[i])
  <2>1. CASE i < l
    <3>1. i \in 1..l /\ i + 1 \in 1..l /\ i \in 1..(Len(shown) - 1)
      BY <2>1, <1>7
    <3>2. shown'[i] = shown[i] /\ shown'[i + 1] = shown[i + 1]
      BY <3>1, <1>8
    <3> QED
      BY <3>1, <3>2, <1>0 DEF PagesInv, Audit!PagesGapFree
  <2>2. CASE i >= l
    <3>1. PICK j \in 0..(m - 1) : i = l + j
      <4>1. i - l \in 0..(m - 1) /\ i = l + (i - l)
        BY <2>2, <1>7
      <4> QED
        BY <4>1
    <3>2. j + 1 \in 1..m /\ i + 1 = l + (j + 1)
      BY <3>1
    <3>3. shown'[i + 1] = new[j + 1]
      BY <3>2, <1>8
    <3>4. /\ shown'[i] > shown'[i + 1]
          /\ \A k \in Audit!Readable(s) : ~(new[j + 1] < s[k] /\ s[k] < shown'[i])
      <4>1. CASE j = 0
        <5>1. l >= 1 /\ i = l /\ i \in 1..l
          BY <4>1, <3>1
        <5>2. shown'[i] = shown[l] /\ shown'[i + 1] = new[1] /\ j + 1 = 1
          BY <5>1, <4>1, <3>3, <1>8
        <5> QED
          BY <5>1, <5>2, <1>16
      <4>2. CASE j # 0
        <5>1. j \in 1..(m - 1) /\ j \in 1..m
          BY <4>2
        <5>2. shown'[i] = new[j]
          BY <5>1, <3>1, <1>8
        <5> QED
          BY <5>1, <5>2, <3>3, <1>15
      <4> QED
        BY <4>1, <4>2
    <3>5. ASSUME NEW n \in 0..Archives, NEW k \in Audit!Readable(Audit!Bytes(n))
          PROVE  ~(shown'[i + 1] < Audit!Bytes(n)[k] /\ Audit!Bytes(n)[k] < shown'[i])
      <4>1. CASE n = 0
        BY <4>1, <3>3, <3>4
      <4>2. CASE n # 0
        <5>1. Audit!Bytes(n)[k] < new[j + 1] /\ Audit!Bytes(n)[k] \in Nat /\ new[j + 1] \in Nat
          BY <4>2, <3>2, <1>3, <1>6, <1>13, <1>14
        <5>2. PICK b \in Nat, c \in Nat : b = Audit!Bytes(n)[k] /\ c = new[j + 1] /\ b < c
          BY <5>1
        <5>3. ~(c < b)
          BY <5>2
        <5> QED
          BY <5>2, <5>3, <3>3
      <4> QED
        BY <4>1, <4>2
    <3> QED
      BY <3>4, <3>5
  <2>3. i < l \/ i >= l
    BY <1>7
  <2> QED
    BY <2>1, <2>2, <2>3
<1>19. Audit!PagesGapFree'
  <2>1. \A n : (Audit!Readable(Audit!Bytes(n)))' = Audit!Readable(Audit!Bytes(n))
    BY <1>17 DEF Audit!Readable
  <2>2. Len(shown') - 1 = l + m - 1
    BY <1>8
  <2> QED
    BY <2>1, <2>2, <1>0, <1>17, <1>18 DEF Audit!PagesGapFree
<1>20. \A i \in 1..Len(shown') : shown'[i] <= lastEvent'
  <2> SUFFICES ASSUME NEW i \in 1..(l + m) PROVE shown'[i] <= lastEvent'
    BY <1>8
  <2>1. CASE i \in 1..l
    BY <2>1, <1>7, <1>8
  <2>2. CASE i \notin 1..l
    <3>1. PICK j \in 1..m : i = l + j
      <4>1. i - l \in 1..m /\ i = l + (i - l)
        BY <2>2
      <4> QED
        BY <4>1
    <3>2. shown'[i] = new[j] /\ new[j] <= lastEvent
      BY <3>1, <1>8, <1>9
    <3> QED
      BY <3>2
  <2> QED
    BY <2>1, <2>2
<1>21. olderThan' = IF shown' = <<>> THEN EventMax + 1 ELSE shown'[Len(shown')]
  <2>1. shown' # <<>> /\ m \in 1..m
    <3>1. Len(shown') # 0 /\ Len(<<>>) = 0
      BY <1>7, <1>8
    <3> QED
      BY <3>1
  <2>2. shown'[l + m] = new[m] /\ new[m] = s[page[m]]
    BY <2>1, <1>6, <1>8
  <2> QED
    BY <2>1, <2>2, <1>8
<1> QED
  BY <1>8, <1>19, <1>20, <1>21 DEF PagesInv

\* Steps that neither write nor rotate leave the record as it is.
LEMMA LogRests ==
    ASSUME LogInv, UNCHANGED <<logNames, logData, writing, logFd, lastEvent, auditFaults, auditIgnored>>
    PROVE  LogInv' /\ Rewritten
<1>1. PICK p \in Steps : At(p) /\ Shape(p)
          /\ \E lo \in [Audit!Slots -> Nat], hi \in [Audit!Slots -> Nat], low \in Nat : Record(p, lo, hi, low)
  BY DEF LogInv
<1>2. PICK lo \in [Audit!Slots -> Nat], hi \in [Audit!Slots -> Nat], low \in Nat : Record(p, lo, hi, low)
  BY <1>1
<1>3. \A n : (Full(n)' <=> Full(n)) /\ Audit!Bytes(n)' = Audit!Bytes(n)
  BY <1>1 DEF Full, Audit!Bytes
<1>4. LogTypes' /\ At(p)' /\ Shape(p)'
  BY <1>1, <1>3 DEF LogInv, LogTypes, At, Shape
<1>5. Record(p, lo, hi, low)'
  BY <1>2, <1>3 DEF Record, Ordered, Covered, Sized, Top
<1> QED
  BY <1>2, <1>3, <1>4, <1>5, LogHolds DEF Rewritten

\* The device reads a page, or starts over: the record stays as it is.
LEMMA ReaderStep ==
    ASSUME LogInv, PagesInv, Audit!ReadsPage \/ Audit!StartsOver
    PROVE  LogInv' /\ PagesInv'
<1>1. UNCHANGED <<logNames, logData, writing, logFd, lastEvent, auditFaults, auditIgnored>>
  BY DEF Audit!ReadsPage, Audit!StartsOver, Audit!files
<1>2. LogInv'
  BY <1>1, LogRests
<1>3. CASE Audit!ReadsPage
  <2>1. PICK m \in 1..PageLimit : \E page \in [1..m -> Audit!Older(Audit!Bytes(0))] :
            /\ Audit!Matched(Audit!Bytes(0), page)
            /\ shown' = shown \o [i \in 1..m |-> Audit!Bytes(0)[page[i]]]
            /\ olderThan' = Audit!Bytes(0)[page[m]]
    BY <1>3 DEF Audit!ReadsPage
  <2>2. PICK page \in [1..m -> Audit!Older(Audit!Bytes(0))] :
            /\ Audit!Matched(Audit!Bytes(0), page)
            /\ shown' = shown \o [i \in 1..m |-> Audit!Bytes(0)[page[i]]]
            /\ olderThan' = Audit!Bytes(0)[page[m]]
    BY <2>1
  <2>3. PICK p \in Steps, lo \in [Audit!Slots -> Nat], hi \in [Audit!Slots -> Nat], low \in Nat : Record(p, lo, hi, low)
    BY DEF LogInv
  <2>4. LogTypes /\ Audit!InOrder /\ \A n \in Audit!Slots : Audit!Events(n) = IF Full(n) THEN lo[n]..hi[n] ELSE {}
    BY <2>3, RecordOrder DEF LogInv
  <2>5. ASSUME NEW n \in Audit!Slots, NEW e \in Audit!Events(n) PROVE e <= lastEvent
    <3>1. Full(n) /\ e \in lo[n]..hi[n] /\ hi[n] <= lastEvent /\ hi[n] \in Nat /\ lastEvent \in Nat
      BY <2>3, <2>4 DEF Record, Ordered, LogTypes
    <3> QED
      BY <3>1
  <2>6. m \in Nat /\ m >= 1
    BY AuditConstants
  <2>7. PagesInv'
    BY <2>2, <2>4, <2>5, <2>6, <1>1, PageStep
  <2> QED
    BY <1>2, <2>7
<1>4. CASE Audit!StartsOver
  <2>1. shown' = <<>> /\ olderThan' = EventMax + 1
    BY <1>4 DEF Audit!StartsOver
  <2>2. Len(shown') = 0 /\ shown' \in Seq(Nat)
    BY <2>1
  <2> QED
    BY <2>1, <2>2, <1>2 DEF PagesInv, Audit!PagesGapFree
<1> QED
  BY <1>3, <1>4

\* AuditComplete, of MCFileOps: with one writer at a time, for any length of the
\* log, any number of archives and of failures, and wherever a process dies in a
\* rotation or a rename of the log fails, the events on disk are an interval that
\* ends with the newest, at least as long as the archives that the failures
\* leave; and the pages that a device reads leave out nothing that is there
\* (audit.rs 100-290).
THEOREM AuditIsComplete == ASSUME ~AuditOverlap PROVE Spec => []AuditComplete
<1> DEFINE Inv == LogInv /\ PagesInv
<1>1. Init => Inv
  BY LogBegins DEF Init
<1>2. Inv /\ [Next]_vars => Inv'
  <2> SUFFICES ASSUME Inv, [Next]_vars PROVE Inv'
    OBVIOUS
  <2>1. Audit!Next \/ UNCHANGED logVars
    BY DEF Next, vars
  <2>2. ASSUME NEW w \in AuditWriters, Audit!Writes(w) PROVE Inv'
    <3>1. /\ LogInv' /\ Rewritten /\ UNCHANGED <<shown, olderThan>>
          /\ lastEvent' = lastEvent \/ lastEvent' = lastEvent + 1
      BY <2>2, WriterStep
    <3>2. PagesInv'
      BY <3>1, PagesStay DEF LogInv
    <3> QED
      BY <3>1, <3>2
  <2>3. CASE Audit!ReadsPage \/ Audit!StartsOver
    BY <2>3, ReaderStep
  <2>4. CASE UNCHANGED logVars
    <3>1. LogInv' /\ Rewritten
      BY <2>4, LogRests DEF logVars
    <3>2. PagesInv'
      BY <2>4, <3>1, PagesStay DEF logVars, LogInv
    <3> QED
      BY <3>1, <3>2
  <2> QED
    BY <2>1, <2>2, <2>3, <2>4 DEF Audit!Next
<1>3. Inv => AuditComplete
  BY NoHole DEF PagesInv, AuditComplete, Audit!AuditComplete
<1> QED
  BY <1>1, <1>2, <1>3, PTL DEF Spec

=============================================================================
