------------------------------- MODULE VfsProofs -------------------------------
(***************************************************************************)
(* Proofs about Vfs for any names, depth of paths, number of descriptors   *)
(* and number of inodes: what sys_open, sys_close, sys_mkdir and            *)
(* remove_dentry keep true of the dentry cache, the reference counts and    *)
(* the descriptor table.                                                    *)
(*                                                                         *)
(* A call works through a sequence of states of vfs (the components of     *)
(* select_file, then create_dentry or the removal).  VfsOK says what holds *)
(* of each of them; the lemmas go from one to the next, and the walk of    *)
(* select_file by induction over the components.                            *)
(***************************************************************************)
EXTENDS Vfs, FiniteSetTheorems, SequenceTheorems, WellFoundedInduction, TLAPS

-----------------------------------------------------------------------------
(* Numbers.                                                                *)

\* A nonempty set of naturals has a least element.
LEMMA LeastNat ==
    ASSUME NEW S \in SUBSET Nat, S # {}
    PROVE  \E m \in S : \A k \in S : m <= k
  <1> DEFINE R == OpToRel(<, Nat)
  <1>1. R = {ss \in Nat \X Nat : ss[1] < ss[2]}
    BY DEF OpToRel
  <1>2. IsWellFoundedOn(R, Nat)
    BY NatLessThanWellFounded, Zenon
  <1> HIDE DEF R
  <1>3. PICK x \in S : \A y \in S : ~ (<<y, x>> \in R)
    BY <1>2, WFMin, Zenon
  <1>4. \A y \in S : ~(y < x)
    BY <1>1, <1>3
  <1>5. QED
    BY <1>4

\* Induction up to N, for a set.
LEMMA UpTo ==
    ASSUME NEW N \in Nat, NEW S, 0 \in S, \A i \in 0 .. N - 1 : i \in S => i + 1 \in S
    PROVE  \A i \in 0 .. N : i \in S
  <1> DEFINE Bad == {i \in 0 .. N : i \notin S}
  <1>1. ASSUME Bad # {} PROVE FALSE
    <2>1. Bad \in SUBSET Nat
      OBVIOUS
    <2> HIDE DEF Bad
    <2>2. PICK m \in Bad : \A k \in Bad : m <= k
      BY <1>1, <2>1, LeastNat
    <2> USE DEF Bad
    <2>3. m \in 0 .. N /\ m # 0 /\ m - 1 \in 0 .. N - 1 /\ m - 1 \notin Bad
      BY <2>2
    <2>4. QED
      BY <2>2, <2>3
  <1>2. QED
    BY <1>1

-----------------------------------------------------------------------------
(* Paths.                                                                  *)

\* The first n elements of a sequence.
LEMMA FirstOf ==
    ASSUME NEW S, NEW s \in Seq(S), NEW n \in Nat, n <= Len(s)
    PROVE  /\ SubSeq(s, 1, n) \in Seq(S) /\ Len(SubSeq(s, 1, n)) = n
           /\ \A i \in 1 .. n : SubSeq(s, 1, n)[i] = s[i]
  <1>1. Len(s) \in Nat
    BY LenProperties
  <1>2. \A i \in 1 .. n : s[i] \in S
    BY <1>1, ElementOfSeq
  <1>3. /\ SubSeq(s, 1, n) \in Seq(S)
        /\ Len(SubSeq(s, 1, n)) = IF 1 <= n THEN n - 1 + 1 ELSE 0
        /\ \A i \in 1 .. n - 1 + 1 : SubSeq(s, 1, n)[i] = s[1 + i - 1]
    BY <1>2, SubSeqProperties
  <1>4. QED
    BY <1>3

\* A path of the file system is a sequence of names.
LEMMA FilePathIs ==
    ASSUME NEW p
    PROVE  p \in FilePaths <=> p \in Seq(Names) /\ Len(p) \in 1 .. MaxDepth
  <1>1. ASSUME p \in FilePaths PROVE p \in Seq(Names) /\ Len(p) \in 1 .. MaxDepth
    <2>1. PICK n \in 1 .. MaxDepth : p \in [1 .. n -> Names]
      BY <1>1 DEF FilePaths
    <2>2. n \in Nat
      BY VfsAssumption
    <2>3. QED
      BY <2>1, <2>2
  <1>2. ASSUME p \in Seq(Names), Len(p) \in 1 .. MaxDepth PROVE p \in FilePaths
    <2>1. p \in [1 .. Len(p) -> Names]
      BY <1>2, LenProperties
    <2>2. QED
      BY <1>2, <2>1 DEF FilePaths
  <1>3. QED
    BY <1>1, <1>2

\* The directories a path of a file may be in.
Dirs == FilePaths \cup {Root}

\* What is in front of the last component.
LEMMA FrontIs ==
    ASSUME NEW p \in FilePaths
    PROVE  /\ Front(p) \in Dirs /\ Front(p) # p /\ Last(p) \in Names
           /\ Front(p) \in Seq(Names) /\ Len(Front(p)) = Len(p) - 1
           /\ \A i \in 1 .. Len(p) - 1 : Front(p)[i] = p[i]
           /\ p = Append(Front(p), Last(p))
  <1>1. p \in Seq(Names) /\ Len(p) \in 1 .. MaxDepth /\ Len(p) \in Nat \ {0} /\ MaxDepth \in Nat
    BY FilePathIs, VfsAssumption, LenProperties
  <1>2. /\ Front(p) \in Seq(Names) /\ Len(Front(p)) = Len(p) - 1
        /\ \A i \in 1 .. Len(p) - 1 : Front(p)[i] = p[i]
    <2>1. Len(p) - 1 \in Nat /\ Len(p) - 1 <= Len(p)
      BY <1>1
    <2>2. QED
      BY <1>1, <2>1, FirstOf DEF Front
  <1>3. Last(p) \in Names
    BY <1>1 DEF Last
  <1>4. Front(p) \in Dirs
    <2>1. CASE Len(p) = 1
      <3>1. Len(Front(p)) = 0
        BY <1>2, <2>1
      <3>2. Front(p) = <<>>
        BY <1>2, <3>1, EmptySeq
      <3>3. QED
        BY <3>2 DEF Dirs, Root
    <2>2. CASE Len(p) # 1
      BY <1>1, <1>2, <2>2, FilePathIs DEF Dirs
    <2>3. QED
      BY <2>1, <2>2
  <1>5. Front(p) # p
    BY <1>1, <1>2
  <1>6. p = Append(Front(p), Last(p))
    <2> DEFINE q == Append(Front(p), Last(p))
    <2>1. /\ q \in Seq(Names) /\ Len(q) = Len(p)
          /\ \A i \in 1 .. Len(p) - 1 : q[i] = p[i]
          /\ q[Len(p)] = p[Len(p)]
      BY <1>1, <1>2, <1>3, AppendProperties DEF Last
    <2> HIDE DEF q
    <2>2. \A i \in 1 .. Len(q) : q[i] = p[i]
      BY <1>1, <2>1
    <2>3. q = p
      BY <1>1, <2>1, <2>2, SeqEqual
    <2>4. QED
      BY <2>3 DEF q
  <1>7. QED
    BY <1>2, <1>3, <1>4, <1>5, <1>6

\* The first components of a path.
LEMMA PrefixPath ==
    ASSUME NEW p \in FilePaths, NEW i \in 1 .. Len(p)
    PROVE  /\ SubSeq(p, 1, i) \in FilePaths /\ Front(SubSeq(p, 1, i)) = SubSeq(p, 1, i - 1)
           /\ SubSeq(p, 1, 0) = Root /\ SubSeq(p, 1, Len(p)) = p
           /\ Front(p) = SubSeq(p, 1, Len(p) - 1)
  <1>1. p \in Seq(Names) /\ Len(p) \in 1 .. MaxDepth /\ Len(p) \in Nat \ {0} /\ MaxDepth \in Nat
        /\ i \in Nat \ {0} /\ i <= Len(p)
    BY FilePathIs, VfsAssumption, LenProperties
  <1>2. SubSeq(p, 1, i) \in Seq(Names) /\ Len(SubSeq(p, 1, i)) = i
        /\ \A j \in 1 .. i : SubSeq(p, 1, i)[j] = p[j]
    BY <1>1, FirstOf
  <1>3. SubSeq(p, 1, i) \in FilePaths
    <2>1. i \in 1 .. MaxDepth
      BY <1>1
    <2>2. QED
      BY <1>2, <2>1, FilePathIs
  <1>4. Front(SubSeq(p, 1, i)) = SubSeq(p, 1, i - 1)
    <2> DEFINE q == SubSeq(p, 1, i)
    <2>1. /\ Front(q) \in Seq(Names) /\ Len(Front(q)) = i - 1
          /\ \A j \in 1 .. i - 1 : Front(q)[j] = q[j]
      BY <1>2, <1>3, FrontIs
    <2>2. /\ SubSeq(p, 1, i - 1) \in Seq(Names) /\ Len(SubSeq(p, 1, i - 1)) = i - 1
          /\ \A j \in 1 .. i - 1 : SubSeq(p, 1, i - 1)[j] = p[j]
      <3>1. i - 1 \in Nat /\ i - 1 <= Len(p)
        BY <1>1
      <3>2. QED
        BY <1>1, <3>1, FirstOf
    <2>3. \A j \in 1 .. i - 1 : Front(q)[j] = SubSeq(p, 1, i - 1)[j]
      BY <1>1, <1>2, <2>1, <2>2
    <2>4. QED
      BY <2>1, <2>2, <2>3, SeqEqual
  <1>5. SubSeq(p, 1, 0) = Root /\ SubSeq(p, 1, Len(p)) = p
    BY <1>1, SubSeqFull, SubSeqEmpty DEF Root
  <1>6. QED
    BY <1>3, <1>4, <1>5 DEF Front

\* A device is beside the files, one component long.
LEMMA DevPathIs ==
    ASSUME NEW p \in DevPaths
    PROVE  /\ p \in Paths /\ p \notin FilePaths /\ Len(p) = 1 /\ Front(p) = Root
           /\ SubSeq(p, 1, 0) = Root /\ SubSeq(p, 1, 1) = p
           /\ \A q \in DevPaths : p = q
  <1>1. PICK d \in Devs : p = <<d>>
    BY DEF DevPaths
  <1>2. p \in Seq(Devs) /\ Len(p) = 1 /\ p[1] = d
    BY <1>1
  <1>3. p \notin FilePaths
    <2>1. ASSUME p \in Seq(Names) PROVE p[1] \in Names
      <3>1. 1 \in 1 .. Len(p)
        BY <1>2
      <3>2. QED
        BY <2>1, <3>1, ElementOfSeq
    <2>2. QED
      BY <1>1, <1>2, <2>1, FilePathIs, VfsAssumption
  <1>4. SubSeq(p, 1, 0) = Root /\ SubSeq(p, 1, 1) = p
    BY <1>2, SubSeqFull, SubSeqEmpty DEF Root
  <1>5. Front(p) = Root
    BY <1>2, <1>4 DEF Front
  <1>6. \A q \in DevPaths : p = q
    BY <1>1, VfsAssumption DEF DevPaths
  <1>7. QED
    BY <1>2, <1>3, <1>4, <1>5, <1>6 DEF Paths

\* The root is no path of a file or a device.
LEMMA RootIs == Root \notin Paths
  <1>1. Len(Root) = 0
    BY DEF Root
  <1>2. QED
    <2>1. Root \notin FilePaths
      BY <1>1, FilePathIs, VfsAssumption
    <2>2. Root \notin DevPaths
      BY <1>1, DevPathIs
    <2>3. QED
      BY <2>1, <2>2 DEF Paths

\* What lies below a path.
LEMMA PrefixIs ==
    ASSUME NEW p \in FilePaths
    PROVE  /\ IsPrefix(p, p) /\ ~IsPrefix(p, Root) /\ ~IsPrefix(p, Front(p))
           /\ \A q \in DevPaths : ~IsPrefix(p, q)
           /\ \A q \in FilePaths : IsPrefix(p, Front(q)) => IsPrefix(p, q)
           /\ \A q \in FilePaths : IsPrefix(p, q) /\ q # p => IsPrefix(p, Front(q))
  <1>1. p \in Seq(Names) /\ Len(p) \in Nat \ {0} /\ SubSeq(p, 1, Len(p)) = p
    BY FilePathIs, LenProperties, SubSeqFull
  <1>2. IsPrefix(p, p)
    BY <1>1 DEF IsPrefix
  <1>3. ~IsPrefix(p, Root)
    BY <1>1 DEF IsPrefix, Root
  <1>4. ~IsPrefix(p, Front(p))
    BY <1>1, FrontIs DEF IsPrefix
  <1>5. ASSUME NEW q \in DevPaths PROVE ~IsPrefix(p, q)
    <2>1. Len(q) = 1 /\ SubSeq(q, 1, 1) = q /\ q \notin FilePaths
      BY DevPathIs
    <2>2. IsPrefix(p, q) => Len(p) = 1 /\ p = q
      BY <1>1, <2>1 DEF IsPrefix
    <2>3. QED
      BY <2>1, <2>2
  <1>6. ASSUME NEW q \in FilePaths
        PROVE  /\ IsPrefix(p, Front(q)) => IsPrefix(p, q)
               /\ IsPrefix(p, q) /\ q # p => IsPrefix(p, Front(q))
    <2>1. q \in Seq(Names) /\ Len(q) \in Nat \ {0} /\ SubSeq(q, 1, Len(q)) = q
      BY FilePathIs, LenProperties, SubSeqFull
    <2>2. Front(q) \in Seq(Names) /\ Len(Front(q)) = Len(q) - 1
          /\ \A i \in 1 .. Len(q) - 1 : Front(q)[i] = q[i]
      BY FrontIs
    <2>3. Len(p) <= Len(q) - 1 => SubSeq(Front(q), 1, Len(p)) = SubSeq(q, 1, Len(p))
      <3> SUFFICES ASSUME Len(p) <= Len(q) - 1
                   PROVE  SubSeq(Front(q), 1, Len(p)) = SubSeq(q, 1, Len(p))
        OBVIOUS
      <3>1. /\ SubSeq(Front(q), 1, Len(p)) \in Seq(Names) /\ Len(SubSeq(Front(q), 1, Len(p))) = Len(p)
            /\ \A i \in 1 .. Len(p) : SubSeq(Front(q), 1, Len(p))[i] = Front(q)[i]
        <4>1. Len(p) <= Len(Front(q))
          BY <2>2
        <4>2. QED
          BY <1>1, <2>2, <4>1, FirstOf
      <3>2. /\ SubSeq(q, 1, Len(p)) \in Seq(Names) /\ Len(SubSeq(q, 1, Len(p))) = Len(p)
            /\ \A i \in 1 .. Len(p) : SubSeq(q, 1, Len(p))[i] = q[i]
        <4>1. Len(p) <= Len(q)
          BY <1>1, <2>1
        <4>2. QED
          BY <1>1, <2>1, <4>1, FirstOf
      <3>3. \A i \in 1 .. Len(p) : SubSeq(Front(q), 1, Len(p))[i] = SubSeq(q, 1, Len(p))[i]
        BY <1>1, <2>1, <2>2, <3>1, <3>2
      <3>4. QED
        BY <3>1, <3>2, <3>3, SeqEqual
    <2>4. Len(p) = Len(q) /\ IsPrefix(p, q) => p = q
      BY <1>1, <2>1 DEF IsPrefix
    <2>5. QED
      <3>1. CASE Len(p) <= Len(q) - 1
        BY <1>1, <2>1, <2>2, <2>3, <3>1 DEF IsPrefix
      <3>2. CASE ~(Len(p) <= Len(q) - 1)
        <4>1. ~IsPrefix(p, Front(q))
          BY <2>2, <3>2 DEF IsPrefix
        <4>2. IsPrefix(p, q) => Len(p) = Len(q)
          <5>1. Len(p) \in Nat /\ Len(q) \in Nat
            BY <1>1, <2>1
          <5>2. ASSUME IsPrefix(p, q) PROVE Len(p) <= Len(q)
            BY <5>2 DEF IsPrefix
          <5>3. QED
            BY <3>2, <5>1, <5>2
        <4>3. QED
          BY <2>4, <4>1, <4>2
      <3>3. QED
        BY <3>1, <3>2
  <1>7. QED
    BY <1>2, <1>3, <1>4, <1>5, <1>6

-----------------------------------------------------------------------------
(* The states a call goes through.                                         *)

Dentry == [entry : Ino \cup {Nil}, ino : Ino \cup {Nil}]
Inode == [mode : {"file", "dir", "dev", Nil}, priv : Ino \cup {RootIno, Nil}, count : Nat]
State == [list : [Names -> Ino \cup {Nil}], cache : [Paths -> Dentry],
          inode : [Ino -> Inode], refs : [Dirs -> Nat]]

UsedIno(s) == {i \in Ino : s.inode[i] # NoInode}

\* A record of four fields with a function on the inodes: what is true even of a walk that
\* has run past the bound on the inodes.
Loose(s) == \E L, C, I, R : s \in [list : L, cache : C, inode : [Ino -> I], refs : R]

\* The inodes are taken in order, and a used one has a count; only a directory's leads to
\* the root's entries.
InodesInOrder(s) ==
    \A i \in Ino : /\ s.inode[i] # NoInode <=> i < Fresh(s)
                   /\ i < Fresh(s) => /\ s.inode[i].count >= 1
                                      /\ s.inode[i].mode = "dir" <=> s.inode[i].priv = RootIno

\* The device's dentry stays.
DevicesCached(s) ==
    \A p \in DevPaths : /\ s.cache[p] = [entry |-> 1, ino |-> 1]
                        /\ 1 < Fresh(s) /\ s.inode[1].mode = "dev"

\* A dentry of a file has an entry and an inode, and hangs below a cached directory.
FilesHang(s) ==
    \A p \in FilePaths : Cached(s, p) =>
        /\ s.cache[p].entry \in Ino /\ s.cache[p].ino \in Ino /\ s.cache[p].ino < Fresh(s)
        /\ Cached(s, Front(p)) /\ Mode(s, Front(p)) = "dir"

\* No two dentries share an inode.
OwnInodes(s) ==
    \A p, q \in Paths : Cached(s, p) /\ Cached(s, q) /\ p # q => s.cache[p].ino # s.cache[q].ino

\* A dentry's count is the number of its children.
Kids(s, d) == {p \in FilePaths : Front(p) = d /\ Cached(s, p)}
RefsCounted(s) == \A d \in Dirs : s.refs[d] = Cardinality(Kids(s, d))

VfsOK(s) ==
    /\ s \in State
    /\ InodesInOrder(s)
    /\ DevicesCached(s)
    /\ FilesHang(s)
    /\ OwnInodes(s)
    /\ RefsCounted(s)

\* From s to t dentries, entries and inodes are only added; the inodes added are not open,
\* and the dentries added have the entry of their name.
Extends(s, t) ==
    /\ \A i \in Ino : s.inode[i] # NoInode => t.inode[i] = s.inode[i]
    /\ \A i \in Ino : s.inode[i] = NoInode /\ t.inode[i] # NoInode => t.inode[i].count = 1
    /\ \A p \in Paths : Cached(s, p) => t.cache[p] = s.cache[p]
    /\ \A n \in Names : s.list[n] # Nil => t.list[n] = s.list[n]
    /\ \A p \in FilePaths : Cached(t, p) /\ ~Cached(s, p) => t.cache[p].entry = t.list[Last(p)]

\* r is the outcome of a part of a call that began in s and looked for q.  Only what stays
\* within the bound on the inodes is followed (Bounded).
Reached(s, r, q) ==
    /\ Loose(r.s) /\ UsedIno(s) \subseteq UsedIno(r.s) /\ r.ok \in BOOLEAN
    /\ Bounded(r.s) => VfsOK(r.s) /\ Extends(s, r.s) /\ (r.ok => Cached(r.s, q))

-----------------------------------------------------------------------------
(* What the operations do to the fields.                                   *)

\* d_alloc takes a reference to the parent's dentry and changes nothing else.
LEMMA AllocFields ==
    ASSUME NEW s, Loose(s), NEW p
    PROVE  /\ Loose(Alloc(s, p)) /\ Alloc(s, p).list = s.list /\ Alloc(s, p).cache = s.cache
           /\ Alloc(s, p).inode = s.inode /\ Alloc(s, p).refs = [s.refs EXCEPT ![Front(p)] = @ + 1]
  <1>1. PICK L, C, I, R : s \in [list : L, cache : C, inode : [Ino -> I], refs : R]
    BY DEF Loose
  <1> DEFINE d == Front(p)
             t == [s EXCEPT !.refs[d] = @ + 1]
             r == [s.refs EXCEPT ![d] = @ + 1]
  <1>2. Alloc(s, p) = t
    BY DEF Alloc
  <1> HIDE DEF d
  <1>3. /\ t.list = s.list /\ t.cache = s.cache /\ t.inode = s.inode /\ t.refs = r
        /\ t \in [list : L, cache : C, inode : [Ino -> I], refs : {r}]
    BY <1>1
  <1>4. Loose(t)
    BY <1>3 DEF Loose
  <1>5. QED
    BY <1>2, <1>3, <1>4 DEF d

\* __d_drop gives it back and changes nothing else.
LEMMA DropFields ==
    ASSUME NEW s, Loose(s), NEW p
    PROVE  /\ Loose(Drop(s, p)) /\ Drop(s, p).list = s.list /\ Drop(s, p).cache = s.cache
           /\ Drop(s, p).inode = s.inode /\ Drop(s, p).refs = [s.refs EXCEPT ![Front(p)] = @ - 1]
  <1>1. PICK L, C, I, R : s \in [list : L, cache : C, inode : [Ino -> I], refs : R]
    BY DEF Loose
  <1> DEFINE d == Front(p)
             t == [s EXCEPT !.refs[d] = @ - 1]
             r == [s.refs EXCEPT ![d] = @ - 1]
  <1>2. Drop(s, p) = t
    BY DEF Drop
  <1> HIDE DEF d
  <1>3. /\ t.list = s.list /\ t.cache = s.cache /\ t.inode = s.inode /\ t.refs = r
        /\ t \in [list : L, cache : C, inode : [Ino -> I], refs : {r}]
    BY <1>1
  <1>4. Loose(t)
    BY <1>3 DEF Loose
  <1>5. QED
    BY <1>2, <1>3, <1>4 DEF d

Changed(f, k, v) == [f EXCEPT ![k] = v]
Relist(s, n, e) == [s EXCEPT !.list[n] = e]

\* What Add puts into the cache and into the inodes.
NewDentry(e, k) == [entry |-> e, ino |-> k]
NewInode(mode, priv) == [mode |-> mode, priv |-> priv, count |-> 1]

\* What a change of the list of entries leaves alone.
LEMMA ListFields ==
    ASSUME NEW s, Loose(s), NEW n, NEW e, NEW t, t = Relist(s, n, e)
    PROVE  /\ Loose(t) /\ t.list = Changed(s.list, n, e) /\ t.cache = s.cache
           /\ t.inode = s.inode /\ t.refs = s.refs
  <1>1. PICK L, C, I, R : s \in [list : L, cache : C, inode : [Ino -> I], refs : R]
    BY DEF Loose
  <1> DEFINE l == [s.list EXCEPT ![n] = e]
  <1>2. /\ t.list = l /\ t.cache = s.cache /\ t.inode = s.inode /\ t.refs = s.refs
        /\ t \in [list : {l}, cache : C, inode : [Ino -> I], refs : R]
    BY <1>1 DEF Relist
  <1>3. Loose(t)
    BY <1>2 DEF Loose
  <1>4. QED
    BY <1>2, <1>3 DEF Changed

\* Caching a component takes the next inode and fills the dentry.
LEMMA AddFields ==
    ASSUME NEW s, Loose(s), NEW p, NEW e, NEW mode, NEW priv, NEW t, t = Add(s, p, e, mode, priv)
    PROVE  /\ Loose(t) /\ t.list = s.list /\ t.refs = s.refs
           /\ t.inode = Changed(s.inode, Fresh(s), NewInode(mode, priv))
           /\ t.cache = Changed(s.cache, p, NewDentry(e, Fresh(s)))
  <1>1. PICK L, C, I, R : s \in [list : L, cache : C, inode : [Ino -> I], refs : R]
    BY DEF Loose
  <1> DEFINE k == Fresh(s)
             i == NewInode(mode, priv)
             d == NewDentry(e, k)
             u == [s EXCEPT !.inode[k] = i, !.cache[p] = d]
             c == Changed(s.cache, p, d)
             J == I \cup {i}
  <1>2. t = u
    BY DEF Add, NewDentry, NewInode
  <1> HIDE DEF k, i, d
  <1>3. u.list = s.list
    BY <1>1
  <1>4. u.refs = s.refs
    BY <1>1
  <1>5. u.inode = Changed(s.inode, k, i)
    BY <1>1 DEF Changed
  <1>6. u.cache = c
    BY <1>1 DEF Changed
  <1>7. u \in [list : {u.list}, cache : {u.cache}, inode : {u.inode}, refs : {u.refs}]
    BY <1>1
  <1>8. s.inode \in [Ino -> I] /\ s.list \in L /\ s.refs \in R
    BY <1>1
  <1>9. Changed(s.inode, k, i) \in [Ino -> J]
    BY <1>8 DEF Changed
  <1> HIDE DEF u, c, J
  <1>10. u \in [list : L, cache : {c}, inode : [Ino -> J], refs : R]
    BY <1>3, <1>4, <1>5, <1>6, <1>7, <1>8, <1>9
  <1>11. Loose(u)
    BY <1>10 DEF Loose
  <1>12. QED
    BY <1>2, <1>3, <1>4, <1>5, <1>6, <1>11 DEF k, i, d, c

\* A record of four fields is its fields.
LEMMA SameFields ==
    ASSUME NEW s, NEW t, Loose(s), Loose(t),
           s.list = t.list, s.cache = t.cache, s.inode = t.inode, s.refs = t.refs
    PROVE  s = t
  <1>1. PICK L, C, I, R : s \in [list : L, cache : C, inode : [Ino -> I], refs : R]
    BY DEF Loose
  <1>2. PICK L2, C2, I2, R2 : t \in [list : L2, cache : C2, inode : [Ino -> I2], refs : R2]
    BY DEF Loose
  <1>3. QED
    BY <1>1, <1>2

\* A state is loose.
LEMMA StateIsLoose == ASSUME NEW s \in State PROVE Loose(s)
  BY DEF State, Loose

-----------------------------------------------------------------------------
(* The next inode.                                                         *)

\* The next inode is a number, and one of Ino while the bound is kept.
LEMMA FreshIs ==
    ASSUME NEW s
    PROVE  /\ IsFiniteSet(UsedIno(s)) /\ Fresh(s) = Cardinality(UsedIno(s)) + 1
           /\ Fresh(s) \in Nat \ {0}
           /\ Bounded(s) => Fresh(s) \in Ino
  <1>1. MaxIno + MaxDepth \in Nat /\ MaxIno \in Nat \ {0} /\ MaxDepth \in Nat \ {0}
    BY VfsAssumption
  <1>2. IsFiniteSet(Ino)
    BY <1>1, FS_Interval DEF Ino
  <1>3. UsedIno(s) \in SUBSET Ino
    BY DEF UsedIno
  <1>4. IsFiniteSet(UsedIno(s)) /\ Cardinality(UsedIno(s)) \in Nat
    BY <1>2, <1>3, FS_Subset, FS_CardinalityType
  <1>5. Fresh(s) = Cardinality(UsedIno(s)) + 1
    BY DEF Fresh, UsedIno
  <1>6. QED
    BY <1>1, <1>4, <1>5 DEF Bounded, Ino

\* The next inode only moves up when inodes are taken.
LEMMA FreshGrows ==
    ASSUME NEW s, NEW t, UsedIno(s) \subseteq UsedIno(t)
    PROVE  Fresh(s) <= Fresh(t) /\ (Bounded(t) => Bounded(s))
  <1>1. Cardinality(UsedIno(s)) <= Cardinality(UsedIno(t))
    BY FreshIs, FS_Subset
  <1>2. Cardinality(UsedIno(s)) \in Nat /\ Cardinality(UsedIno(t)) \in Nat
    BY FreshIs, FS_CardinalityType
  <1>3. Fresh(s) <= Fresh(t)
    BY <1>1, <1>2, FreshIs
  <1>4. QED
    BY <1>3, FreshIs, VfsAssumption DEF Bounded

\* The next inode depends on the inodes alone.
LEMMA FreshSame == ASSUME NEW s, NEW t, s.inode = t.inode PROVE Fresh(s) = Fresh(t) /\ UsedIno(s) = UsedIno(t)
  BY DEF Fresh, UsedIno

\* Making an inode uses one more, at the bound too.
LEMMA FreshAdded ==
    ASSUME NEW s, Loose(s), NEW t, NEW mode, NEW priv,
           t.inode = Changed(s.inode, Fresh(s), NewInode(mode, priv))
    PROVE  UsedIno(s) \subseteq UsedIno(t)
  <1>1. PICK I : s.inode \in [Ino -> I]
    BY DEF Loose
  <1>2. NewInode(mode, priv) # NoInode
    BY DEF NoInode, NewInode
  <1>3. QED
    BY <1>1, <1>2 DEF UsedIno, Changed

-----------------------------------------------------------------------------
(* A dentry is hung into the cache, with a new inode.                      *)

\* Cached, Mode and Priv of a path are read from its dentry; the root is always cached.
LEMMA CachedIs ==
    ASSUME NEW s
    PROVE  /\ \A p \in Paths : Cached(s, p) <=> s.cache[p] # NoDentry
           /\ \A p \in Paths : Mode(s, p) = s.inode[s.cache[p].ino].mode
           /\ \A p \in Paths : Priv(s, p) = s.inode[s.cache[p].ino].priv
           /\ Cached(s, Root) /\ Mode(s, Root) = "dir" /\ Priv(s, Root) = RootIno
  BY RootIs DEF Cached, Mode, Priv

\* The children of a dentry differ in their last component.
LEMMA KidsFinite == ASSUME NEW s, NEW d PROVE IsFiniteSet(Kids(s, d))
  <1> DEFINE K == Kids(s, d)
             f == [p \in K |-> Last(p)]
  <1>1. \A p \in K : p \in FilePaths /\ Front(p) = d
    BY DEF Kids
  <1> HIDE DEF K
  <1>2. \A p \in K : Last(p) \in Names /\ p = Append(d, Last(p))
    BY <1>1, FrontIs
  <1>3. f \in Injection(K, Names)
    BY <1>2 DEF Injection, IsInjective
  <1>4. QED
    BY <1>3, FS_Injection, VfsAssumption DEF K

\* A state is a loose record whose fields have their types.
LEMMA StateFields ==
    ASSUME NEW s
    PROVE  s \in State <=> /\ Loose(s) /\ s.list \in [Names -> Ino \cup {Nil}]
                           /\ s.cache \in [Paths -> Dentry] /\ s.inode \in [Ino -> Inode]
                           /\ s.refs \in [Dirs -> Nat]
  <1>1. ASSUME Loose(s), s.list \in [Names -> Ino \cup {Nil}], s.cache \in [Paths -> Dentry],
               s.inode \in [Ino -> Inode], s.refs \in [Dirs -> Nat]
        PROVE  s \in State
    <2>1. PICK L, C, I, R : s \in [list : L, cache : C, inode : [Ino -> I], refs : R]
      BY <1>1 DEF Loose
    <2>2. QED
      BY <1>1, <2>1 DEF State
  <1>2. QED
    BY <1>1, StateIsLoose DEF State

\* Below a cached directory p gets a dentry for entry e with a new inode.
Hangs(s, t, p, e, mode, priv) ==
    /\ p \in FilePaths /\ e \in Ino /\ mode \in {"file", "dir"}
    /\ priv \in Ino \cup {RootIno} /\ (mode = "dir" <=> priv = RootIno)
    /\ Loose(t) /\ ~Cached(s, p) /\ Cached(s, Front(p)) /\ Mode(s, Front(p)) = "dir"
    /\ t.list \in [Names -> Ino \cup {Nil}] /\ t.list[Last(p)] = e
    /\ \A n \in Names : s.list[n] # Nil => t.list[n] = s.list[n]
    /\ t.cache = Changed(s.cache, p, NewDentry(e, Fresh(s)))
    /\ t.inode = Changed(s.inode, Fresh(s), NewInode(mode, priv))
    /\ t.refs = [s.refs EXCEPT ![Front(p)] = @ + 1]

\* Hanging a new dentry with a new inode below a cached directory keeps VfsOK.
LEMMA Hang ==
    ASSUME NEW s, NEW t, NEW p, NEW e, NEW mode, NEW priv,
           VfsOK(s), Bounded(s), Hangs(s, t, p, e, mode, priv)
    PROVE  VfsOK(t) /\ Extends(s, t) /\ Cached(t, p)
  <1> DEFINE k == Fresh(s)
             N == NewInode(mode, priv)
             D == NewDentry(e, k)
             d == Front(p)
  <1>0. /\ p \in FilePaths /\ e \in Ino /\ mode \in {"file", "dir"}
        /\ priv \in Ino \cup {RootIno} /\ (mode = "dir" <=> priv = RootIno)
        /\ ~Cached(s, p) /\ Cached(s, d) /\ Mode(s, d) = "dir"
    BY DEF Hangs
  <1>1. /\ s.list \in [Names -> Ino \cup {Nil}] /\ s.cache \in [Paths -> Dentry]
        /\ s.inode \in [Ino -> Inode] /\ s.refs \in [Dirs -> Nat]
        /\ InodesInOrder(s) /\ DevicesCached(s) /\ FilesHang(s) /\ OwnInodes(s) /\ RefsCounted(s)
    BY StateFields DEF VfsOK
  <1>2. k \in Ino /\ k \in Nat \ {0} /\ Ino \subseteq Nat /\ Nil \notin Nat
    BY FreshIs, VfsAssumption DEF Ino
  <1>3. /\ N \in Inode /\ N # NoInode /\ N.count = 1 /\ N.mode = mode /\ N.priv = priv
    BY <1>0, <1>2 DEF Inode, NoInode, NewInode
  <1>4. /\ D \in Dentry /\ D # NoDentry /\ D.ino = k /\ D.entry = e
    BY <1>0, <1>2 DEF Dentry, NoDentry, NewDentry
  <1>5. p \in Paths /\ p \notin DevPaths /\ d \in Dirs /\ Last(p) \in Names /\ d # p
    BY <1>0, DevPathIs, FrontIs DEF Paths
  <1>6. /\ t.inode = Changed(s.inode, k, N) /\ t.cache = Changed(s.cache, p, D)
        /\ t.refs = Changed(s.refs, d, s.refs[d] + 1)
        /\ t.list \in [Names -> Ino \cup {Nil}] /\ t.list[Last(p)] = e
        /\ \A n \in Names : s.list[n] # Nil => t.list[n] = s.list[n]
    BY DEF Hangs, Changed
  <1> HIDE DEF k, N, D, d
  <1>7. /\ t.inode \in [Ino -> Inode] /\ t.inode[k] = N
        /\ \A i \in Ino : i # k => t.inode[i] = s.inode[i]
    BY <1>1, <1>2, <1>3, <1>6 DEF Changed
  <1>8. /\ t.cache \in [Paths -> Dentry] /\ t.cache[p] = D
        /\ \A q \in Paths : q # p => t.cache[q] = s.cache[q]
    BY <1>1, <1>4, <1>5, <1>6 DEF Changed
  <1>9. /\ t.refs \in [Dirs -> Nat] /\ t.refs[d] = s.refs[d] + 1
        /\ \A q \in Dirs : q # d => t.refs[q] = s.refs[q]
    <2>1. s.refs[d] + 1 \in Nat
      BY <1>1, <1>5
    <2>2. QED
      BY <1>1, <1>5, <1>6, <2>1 DEF Changed
  <1>10. t \in State
    BY <1>6, <1>7, <1>8, <1>9, StateFields DEF Hangs
  <1>11. Fresh(t) = k + 1
    <2>1. k \notin UsedIno(s)
      BY <1>1, <1>2 DEF UsedIno, InodesInOrder, k
    <2>2. UsedIno(t) = UsedIno(s) \cup {k}
      BY <1>2, <1>3, <1>7 DEF UsedIno
    <2>3. Cardinality(UsedIno(t)) = Cardinality(UsedIno(s)) + 1
      BY <2>1, <2>2, FreshIs, FS_AddElement
    <2>4. QED
      BY <2>3, FreshIs DEF k
  <1>12. /\ \A q \in Paths : Cached(t, q) <=> (q = p \/ Cached(s, q))
         /\ \A q \in Dirs : Cached(t, q) <=> (q = p \/ Cached(s, q))
    BY <1>0, <1>4, <1>5, <1>8, CachedIs DEF Dirs, Paths
  <1>13. \A q \in Paths : Cached(s, q) => /\ s.cache[q].ino \in Ino /\ s.cache[q].ino < k
                                         /\ q # p /\ t.cache[q] = s.cache[q]
                                         /\ t.inode[s.cache[q].ino] = s.inode[s.cache[q].ino]
    <2>1. \A q \in DevPaths : s.cache[q].ino = 1 /\ 1 < k
      BY <1>1 DEF DevicesCached, k
    <2>2. 1 \in Ino
      BY VfsAssumption DEF Ino
    <2>3. \A q \in FilePaths : Cached(s, q) => s.cache[q].ino \in Ino /\ s.cache[q].ino < k
      BY <1>1 DEF FilesHang, k
    <2>4. \A q \in Paths : Cached(s, q) => s.cache[q].ino \in Ino /\ s.cache[q].ino < k
      BY <2>1, <2>2, <2>3 DEF Paths
    <2>5. \A q \in Paths : Cached(s, q) => t.inode[s.cache[q].ino] = s.inode[s.cache[q].ino]
      <3>1. \A i \in Ino : i < k => i # k
        BY <1>2
      <3>2. QED
        BY <1>7, <2>4, <3>1
    <2>6. \A q \in Paths : Cached(s, q) => q # p /\ t.cache[q] = s.cache[q]
      BY <1>0, <1>8
    <2>7. QED
      BY <2>4, <2>5, <2>6
  <1>14. \A q \in Dirs : Cached(s, q) => Mode(t, q) = Mode(s, q)
    BY <1>13, CachedIs DEF Dirs, Paths
  <1>15. InodesInOrder(t)
    <2> SUFFICES ASSUME NEW i \in Ino
                 PROVE  /\ t.inode[i] # NoInode <=> i < k + 1
                        /\ i < k + 1 => /\ t.inode[i].count >= 1
                                        /\ t.inode[i].mode = "dir" <=> t.inode[i].priv = RootIno
      BY <1>11 DEF InodesInOrder
    <2>1. CASE i = k
      BY <1>0, <1>2, <1>3, <1>7, <2>1
    <2>2. CASE i # k
      <3>1. i < k + 1 <=> i < k
        BY <1>2, <2>2
      <3>2. QED
        BY <1>1, <1>7, <2>2, <3>1 DEF InodesInOrder, k
    <2>3. QED
      BY <2>1, <2>2
  <1>16. DevicesCached(t)
    <2> SUFFICES ASSUME NEW q \in DevPaths
                 PROVE  /\ t.cache[q] = [entry |-> 1, ino |-> 1]
                        /\ 1 < Fresh(t) /\ t.inode[1].mode = "dev"
      BY DEF DevicesCached
    <2>1. s.cache[q] = [entry |-> 1, ino |-> 1] /\ 1 < k /\ s.inode[1].mode = "dev"
      BY <1>1 DEF DevicesCached, k
    <2>2. q \in Paths /\ q # p /\ 1 \in Ino
      BY <1>5, VfsAssumption DEF Paths, Ino
    <2>3. QED
      BY <1>2, <1>7, <1>8, <1>11, <2>1, <2>2
  <1>17. FilesHang(t)
    <2> SUFFICES ASSUME NEW q \in FilePaths, Cached(t, q)
                 PROVE  /\ t.cache[q].entry \in Ino /\ t.cache[q].ino \in Ino
                        /\ t.cache[q].ino < Fresh(t)
                        /\ Cached(t, Front(q)) /\ Mode(t, Front(q)) = "dir"
      BY DEF FilesHang
    <2>1. Front(q) \in Dirs /\ q \in Paths
      BY FrontIs DEF Paths
    <2>2. CASE q = p
      <3>1. Cached(t, d) /\ Mode(t, d) = "dir"
        BY <1>0, <1>5, <1>12, <1>14
      <3>2. QED
        BY <1>0, <1>2, <1>4, <1>8, <1>11, <2>1, <2>2, <3>1 DEF d
    <2>3. CASE q # p
      <3>1. Cached(s, q)
        BY <1>12, <2>1, <2>3
      <3>2. /\ s.cache[q].entry \in Ino /\ Cached(s, Front(q)) /\ Mode(s, Front(q)) = "dir"
        BY <1>1, <3>1 DEF FilesHang
      <3>3. Cached(t, Front(q)) /\ Mode(t, Front(q)) = "dir"
        BY <1>12, <1>14, <2>1, <3>2
      <3>4. t.cache[q] = s.cache[q] /\ s.cache[q].ino \in Ino /\ s.cache[q].ino < k + 1
        <4>1. t.cache[q] = s.cache[q] /\ s.cache[q].ino \in Ino /\ s.cache[q].ino < k
          BY <1>13, <2>1, <3>1
        <4>2. \A i \in Ino : i < k => i < k + 1
          BY <1>2
        <4>3. QED
          BY <4>1, <4>2
      <3>5. QED
        BY <1>11, <3>2, <3>3, <3>4
    <2>4. QED
      BY <2>2, <2>3
  <1>18. OwnInodes(t)
    <2> SUFFICES ASSUME NEW q \in Paths, NEW r \in Paths, Cached(t, q), Cached(t, r), q # r
                 PROVE  t.cache[q].ino # t.cache[r].ino
      BY DEF OwnInodes
    <2>1. t.cache[p].ino = k /\ Ino \subseteq Nat /\ k \in Nat
      BY <1>2, <1>4, <1>5, <1>8
    <2>2. \A x \in Paths : Cached(t, x) /\ x # p => Cached(s, x) /\ t.cache[x].ino = s.cache[x].ino
                                                   /\ s.cache[x].ino < k /\ s.cache[x].ino \in Nat
      BY <1>2, <1>12, <1>13
    <2>3. CASE q = p
      BY <2>1, <2>2, <2>3
    <2>4. CASE r = p
      BY <2>1, <2>2, <2>4
    <2>5. CASE q # p /\ r # p
      BY <1>1, <2>2, <2>5 DEF OwnInodes
    <2>6. QED
      BY <2>3, <2>4, <2>5
  <1>19. RefsCounted(t)
    <2> SUFFICES ASSUME NEW q \in Dirs PROVE t.refs[q] = Cardinality(Kids(t, q))
      BY DEF RefsCounted
    <2>1. s.refs[q] = Cardinality(Kids(s, q))
      BY <1>1 DEF RefsCounted
    <2>2. CASE q = d
      <3>1. Kids(t, q) = Kids(s, q) \cup {p}
        BY <1>0, <1>12, <2>2 DEF Kids, d, Paths
      <3>2. p \notin Kids(s, q)
        BY <1>0 DEF Kids
      <3>3. Cardinality(Kids(t, q)) = Cardinality(Kids(s, q)) + 1
        BY <3>1, <3>2, KidsFinite, FS_AddElement
      <3>4. QED
        BY <1>9, <2>1, <2>2, <3>3
    <2>3. CASE q # d
      <3>1. Kids(t, q) = Kids(s, q)
        BY <1>0, <1>12, <2>3 DEF Kids, d, Paths
      <3>2. QED
        BY <1>9, <2>1, <2>3, <3>1
    <2>4. QED
      BY <2>2, <2>3
  <1>20. Extends(s, t)
    <2>1. s.inode[k] = NoInode
      BY <1>1, <1>2 DEF InodesInOrder, k
    <2>2. /\ \A i \in Ino : s.inode[i] # NoInode => t.inode[i] = s.inode[i]
          /\ \A i \in Ino : s.inode[i] = NoInode /\ t.inode[i] # NoInode => t.inode[i].count = 1
      BY <1>3, <1>7, <2>1
    <2>3. \A q \in Paths : Cached(s, q) => t.cache[q] = s.cache[q]
      BY <1>13
    <2>4. \A q \in FilePaths : Cached(t, q) /\ ~Cached(s, q) => t.cache[q].entry = t.list[Last(q)]
      BY <1>4, <1>6, <1>8, <1>12 DEF Paths
    <2>5. QED
      BY <1>6, <2>2, <2>3, <2>4 DEF Extends
  <1>21. Cached(t, p)
    BY <1>5, <1>12
  <1>22. QED
    BY <1>10, <1>15, <1>16, <1>17, <1>18, <1>19, <1>20, <1>21 DEF VfsOK

-----------------------------------------------------------------------------
(* find_dentry and the walk of select_file.                                *)

\* Nothing added extends a state.
LEMMA ExtendsSelf == ASSUME NEW s PROVE Extends(s, s)
  BY DEF Extends

\* Additions add up.
LEMMA ExtendsTrans ==
    ASSUME NEW s, NEW t, NEW u, VfsOK(t), Extends(s, t), Extends(t, u)
    PROVE  Extends(s, u)
  <1>1. \A p \in FilePaths : p \in Paths /\ Last(p) \in Names
    BY FrontIs DEF Paths
  <1>2. \A i \in Ino : s.inode[i] # NoInode => u.inode[i] = s.inode[i]
    BY DEF Extends
  <1>3. \A i \in Ino : s.inode[i] = NoInode /\ u.inode[i] # NoInode => u.inode[i].count = 1
    BY DEF Extends
  <1>4. \A p \in Paths : Cached(s, p) => Cached(t, p)
    BY CachedIs DEF Extends
  <1>5. \A p \in Paths : Cached(s, p) => u.cache[p] = s.cache[p]
    BY <1>4 DEF Extends
  <1>6. \A n \in Names : s.list[n] # Nil => u.list[n] = s.list[n]
    BY DEF Extends
  <1>7. ASSUME NEW p \in FilePaths, Cached(u, p), ~Cached(s, p) PROVE u.cache[p].entry = u.list[Last(p)]
    <2>1. CASE Cached(t, p)
      <3>1. t.cache[p].entry = t.list[Last(p)] /\ u.cache[p] = t.cache[p]
        BY <1>1, <1>7, <2>1 DEF Extends
      <3>2. t.cache[p].entry \in Ino
        BY <2>1 DEF VfsOK, FilesHang
      <3>3. t.list[Last(p)] # Nil
        BY <3>1, <3>2, VfsAssumption DEF Ino
      <3>4. QED
        BY <1>1, <3>1, <3>3 DEF Extends
    <2>2. CASE ~Cached(t, p)
      BY <1>7, <2>2 DEF Extends
    <2>3. QED
      BY <2>1, <2>2
  <1>8. QED
    BY <1>2, <1>3, <1>5, <1>6, <1>7 DEF Extends

\* The three ends of find_dentry: found in the cache, no such entry, cached from the file system.
LEMMA FindCases ==
    ASSUME NEW s, NEW p
    PROVE  /\ Cached(s, p) => Find(s, p).s = s /\ Find(s, p).ok = TRUE
           /\ ~Cached(s, p) /\ Lookup(s, p) = Nil =>
                Find(s, p).s = Drop(Alloc(s, p), p) /\ Find(s, p).ok = FALSE
           /\ ~Cached(s, p) /\ Lookup(s, p) # Nil =>
                /\ Find(s, p).s = Add(Alloc(s, p), p, Lookup(s, p), "file", Lookup(s, p))
                /\ Find(s, p).ok = TRUE
  BY DEF Find, Found

\* find_dentry takes inodes and never gives one back, with the bound on them kept or not.
LEMMA FindLoose ==
    ASSUME NEW s, Loose(s), NEW p
    PROVE  Loose(Find(s, p).s) /\ UsedIno(s) \subseteq UsedIno(Find(s, p).s) /\ Find(s, p).ok \in BOOLEAN
  <1>1. Loose(Alloc(s, p)) /\ Alloc(s, p).inode = s.inode
    BY AllocFields
  <1>2. CASE Cached(s, p)
    BY <1>2, FindCases
  <1>3. CASE ~Cached(s, p) /\ Lookup(s, p) = Nil
    <2>1. Loose(Drop(Alloc(s, p), p)) /\ Drop(Alloc(s, p), p).inode = s.inode
      BY <1>1, DropFields
    <2>2. QED
      BY <1>3, <2>1, FindCases, FreshSame
  <1>4. CASE ~Cached(s, p) /\ Lookup(s, p) # Nil
    <2> DEFINE a == Alloc(s, p)
               e == Lookup(s, p)
               m == "file"
               t == Add(a, p, e, m, e)
    <2>0. Loose(a) /\ t = Add(a, p, e, m, e)
      BY <1>1
    <2> HIDE DEF a, e, m, t
    <2>1. Loose(t) /\ t.inode = Changed(a.inode, Fresh(a), NewInode(m, e))
      BY <2>0, AddFields
    <2>2. UsedIno(a) \subseteq UsedIno(t)
      BY <1>1, <2>1, FreshAdded DEF a
    <2>3. UsedIno(a) = UsedIno(s)
      BY <1>1, FreshSame DEF a
    <2>4. Find(s, p).s = t /\ Find(s, p).ok = TRUE
      BY <1>4, FindCases DEF t, a, e, m
    <2>5. QED
      BY <2>1, <2>2, <2>3, <2>4
  <1>5. QED
    BY <1>2, <1>3, <1>4

\* Only a directory's inode leads to the root's entries.
LEMMA DirPriv ==
    ASSUME NEW s, VfsOK(s), NEW d \in Dirs, Cached(s, d)
    PROVE  Mode(s, d) = "dir" <=> Priv(s, d) = RootIno
  <1>1. CASE d = Root
    BY <1>1, CachedIs
  <1>2. CASE d \in FilePaths
    <2>1. s.cache[d].ino \in Ino /\ s.cache[d].ino < Fresh(s)
      BY <1>2 DEF VfsOK, FilesHang
    <2>2. d \in Paths
      BY <1>2 DEF Paths
    <2>3. QED
      BY <2>1, <2>2, CachedIs DEF VfsOK, InodesInOrder
  <1>3. QED
    BY <1>1, <1>2 DEF Dirs

\* The device is always found; a file is found or added below its directory, and when it
\* is not there nothing changes.
LEMMA FindStep ==
    ASSUME NEW s, VfsOK(s), Bounded(s), NEW p \in Paths, p \in FilePaths => Cached(s, Front(p))
    PROVE  /\ VfsOK(Find(s, p).s) /\ Extends(s, Find(s, p).s)
           /\ Find(s, p).ok => Cached(Find(s, p).s, p)
           /\ ~Find(s, p).ok => /\ Find(s, p).s = s /\ p \in FilePaths /\ ~Cached(s, p)
                                /\ Lookup(s, p) = Nil
  <1>1. /\ Loose(s) /\ s.list \in [Names -> Ino \cup {Nil}] /\ s.cache \in [Paths -> Dentry]
        /\ s.inode \in [Ino -> Inode] /\ s.refs \in [Dirs -> Nat]
    BY StateFields DEF VfsOK
  <1> DEFINE a == Alloc(s, p)
  <1>2. /\ Loose(a) /\ a.list = s.list /\ a.cache = s.cache /\ a.inode = s.inode
        /\ a.refs = [s.refs EXCEPT ![Front(p)] = @ + 1]
    BY <1>1, AllocFields
  <1> HIDE DEF a
  <1>3. CASE Cached(s, p)
    BY <1>3, FindCases, ExtendsSelf
  <1>4. ASSUME ~Cached(s, p) PROVE p \in FilePaths /\ Front(p) \in Dirs /\ Last(p) \in Names
    <2>1. ASSUME p \in DevPaths PROVE FALSE
      <3>1. s.cache[p] = [entry |-> 1, ino |-> 1]
        BY <2>1 DEF VfsOK, DevicesCached
      <3>2. s.cache[p] # NoDentry
        BY <3>1, VfsAssumption DEF NoDentry
      <3>3. QED
        BY <1>4, <3>2, CachedIs
    <2>2. QED
      BY <2>1, FrontIs DEF Paths
  <1>5. CASE ~Cached(s, p) /\ Lookup(s, p) = Nil
    <2> DEFINE t == Drop(a, p)
    <2>1. /\ Loose(t) /\ t.list = s.list /\ t.cache = s.cache /\ t.inode = s.inode
          /\ t.refs = [a.refs EXCEPT ![Front(p)] = @ - 1]
      BY <1>2, DropFields
    <2> HIDE DEF t
    <2>2. Front(p) \in Dirs
      BY <1>4, <1>5
    <2>3. t.refs = s.refs
      <3> DEFINE d == Front(p)
      <3>1. a.refs = [s.refs EXCEPT ![d] = s.refs[d] + 1] /\ t.refs = [a.refs EXCEPT ![d] = a.refs[d] - 1]
        BY <1>2, <2>1
      <3>2. d \in Dirs /\ s.refs \in [Dirs -> Nat]
        BY <1>1, <2>2
      <3> HIDE DEF d
      <3>3. QED
        BY <3>1, <3>2
    <2>4. t = s
      BY <1>1, <2>1, <2>3, SameFields
    <2>5. Find(s, p).s = s /\ Find(s, p).ok = FALSE
      BY <1>5, <2>4, FindCases DEF t, a
    <2>6. QED
      BY <1>4, <1>5, <2>5, ExtendsSelf
  <1>6. CASE ~Cached(s, p) /\ Lookup(s, p) # Nil
    <2> DEFINE e == Lookup(s, p)
               m == "file"
               t == Add(a, p, e, m, e)
    <2>0. t = Add(a, p, e, m, e) /\ m # "dir" /\ m \in {"file", "dir"} /\ e = Lookup(s, p)
      OBVIOUS
    <2> HIDE DEF t, e, m
    <2>1. /\ Loose(t) /\ t.list = a.list /\ t.refs = a.refs
          /\ t.inode = Changed(a.inode, Fresh(a), NewInode(m, e))
          /\ t.cache = Changed(a.cache, p, NewDentry(e, Fresh(a)))
      BY <1>2, <2>0, AddFields
    <2>2. p \in FilePaths /\ Front(p) \in Dirs /\ Last(p) \in Names /\ Cached(s, Front(p))
      BY <1>4, <1>6
    <2>3. Priv(s, Front(p)) = RootIno /\ e = s.list[Last(p)]
      BY <1>6, <2>0 DEF Lookup
    <2>4. e \in Ino /\ e # RootIno
      <3>1. e \in Ino
        BY <1>1, <1>6, <2>0, <2>2, <2>3
      <3>2. QED
        BY <3>1, VfsAssumption DEF Ino, RootIno
    <2>5. Mode(s, Front(p)) = "dir"
      BY <2>2, <2>3, DirPriv
    <2>6. Fresh(a) = Fresh(s)
      BY <1>2, FreshSame
    <2>8. Hangs(s, t, p, e, m, e)
      <3>1. t.list \in [Names -> Ino \cup {Nil}] /\ t.list[Last(p)] = e
        BY <1>1, <1>2, <2>1, <2>3
      <3>2. \A n \in Names : s.list[n] # Nil => t.list[n] = s.list[n]
        BY <1>2, <2>1
      <3>3. t.cache = Changed(s.cache, p, NewDentry(e, Fresh(s)))
        BY <1>2, <2>1, <2>6
      <3>4. t.inode = Changed(s.inode, Fresh(s), NewInode(m, e))
        BY <1>2, <2>1, <2>6
      <3>5. t.refs = [s.refs EXCEPT ![Front(p)] = @ + 1]
        BY <1>2, <2>1
      <3>6. m # "dir" /\ e \in Ino \cup {RootIno} /\ m \in {"file", "dir"}
        BY <2>0, <2>4
      <3>7. QED
        BY <1>6, <2>1, <2>2, <2>4, <2>5, <3>1, <3>2, <3>3, <3>4, <3>5, <3>6, Zenon DEF Hangs
    <2>9. VfsOK(t) /\ Extends(s, t) /\ Cached(t, p)
      BY <2>8, Hang
    <2>10. Find(s, p).s = t /\ Find(s, p).ok = TRUE
      BY <1>6, FindCases DEF t, a, e, m
    <2>11. QED
      BY <2>9, <2>10
  <1>7. QED
    BY <1>3, <1>5, <1>6

\* One component after another.
LEMMA FindReached ==
    ASSUME NEW s, NEW r, NEW q, Reached(s, r, q), r.ok, NEW p \in Paths, p \in FilePaths => Front(p) = q
    PROVE  Reached(s, Find(r.s, p), p)
  <1> DEFINE t == Find(r.s, p)
  <1>1. Loose(t.s) /\ UsedIno(r.s) \subseteq UsedIno(t.s) /\ t.ok \in BOOLEAN
    BY FindLoose DEF Reached
  <1>2. UsedIno(s) \subseteq UsedIno(t.s)
    BY <1>1 DEF Reached
  <1>3. ASSUME Bounded(t.s) PROVE VfsOK(t.s) /\ Extends(s, t.s) /\ (t.ok => Cached(t.s, p))
    <2>1. Bounded(r.s)
      BY <1>1, <1>3, FreshGrows
    <2>2. VfsOK(r.s) /\ Extends(s, r.s) /\ Cached(r.s, q)
      BY <2>1 DEF Reached
    <2>3. VfsOK(t.s) /\ Extends(r.s, t.s) /\ (t.ok => Cached(t.s, p))
      BY <2>1, <2>2, FindStep
    <2>4. QED
      BY <2>2, <2>3, ExtendsTrans
  <1> HIDE DEF t
  <1>4. Reached(s, t, p)
    BY <1>1, <1>2, <1>3 DEF Reached
  <1>5. QED
    BY <1>4 DEF t

\* What a walk has come to after i components, from what it had come to before.
Walked(s, p, f, i) ==
    IF i = 0 THEN Found(s, TRUE)
    ELSE IF f[i - 1].ok THEN Find(f[i - 1].s, SubSeq(p, 1, i)) ELSE f[i - 1]

\* The recursive function that Select walks with exists.
LEMMA WalkExists ==
    ASSUME NEW s, NEW p, NEW n \in Nat
    PROVE  \E f : f = [i \in 0 .. n |-> Walked(s, p, f, i)]
  <1> DEFINE Rec(f, k) == f = [i \in 0 .. k |-> Walked(s, p, f, i)]
             Bad == {k \in Nat : ~ \E f : Rec(f, k)}
  <1>1. ASSUME Bad # {} PROVE FALSE
    <2>1. Bad \in SUBSET Nat
      OBVIOUS
    <2> HIDE DEF Bad
    <2>2. PICK m \in Bad : \A k \in Bad : m <= k
      BY <1>1, <2>1, LeastNat
    <2> USE DEF Bad
    <2>3. CASE m = 0
      <3>1. Rec([i \in 0 .. 0 |-> Found(s, TRUE)], 0)
        BY DEF Walked
      <3>2. QED
        BY <2>2, <2>3, <3>1
    <2>4. CASE m # 0
      <3>1. m - 1 \in Nat /\ m - 1 \notin Bad
        BY <2>2, <2>4
      <3>2. PICK f : Rec(f, m - 1)
        BY <3>1
      <3> DEFINE g == [i \in 0 .. m |-> Walked(s, p, f, i)]
      <3>3. \A i \in 0 .. m : i # 0 => i - 1 \in 0 .. m - 1 /\ i - 1 \in 0 .. m
        BY <2>2
      <3>4. \A i \in 0 .. m - 1 : f[i] = g[i]
        BY <2>2, <3>2
      <3>5. \A i \in 0 .. m : i # 0 => f[i - 1] = g[i - 1]
        BY <3>3, <3>4
      <3>6. \A i \in 0 .. m : Walked(s, p, f, i) = Walked(s, p, g, i)
        <4> HIDE DEF g
        <4>1. QED
          BY <3>5 DEF Walked
      <3>7. Rec(g, m)
        <4>1. g = [i \in 0 .. m |-> Walked(s, p, f, i)]
          OBVIOUS
        <4> HIDE DEF g
        <4>2. QED
          BY <3>6, <4>1
      <3>8. QED
        BY <2>2, <3>7
    <2>5. QED
      BY <2>3, <2>4
  <1>2. QED
    BY <1>1

Begun(s) == Found(s, TRUE)
IsWalk(f, s, p, n) ==
    /\ f[0] = Begun(s)
    /\ \A i \in 0 .. n - 1 : f[i + 1] = IF f[i].ok THEN Find(f[i].s, SubSeq(p, 1, i + 1)) ELSE f[i]

\* Select is the last state of a walk over the components.
LEMMA SelectIs ==
    ASSUME NEW s, NEW p, NEW n \in Nat
    PROVE  \E f : Select(s, p, n) = f[n] /\ IsWalk(f, s, p, n)
  <1> DEFINE Rec(f) == f = [i \in 0 .. n |-> Walked(s, p, f, i)]
             g == CHOOSE f : Rec(f)
  <1>1. Select(s, p, n) = g[n]
    BY DEF Select, Walked
  <1>2. \E f : Rec(f)
    BY WalkExists
  <1>3. Rec(g)
    BY <1>2, Zenon
  <1> HIDE DEF g
  <1>4. g[0] = Found(s, TRUE)
    BY <1>3 DEF Walked
  <1>5. \A i \in 0 .. n - 1 : i + 1 \in 0 .. n /\ i + 1 # 0 /\ (i + 1) - 1 = i
    OBVIOUS
  <1>6. \A i \in 0 .. n - 1 : g[i + 1] = Walked(s, p, g, i + 1)
    BY <1>3, <1>5
  <1>7. \A i \in 0 .. n - 1 : g[i + 1] = IF g[i].ok THEN Find(g[i].s, SubSeq(p, 1, i + 1)) ELSE g[i]
    BY <1>5, <1>6 DEF Walked
  <1>8. QED
    BY <1>1, <1>4, <1>7 DEF IsWalk, Begun

\* select_file: every component is found in the cache, or comes into it, or ends the walk.
LEMMA SelectReached ==
    ASSUME NEW s, NEW r, Reached(s, Begun(r), Root), NEW p \in Paths, NEW n \in Nat, n <= Len(p)
    PROVE  Reached(s, Select(r, p, n), SubSeq(p, 1, n))
  <1>1. PICK f : Select(r, p, n) = f[n] /\ IsWalk(f, r, p, n)
    BY SelectIs
  <1>2. Len(p) \in Nat /\ SubSeq(p, 1, 0) = Root
    <2>1. CASE p \in FilePaths
      <3>1. p \in Seq(Names) /\ Len(p) \in Nat
        BY <2>1, FilePathIs, LenProperties
      <3>2. QED
        BY <3>1, SubSeqEmpty DEF Root
    <2>2. CASE p \in DevPaths
      BY <2>2, DevPathIs
    <2>3. QED
      BY <2>1, <2>2 DEF Paths
  <1> DEFINE S == {i \in 0 .. n : Reached(s, f[i], SubSeq(p, 1, i))}
  <1>3. 0 \in S
    <2>1. f[0] = Begun(r)
      BY <1>1 DEF IsWalk
    <2>2. Reached(s, f[0], SubSeq(p, 1, 0))
      BY <1>2, <2>1, Zenon
    <2>3. QED
      BY <2>2
  <1>4. ASSUME NEW i \in 0 .. n - 1, i \in S PROVE i + 1 \in S
    <2>1. Reached(s, f[i], SubSeq(p, 1, i)) /\ i + 1 \in 0 .. n /\ i + 1 \in 1 .. Len(p)
      BY <1>2, <1>4
    <2>2. CASE f[i].ok
      <3> DEFINE q == SubSeq(p, 1, i + 1)
      <3>1. q \in Paths /\ (q \in FilePaths => Front(q) = SubSeq(p, 1, i))
        <4>1. CASE p \in FilePaths
          <5>1. q \in FilePaths /\ Front(q) = SubSeq(p, 1, (i + 1) - 1) /\ (i + 1) - 1 = i
            BY <2>1, <4>1, PrefixPath
          <5>2. QED
            BY <5>1 DEF Paths
        <4>2. CASE p \in DevPaths
          <5>1. Len(p) = 1 /\ SubSeq(p, 1, 1) = p /\ p \notin FilePaths
            BY <4>2, DevPathIs
          <5>2. i + 1 = 1
            BY <2>1, <5>1
          <5>3. QED
            BY <5>1, <5>2
        <4>3. QED
          BY <4>1, <4>2 DEF Paths
      <3> HIDE DEF q
      <3>2. Reached(s, Find(f[i].s, q), q)
        BY <2>1, <2>2, <3>1, FindReached
      <3>3. f[i + 1] = Find(f[i].s, q)
        BY <1>1, <2>2 DEF q, IsWalk
      <3>4. QED
        BY <2>1, <3>2, <3>3 DEF q
    <2>3. CASE ~f[i].ok
      <3>1. f[i + 1] = f[i]
        BY <1>1, <2>3 DEF IsWalk
      <3>2. Reached(s, f[i], SubSeq(p, 1, i + 1))
        BY <2>1, <2>3 DEF Reached
      <3>3. QED
        BY <2>1, <3>1, <3>2
    <2>4. QED
      BY <2>2, <2>3
  <1> HIDE DEF S
  <1>5. \A i \in 0 .. n : i \in S
    BY <1>3, <1>4, UpTo
  <1>6. n \in S
    BY <1>5
  <1>7. QED
    BY <1>1, <1>6 DEF S

-----------------------------------------------------------------------------
(* create_new_dentry.                                                      *)

PrivFor(s, p, mode) == IF mode = "dir" THEN Priv(s, Front(p)) ELSE Fresh(s)

\* initramfs_mkdir and initramfs_create enter the name and cache it, with the next inode.
LEMMA MakeFields ==
    ASSUME NEW s, Loose(s), NEW p, NEW mode, NEW t, t = MakeEntry(s, p, mode)
    PROVE  /\ Loose(t) /\ t.list = Changed(s.list, Last(p), Fresh(s)) /\ t.refs = s.refs
           /\ t.cache = Changed(s.cache, p, NewDentry(Fresh(s), Fresh(s)))
           /\ t.inode = Changed(s.inode, Fresh(s), NewInode(mode, PrivFor(s, p, mode)))
  <1> DEFINE k == Fresh(s)
             u == Relist(s, Last(p), k)
             c == PrivFor(s, p, mode)
  <1>1. t = Add(u, p, k, mode, c)
    BY DEF MakeEntry, Relist, PrivFor
  <1>2. u = Relist(s, Last(p), k)
    OBVIOUS
  <1> HIDE DEF u, c, k
  <1>3. /\ Loose(u) /\ u.list = Changed(s.list, Last(p), k) /\ u.cache = s.cache
        /\ u.inode = s.inode /\ u.refs = s.refs
    BY <1>2, ListFields
  <1>4. Fresh(u) = k
    BY <1>3, FreshSame DEF k
  <1>5. /\ Loose(t) /\ t.list = u.list /\ t.refs = u.refs
        /\ t.inode = Changed(u.inode, k, NewInode(mode, c))
        /\ t.cache = Changed(u.cache, p, NewDentry(k, k))
    BY <1>1, <1>3, <1>4, AddFields
  <1>6. QED
    BY <1>3, <1>5 DEF c, k

\* Creating an entry takes inodes and never gives one back.
LEMMA MakeLoose ==
    ASSUME NEW s, Loose(s), NEW p, NEW mode
    PROVE  /\ Loose(MakeEntry(Alloc(s, p), p, mode))
           /\ UsedIno(s) \subseteq UsedIno(MakeEntry(Alloc(s, p), p, mode))
  <1> DEFINE a == Alloc(s, p)
             t == MakeEntry(a, p, mode)
             c == PrivFor(a, p, mode)
  <1>1. Loose(a) /\ a.inode = s.inode
    BY AllocFields
  <1> HIDE DEF a
  <1>2. Loose(t) /\ t.inode = Changed(a.inode, Fresh(a), NewInode(mode, c))
    BY <1>1, MakeFields
  <1> HIDE DEF t, c
  <1>3. UsedIno(a) \subseteq UsedIno(t)
    BY <1>1, <1>2, FreshAdded
  <1>4. UsedIno(a) = UsedIno(s)
    BY <1>1, FreshSame
  <1>5. QED
    BY <1>2, <1>3, <1>4 DEF t, a

\* The entry and the dentry of a name that was not there, in a directory.
LEMMA MakeStep ==
    ASSUME NEW s, VfsOK(s), Bounded(s), NEW p \in FilePaths, NEW mode \in {"file", "dir"},
           ~Cached(s, p), Cached(s, Front(p)), Mode(s, Front(p)) = "dir", s.list[Last(p)] = Nil,
           NEW t, t = MakeEntry(Alloc(s, p), p, mode)
    PROVE  VfsOK(t) /\ Extends(s, t) /\ Cached(t, p)
  <1> DEFINE a == Alloc(s, p)
             k == Fresh(s)
             c == PrivFor(a, p, mode)
  <1>1. /\ Loose(s) /\ s.list \in [Names -> Ino \cup {Nil}] /\ s.cache \in [Paths -> Dentry]
        /\ s.inode \in [Ino -> Inode] /\ s.refs \in [Dirs -> Nat]
    BY StateFields DEF VfsOK
  <1>2. /\ Loose(a) /\ a.list = s.list /\ a.cache = s.cache /\ a.inode = s.inode
        /\ a.refs = [s.refs EXCEPT ![Front(p)] = @ + 1]
    BY <1>1, AllocFields
  <1>3. k \in Ino /\ k # RootIno
    BY FreshIs DEF RootIno
  <1>4. Front(p) \in Dirs /\ Last(p) \in Names
    BY FrontIs
  <1>5. t = MakeEntry(a, p, mode) /\ a.refs = Alloc(s, p).refs
    OBVIOUS
  <1> HIDE DEF a
  <1>6. Fresh(a) = k /\ Priv(a, Front(p)) = RootIno
    <2>1. Priv(s, Front(p)) = RootIno
      BY <1>4, DirPriv
    <2>2. QED
      BY <1>2, <2>1, FreshSame DEF Priv
  <1>7. /\ Loose(t) /\ t.list = Changed(a.list, Last(p), Fresh(a)) /\ t.refs = a.refs
        /\ t.cache = Changed(a.cache, p, NewDentry(Fresh(a), Fresh(a)))
        /\ t.inode = Changed(a.inode, Fresh(a), NewInode(mode, c))
    BY <1>2, <1>5, MakeFields
  <1>8. c \in Ino \cup {RootIno} /\ (mode = "dir" <=> c = RootIno)
    BY <1>3, <1>6 DEF PrivFor
  <1> HIDE DEF c, k
  <1>9. /\ t.list = Changed(s.list, Last(p), k)
        /\ t.cache = Changed(s.cache, p, NewDentry(k, k))
        /\ t.inode = Changed(s.inode, k, NewInode(mode, c))
        /\ t.refs = [s.refs EXCEPT ![Front(p)] = @ + 1]
    BY <1>2, <1>6, <1>7, Zenon
  <1>10. /\ t.list \in [Names -> Ino \cup {Nil}] /\ t.list[Last(p)] = k
         /\ \A n \in Names : s.list[n] # Nil => t.list[n] = s.list[n]
    BY <1>1, <1>3, <1>4, <1>9 DEF Changed
  <1>11. Hangs(s, t, p, k, mode, c)
    BY <1>3, <1>7, <1>8, <1>9, <1>10, Zenon DEF Hangs, k
  <1>12. QED
    BY <1>11, Hang

\* create_new_dentry reaches its path, from whatever the lookup before it has reached.
LEMMA CreateReached ==
    ASSUME NEW s, NEW r, Reached(s, Begun(r), Root), NEW p \in Paths, NEW mode \in {"file", "dir"}
    PROVE  Reached(s, Create(r, p, mode), p)
  <1> DEFINE dir == Select(r, p, Len(p) - 1)
             old == Find(dir.s, p)
             new == Create(r, p, mode)
  <1>1. Len(p) - 1 \in Nat /\ Len(p) - 1 <= Len(p) /\ SubSeq(p, 1, Len(p) - 1) = Front(p)
    <2>1. Len(p) \in Nat \ {0}
      <3>1. CASE p \in FilePaths
        BY <3>1, FilePathIs, VfsAssumption
      <3>2. CASE p \in DevPaths
        BY <3>2, DevPathIs
      <3>3. QED
        BY <3>1, <3>2 DEF Paths
    <2>2. QED
      BY <2>1 DEF Front
  <1>2. Reached(s, dir, Front(p))
    <2>1. Reached(s, dir, SubSeq(p, 1, Len(p) - 1))
      BY <1>1, SelectReached
    <2> HIDE DEF dir
    <2>2. QED
      BY <1>1, <2>1, Zenon
  <1>3. /\ old = Find(dir.s, p) /\ new = Create(r, p, mode)
        /\ new = IF ~dir.ok \/ Mode(dir.s, Front(p)) # "dir" THEN Found(dir.s, FALSE)
                 ELSE IF old.ok THEN Found(old.s, FALSE)
                 ELSE Found(MakeEntry(Alloc(old.s, p), p, mode), TRUE)
    BY Zenon DEF Create
  <1> HIDE DEF dir, new, old
  <1>4. CASE ~dir.ok \/ Mode(dir.s, Front(p)) # "dir"
    <2>1. new.s = dir.s /\ new.ok = FALSE
      BY <1>3, <1>4 DEF Found
    <2>2. Reached(s, new, p)
      BY <1>2, <2>1 DEF Reached
    <2>3. QED
      BY <1>3, <2>2
  <1>5. CASE dir.ok /\ Mode(dir.s, Front(p)) = "dir" /\ old.ok
    <2>1. new.s = old.s /\ new.ok = FALSE
      BY <1>3, <1>5 DEF Found
    <2>2. Reached(s, old, p)
      BY <1>2, <1>3, <1>5, FindReached
    <2>3. Reached(s, new, p)
      BY <2>1, <2>2 DEF Reached
    <2>4. QED
      BY <1>3, <2>3
  <1>6. CASE dir.ok /\ Mode(dir.s, Front(p)) = "dir" /\ ~old.ok
    <2>1. new.s = MakeEntry(Alloc(old.s, p), p, mode) /\ new.ok = TRUE
      BY <1>3, <1>6 DEF Found
    <2>2. Reached(s, old, p)
      BY <1>2, <1>3, <1>6, FindReached
    <2>3. Loose(new.s) /\ UsedIno(old.s) \subseteq UsedIno(new.s)
      BY <2>1, <2>2, MakeLoose DEF Reached
    <2>4. UsedIno(s) \subseteq UsedIno(new.s)
      BY <2>2, <2>3 DEF Reached
    <2>5. ASSUME Bounded(new.s) PROVE VfsOK(new.s) /\ Extends(s, new.s) /\ Cached(new.s, p)
      <3>1. Bounded(old.s)
        BY <2>3, <2>5, FreshGrows
      <3>2. UsedIno(dir.s) \subseteq UsedIno(old.s)
        BY <1>2, <1>3, FindLoose DEF Reached
      <3>3. Bounded(dir.s)
        BY <3>1, <3>2, FreshGrows
      <3>4. VfsOK(dir.s) /\ Extends(s, dir.s) /\ Cached(dir.s, Front(p))
        BY <1>2, <1>6, <3>3 DEF Reached
      <3>5. /\ old.s = dir.s /\ p \in FilePaths /\ ~Cached(dir.s, p) /\ Lookup(dir.s, p) = Nil
        BY <1>3, <1>6, <3>3, <3>4, FindStep
      <3>6. Front(p) \in Dirs
        BY <3>5, FrontIs
      <3>7. dir.s.list[Last(p)] = Nil
        BY <1>6, <3>4, <3>5, <3>6, DirPriv DEF Lookup
      <3>8. VfsOK(new.s) /\ Extends(dir.s, new.s) /\ Cached(new.s, p)
        BY <1>6, <2>1, <3>3, <3>4, <3>5, <3>7, MakeStep
      <3>9. QED
        BY <3>4, <3>8, ExtendsTrans
    <2>6. Reached(s, new, p)
      BY <2>1, <2>3, <2>4, <2>5 DEF Reached
    <2>7. QED
      BY <1>3, <2>6
  <1>7. QED
    BY <1>2, <1>4, <1>5, <1>6 DEF Reached

-----------------------------------------------------------------------------
(* inode_get and inode_put.                                                *)

Counted(x, c) == [mode |-> x.mode, priv |-> x.priv, count |-> c]

\* Nothing but a count changes, and it does not reach 0.
Recounts(s, t, i, c) ==
    /\ i \in Ino /\ s.inode[i] # NoInode /\ c \in Nat /\ c >= 1
    /\ Loose(t) /\ t.list = s.list /\ t.cache = s.cache /\ t.refs = s.refs
    /\ t.inode = Changed(s.inode, i, Counted(s.inode[i], c))

\* A change of one inode's count that leaves it at least one keeps VfsOK.
LEMMA Recount ==
    ASSUME NEW s, NEW t, NEW i, NEW c, VfsOK(s), Recounts(s, t, i, c)
    PROVE  /\ VfsOK(t) /\ Fresh(t) = Fresh(s) /\ UsedIno(t) = UsedIno(s)
           /\ t.inode[i].count = c /\ \A j \in Ino : j # i => t.inode[j] = s.inode[j]
  <1> DEFINE N == Counted(s.inode[i], c)
  <1>1. /\ s.list \in [Names -> Ino \cup {Nil}] /\ s.cache \in [Paths -> Dentry]
        /\ s.inode \in [Ino -> Inode] /\ s.refs \in [Dirs -> Nat]
        /\ InodesInOrder(s) /\ DevicesCached(s) /\ FilesHang(s) /\ OwnInodes(s) /\ RefsCounted(s)
    BY StateFields DEF VfsOK
  <1>2. i \in Ino /\ s.inode[i] # NoInode /\ c \in Nat /\ c >= 1 /\ Loose(t)
    BY DEF Recounts
  <1>3. t.list = s.list /\ t.cache = s.cache /\ t.refs = s.refs /\ t.inode = Changed(s.inode, i, N)
    BY DEF Recounts
  <1>4. /\ N \in Inode /\ N # NoInode /\ N.count = c
        /\ N.mode = s.inode[i].mode /\ N.priv = s.inode[i].priv
    <2>1. s.inode[i] \in Inode
      BY <1>1, <1>2
    <2>2. QED
      BY <1>2, <2>1 DEF Counted, Inode, NoInode
  <1> HIDE DEF N
  <1>5. /\ t.inode \in [Ino -> Inode] /\ t.inode[i] = N
        /\ \A j \in Ino : j # i => t.inode[j] = s.inode[j]
    BY <1>1, <1>2, <1>3, <1>4 DEF Changed
  <1>6. \A j \in Ino : t.inode[j].mode = s.inode[j].mode /\ t.inode[j].priv = s.inode[j].priv
    BY <1>4, <1>5
  <1>7. \A j \in Ino : t.inode[j] # NoInode <=> s.inode[j] # NoInode
    BY <1>2, <1>4, <1>5
  <1>8. UsedIno(t) = UsedIno(s) /\ Fresh(t) = Fresh(s)
    BY <1>7 DEF UsedIno, Fresh
  <1>9. \A p : Cached(t, p) <=> Cached(s, p)
    BY <1>3 DEF Cached
  <1>10. t \in State
    BY <1>1, <1>2, <1>3, <1>5, StateFields
  <1>11. InodesInOrder(t)
    BY <1>1, <1>2, <1>4, <1>5, <1>6, <1>7, <1>8 DEF InodesInOrder
  <1>12. DevicesCached(t)
    <2>1. 1 \in Ino
      BY VfsAssumption DEF Ino
    <2>2. QED
      BY <1>1, <1>3, <1>6, <1>8, <2>1 DEF DevicesCached
  <1>13. FilesHang(t)
    <2> SUFFICES ASSUME NEW q \in FilePaths, Cached(t, q)
                 PROVE  /\ t.cache[q].entry \in Ino /\ t.cache[q].ino \in Ino
                        /\ t.cache[q].ino < Fresh(t)
                        /\ Cached(t, Front(q)) /\ Mode(t, Front(q)) = "dir"
      BY DEF FilesHang
    <2>1. /\ s.cache[q].entry \in Ino /\ s.cache[q].ino \in Ino /\ s.cache[q].ino < Fresh(s)
          /\ Cached(s, Front(q)) /\ Mode(s, Front(q)) = "dir"
      BY <1>1, <1>9 DEF FilesHang
    <2>2. Front(q) = Root \/ (Front(q) \in FilePaths /\ Front(q) \in Paths)
      BY FrontIs DEF Dirs, Paths
    <2>3. Mode(t, Front(q)) = "dir"
      <3>1. CASE Front(q) = Root
        BY <3>1, CachedIs
      <3>2. CASE Front(q) \in FilePaths /\ Front(q) \in Paths
        <4>1. s.cache[Front(q)].ino \in Ino
          BY <1>1, <2>1, <3>2 DEF FilesHang
        <4>2. QED
          BY <1>3, <1>6, <2>1, <3>2, <4>1, CachedIs
      <3>3. QED
        BY <2>2, <3>1, <3>2
    <2>4. QED
      BY <1>3, <1>8, <1>9, <2>1, <2>3
  <1>14. OwnInodes(t)
    BY <1>1, <1>3, <1>9 DEF OwnInodes
  <1>15. RefsCounted(t)
    <2>1. \A d : Kids(t, d) = Kids(s, d)
      BY <1>9 DEF Kids
    <2>2. QED
      BY <1>1, <1>3, <2>1 DEF RefsCounted
  <1>16. QED
    BY <1>4, <1>5, <1>8, <1>10, <1>11, <1>12, <1>13, <1>14, <1>15 DEF VfsOK

\* inode_get adds one to a count.
LEMMA GetFields ==
    ASSUME NEW s \in State, NEW i \in Ino, NEW t, t = Get(s, i)
    PROVE  /\ Loose(t) /\ t.list = s.list /\ t.cache = s.cache /\ t.refs = s.refs
           /\ t.inode = Changed(s.inode, i, Counted(s.inode[i], s.inode[i].count + 1))
           /\ t \in State
  <1>1. s.inode \in [Ino -> Inode] /\ s.inode[i] \in Inode
    BY DEF State
  <1>2. t.list = s.list /\ t.refs = s.refs /\ t.cache = s.cache
    BY DEF Get, State
  <1>3. t.inode = [s.inode EXCEPT ![i].count = @ + 1]
    BY DEF Get, State
  <1>4. [s.inode EXCEPT ![i].count = @ + 1] = Changed(s.inode, i, Counted(s.inode[i], s.inode[i].count + 1))
    BY <1>1 DEF Inode, Changed, Counted
  <1>5. Counted(s.inode[i], s.inode[i].count + 1) \in Inode
    BY <1>1 DEF Inode, Counted
  <1>6. t.inode \in [Ino -> Inode]
    BY <1>1, <1>3, <1>4, <1>5 DEF Changed
  <1>7. t \in [list : {t.list}, cache : {t.cache}, inode : {t.inode}, refs : {t.refs}]
    BY DEF Get, State
  <1>8. Loose(t)
    BY <1>6, <1>7 DEF Loose
  <1>9. QED
    BY <1>2, <1>3, <1>4, <1>6, <1>8, StateFields

\* inode_put takes one off a count that is above one, and frees nothing.
LEMMA PutFields ==
    ASSUME NEW s \in State, NEW i \in Ino, s.inode[i].count > 1, NEW t, t = Put(s, i)
    PROVE  /\ Loose(t) /\ t.list = s.list /\ t.cache = s.cache /\ t.refs = s.refs
           /\ t.inode = Changed(s.inode, i, Counted(s.inode[i], s.inode[i].count - 1))
  <1>1. s.inode \in [Ino -> Inode] /\ s.inode[i] \in Inode
    BY DEF State
  <1>2. s.inode[i].count \in Nat /\ s.inode[i].count # 1
    BY <1>1 DEF Inode
  <1>3. t = [s EXCEPT !.inode[i].count = @ - 1]
    BY <1>2 DEF Put
  <1>4. t.list = s.list /\ t.refs = s.refs /\ t.cache = s.cache
    BY <1>3 DEF State
  <1>5. t.inode = [s.inode EXCEPT ![i].count = @ - 1]
    BY <1>3 DEF State
  <1>6. [s.inode EXCEPT ![i].count = @ - 1] = Changed(s.inode, i, Counted(s.inode[i], s.inode[i].count - 1))
    BY <1>1 DEF Inode, Changed, Counted
  <1>7. Counted(s.inode[i], s.inode[i].count - 1) \in Inode
    BY <1>1, <1>2 DEF Inode, Counted
  <1>8. t.inode \in [Ino -> Inode]
    BY <1>1, <1>5, <1>6, <1>7 DEF Changed
  <1>9. t \in [list : {t.list}, cache : {t.cache}, inode : {t.inode}, refs : {t.refs}]
    BY <1>3 DEF State
  <1>10. Loose(t)
    BY <1>8, <1>9 DEF Loose
  <1>11. QED
    BY <1>4, <1>5, <1>6, <1>10

\* inode_put after inode_get leaves everything as it was.
LEMMA PutGet ==
    ASSUME NEW s \in State, NEW i \in Ino, s.inode[i].count >= 1
    PROVE  Put(Get(s, i), i) = s
  <1> DEFINE g == Get(s, i)
             t == Put(g, i)
  <1>1. s.inode \in [Ino -> Inode] /\ s.inode[i] \in Inode /\ Loose(s)
    BY StateIsLoose DEF State
  <1>2. s.inode[i].count \in Nat
    BY <1>1 DEF Inode
  <1>3. g = Get(s, i) /\ t = Put(g, i)
    OBVIOUS
  <1> HIDE DEF g, t
  <1>4. /\ g \in State /\ g.list = s.list /\ g.cache = s.cache /\ g.refs = s.refs
        /\ g.inode = Changed(s.inode, i, Counted(s.inode[i], s.inode[i].count + 1))
    BY <1>3, GetFields
  <1>5. /\ g.inode[i] = Counted(s.inode[i], s.inode[i].count + 1)
        /\ \A j \in Ino : j # i => g.inode[j] = s.inode[j]
        /\ g.inode \in [Ino -> Inode]
    <2>1. g.inode \in [Ino -> Inode]
      BY <1>4, StateFields
    <2>2. QED
      BY <1>1, <1>4, <2>1 DEF Changed
  <1>6. g.inode[i].count = s.inode[i].count + 1 /\ g.inode[i].mode = s.inode[i].mode
        /\ g.inode[i].priv = s.inode[i].priv
    BY <1>5 DEF Counted
  <1>7. g.inode[i].count > 1 /\ g.inode[i].count - 1 = s.inode[i].count
    BY <1>2, <1>6
  <1>8. /\ Loose(t) /\ t.list = g.list /\ t.cache = g.cache /\ t.refs = g.refs
        /\ t.inode = Changed(g.inode, i, Counted(g.inode[i], g.inode[i].count - 1))
    BY <1>3, <1>4, <1>7, PutFields
  <1>9. Counted(g.inode[i], g.inode[i].count - 1) = s.inode[i]
    BY <1>1, <1>6, <1>7 DEF Counted, Inode
  <1>10. t.inode = s.inode
    BY <1>1, <1>5, <1>8, <1>9 DEF Changed
  <1>11. t = s
    BY <1>1, <1>4, <1>8, <1>10, SameFields
  <1>12. QED
    BY <1>3, <1>11

-----------------------------------------------------------------------------
(* The removal of a file.                                                  *)

\* A record whose inodes are a function on Ino is loose.
LEMMA LooseIs ==
    ASSUME NEW s, NEW L, NEW C, NEW I, NEW R,
           s \in [list : L, cache : C, inode : [Ino -> I], refs : R]
    PROVE  Loose(s)
  BY Zenon DEF Loose

\* d_delete empties the dentry and those below it, counts included.
LEMMA ForgetFields ==
    ASSUME NEW s, Loose(s), NEW p, NEW t, t = Forget(s, p)
    PROVE  /\ Loose(t) /\ t.list = s.list /\ t.inode = s.inode
           /\ t.cache \in [Paths -> {NoDentry} \cup {s.cache[q] : q \in Paths}]
           /\ \A q \in Paths : t.cache[q] = IF IsPrefix(p, q) THEN NoDentry ELSE s.cache[q]
           /\ t.refs = [q \in Dirs |-> IF IsPrefix(p, q) THEN 0 ELSE s.refs[q]]
  <1>1. PICK L, C, I, R : s \in [list : L, cache : C, inode : [Ino -> I], refs : R]
    BY DEF Loose
  <1> DEFINE c == [q \in Paths |-> IF IsPrefix(p, q) THEN NoDentry ELSE s.cache[q]]
             f == [q \in Dirs |-> IF IsPrefix(p, q) THEN 0 ELSE s.refs[q]]
  <1>2. /\ t.list = s.list /\ t.inode = s.inode /\ t.cache = c /\ t.refs = f
    BY <1>1 DEF Forget, Dirs
  <1>3. t \in [list : {t.list}, cache : {t.cache}, inode : {t.inode}, refs : {t.refs}]
    BY <1>1 DEF Forget
  <1>4. t.inode \in [Ino -> I]
    BY <1>1, <1>2
  <1>5. Loose(t)
    <2>1. t \in [list : {t.list}, cache : {t.cache}, inode : [Ino -> I], refs : {t.refs}]
      BY <1>3, <1>4
    <2>2. QED
      BY <2>1, LooseIs
  <1>6. /\ c \in [Paths -> {NoDentry} \cup {s.cache[q] : q \in Paths}]
        /\ \A q \in Paths : c[q] = IF IsPrefix(p, q) THEN NoDentry ELSE s.cache[q]
    OBVIOUS
  <1> HIDE DEF c, f
  <1>7. /\ t.cache \in [Paths -> {NoDentry} \cup {s.cache[q] : q \in Paths}]
        /\ \A q \in Paths : t.cache[q] = IF IsPrefix(p, q) THEN NoDentry ELSE s.cache[q]
    BY <1>2, <1>6
  <1>8. QED
    BY <1>2, <1>5, <1>7 DEF f

\* initramfs_delete_dentry and simple_unlink: the name, the dentry and what is below it go,
\* and the parent's count is given back.
LEMMA UnlinkStep ==
    ASSUME NEW s, VfsOK(s), NEW p \in FilePaths, Cached(s, p), NEW t, t = Unlink(s, p)
    PROVE  /\ VfsOK(t) /\ Fresh(t) = Fresh(s) /\ t.inode = s.inode
           /\ t.list = Changed(s.list, Last(p), Nil)
           /\ \A q \in Paths : Cached(t, q) <=> (Cached(s, q) /\ ~IsPrefix(p, q))
           /\ \A q \in Paths : Cached(t, q) => t.cache[q] = s.cache[q]
  <1> DEFINE d == Front(p)
             a == Relist(s, Last(p), Nil)
             b == Drop(a, p)
  <1>1. /\ Loose(s) /\ s.list \in [Names -> Ino \cup {Nil}] /\ s.cache \in [Paths -> Dentry]
        /\ s.inode \in [Ino -> Inode] /\ s.refs \in [Dirs -> Nat]
        /\ InodesInOrder(s) /\ DevicesCached(s) /\ FilesHang(s) /\ OwnInodes(s) /\ RefsCounted(s)
    BY StateFields DEF VfsOK
  <1>2. t = Forget(b, p) /\ b = Drop(a, p) /\ a = Relist(s, Last(p), Nil)
    BY DEF Unlink, Relist
  <1>3. d \in Dirs /\ Last(p) \in Names /\ p \in Paths /\ d = Front(p)
    BY FrontIs DEF Paths
  <1> HIDE DEF a, b, d
  <1>4. /\ Loose(a) /\ a.list = Changed(s.list, Last(p), Nil) /\ a.cache = s.cache
        /\ a.inode = s.inode /\ a.refs = s.refs
    BY <1>1, <1>2, ListFields
  <1>5. /\ Loose(b) /\ b.list = a.list /\ b.cache = a.cache /\ b.inode = a.inode
        /\ b.refs = [a.refs EXCEPT ![d] = @ - 1]
    BY <1>2, <1>3, <1>4, DropFields
  <1>6. /\ Loose(t) /\ t.list = b.list /\ t.inode = b.inode
        /\ t.cache \in [Paths -> {NoDentry} \cup {b.cache[q] : q \in Paths}]
        /\ \A q \in Paths : t.cache[q] = IF IsPrefix(p, q) THEN NoDentry ELSE b.cache[q]
        /\ t.refs = [q \in Dirs |-> IF IsPrefix(p, q) THEN 0 ELSE b.refs[q]]
    BY <1>2, <1>5, ForgetFields
  <1>7. /\ t.list = Changed(s.list, Last(p), Nil) /\ t.inode = s.inode
        /\ \A q \in Paths : t.cache[q] = IF IsPrefix(p, q) THEN NoDentry ELSE s.cache[q]
    BY <1>4, <1>5, <1>6
  <1>8. /\ ~IsPrefix(p, d) /\ ~IsPrefix(p, Root) /\ IsPrefix(p, p)
        /\ \A q \in DevPaths : ~IsPrefix(p, q)
        /\ \A q \in FilePaths : IsPrefix(p, Front(q)) => IsPrefix(p, q)
        /\ \A q \in FilePaths : IsPrefix(p, q) /\ q # p => IsPrefix(p, Front(q))
    BY PrefixIs DEF d
  <1>9. /\ \A q \in Paths : Cached(t, q) <=> (Cached(s, q) /\ ~IsPrefix(p, q))
        /\ \A q \in Dirs : Cached(t, q) <=> (Cached(s, q) /\ ~IsPrefix(p, q))
        /\ \A q \in Paths : Cached(t, q) => t.cache[q] = s.cache[q]
    <2>1. \A q \in Paths : Cached(t, q) <=> (Cached(s, q) /\ ~IsPrefix(p, q))
      BY <1>7, CachedIs
    <2>2. \A q \in Dirs : Cached(t, q) <=> (Cached(s, q) /\ ~IsPrefix(p, q))
      BY <1>8, <2>1, CachedIs DEF Dirs, Paths
    <2>3. QED
      BY <1>7, <2>1, <2>2
  <1>10. /\ \A q \in Dirs : t.refs[q] = IF IsPrefix(p, q) THEN 0
                                       ELSE IF q = d THEN s.refs[q] - 1 ELSE s.refs[q]
         /\ DOMAIN t.refs = Dirs /\ t.refs = [q \in Dirs |-> t.refs[q]]
    <2>1. \A q \in Dirs : b.refs[q] = IF q = d THEN s.refs[q] - 1 ELSE s.refs[q]
      BY <1>1, <1>3, <1>4, <1>5
    <2>2. QED
      BY <1>6, <2>1
  <1>11. Kids(s, d) # {} /\ s.refs[d] \in Nat \ {0}
    <2>1. p \in Kids(s, d)
      BY DEF Kids, d
    <2>2. Cardinality(Kids(s, d)) # 0 /\ Cardinality(Kids(s, d)) \in Nat
      BY <2>1, KidsFinite, FS_EmptySet, FS_CardinalityType
    <2>3. QED
      BY <1>1, <1>3, <2>1, <2>2 DEF RefsCounted
  <1>12. t \in State
    <2>1. t.list \in [Names -> Ino \cup {Nil}]
      BY <1>1, <1>3, <1>7 DEF Changed
    <2>2. t.cache \in [Paths -> Dentry]
      <3>1. NoDentry \in Dentry
        BY DEF NoDentry, Dentry
      <3>2. \A q \in Paths : t.cache[q] \in Dentry
        BY <1>1, <1>7, <3>1
      <3>3. QED
        BY <1>6, <3>2
    <2>3. t.refs \in [Dirs -> Nat]
      <3>1. \A q \in Dirs : t.refs[q] \in Nat
        BY <1>1, <1>10, <1>11
      <3>2. QED
        BY <1>10, <3>1
    <2>4. QED
      BY <1>1, <1>6, <1>7, <2>1, <2>2, <2>3, StateFields
  <1>13. Fresh(t) = Fresh(s)
    BY <1>7, FreshSame
  <1>14. InodesInOrder(t)
    BY <1>1, <1>7, <1>13 DEF InodesInOrder
  <1>15. DevicesCached(t)
    BY <1>1, <1>7, <1>8, <1>13 DEF DevicesCached, Paths
  <1>16. FilesHang(t)
    <2> SUFFICES ASSUME NEW q \in FilePaths, Cached(t, q)
                 PROVE  /\ t.cache[q].entry \in Ino /\ t.cache[q].ino \in Ino
                        /\ t.cache[q].ino < Fresh(t)
                        /\ Cached(t, Front(q)) /\ Mode(t, Front(q)) = "dir"
      BY DEF FilesHang
    <2>1. q \in Paths /\ Front(q) \in Dirs
      BY FrontIs DEF Paths
    <2>2. Cached(s, q) /\ ~IsPrefix(p, q) /\ ~IsPrefix(p, Front(q)) /\ t.cache[q] = s.cache[q]
      BY <1>8, <1>9, <2>1
    <2>3. /\ s.cache[q].entry \in Ino /\ s.cache[q].ino \in Ino /\ s.cache[q].ino < Fresh(s)
          /\ Cached(s, Front(q)) /\ Mode(s, Front(q)) = "dir"
      BY <1>1, <2>2 DEF FilesHang
    <2>4. Cached(t, Front(q))
      BY <1>9, <2>1, <2>2, <2>3
    <2>5. Mode(t, Front(q)) = Mode(s, Front(q))
      <3>1. CASE Front(q) = Root
        BY <3>1, CachedIs
      <3>2. CASE Front(q) \in Paths
        BY <1>7, <2>2, <3>2, CachedIs
      <3>3. QED
        BY <2>1, <3>1, <3>2 DEF Dirs, Paths
    <2>6. QED
      BY <1>13, <2>2, <2>3, <2>4, <2>5
  <1>17. OwnInodes(t)
    BY <1>1, <1>9 DEF OwnInodes
  <1>18. RefsCounted(t)
    <2> SUFFICES ASSUME NEW q \in Dirs PROVE t.refs[q] = Cardinality(Kids(t, q))
      BY DEF RefsCounted
    <2>1. s.refs[q] = Cardinality(Kids(s, q))
      BY <1>1 DEF RefsCounted
    <2>2. Kids(t, q) = {k \in Kids(s, q) : ~IsPrefix(p, k)}
      BY <1>9 DEF Kids, Paths
    <2>3. CASE IsPrefix(p, q)
      <3>1. Kids(t, q) = {}
        BY <1>8, <2>2, <2>3 DEF Kids
      <3>2. QED
        BY <1>10, <2>3, <3>1, FS_EmptySet
    <2>4. CASE ~IsPrefix(p, q) /\ q = d
      <3>1. Kids(t, q) = Kids(s, q) \ {p}
        BY <1>8, <2>2, <2>4 DEF Kids
      <3>2. p \in Kids(s, q)
        BY <2>4 DEF Kids, d
      <3>3. Cardinality(Kids(t, q)) = Cardinality(Kids(s, q)) - 1
        BY <3>1, <3>2, KidsFinite, FS_RemoveElement
      <3>4. QED
        BY <1>10, <2>1, <2>4, <3>3
    <2>5. CASE ~IsPrefix(p, q) /\ q # d
      <3>1. \A k \in Kids(s, q) : k \in FilePaths /\ Front(k) = q /\ k # p
        BY <2>5 DEF Kids, d
      <3>2. Kids(t, q) = Kids(s, q)
        BY <1>8, <2>2, <2>5, <3>1
      <3>3. QED
        BY <1>10, <2>1, <2>5, <3>2
    <2>6. QED
      BY <2>3, <2>4, <2>5
  <1>19. QED
    BY <1>7, <1>9, <1>12, <1>13, <1>14, <1>15, <1>16, <1>17, <1>18 DEF VfsOK

-----------------------------------------------------------------------------
(* The descriptor table F (f_inode of the files) and T (fd_table).         *)

On(F, i) == {f \in File : F[f] = i}

\* Every open file is in one descriptor, a descriptor holds an open file.
Table(F, T) ==
    /\ F \in [File -> Ino \cup {Nil}]
    /\ T \in [Fd -> File \cup {Nil}]
    /\ \A k \in Fd : T[k] # Nil => F[T[k]] # Nil
    /\ \A f \in File : F[f] # Nil => \E k \in Fd : T[k] = f
    /\ \A k, m \in Fd : T[k] # Nil /\ T[k] = T[m] => k = m

\* An inode's count is one for its dentry, even a removed one, and one for each open file.
OpensCounted(s, F) ==
    /\ \A i \in Ino : s.inode[i] # NoInode => s.inode[i].count = 1 + Cardinality(On(F, i))
    /\ \A f \in File : F[f] # Nil => s.inode[F[f]] # NoInode

\* Files and descriptors are finitely many; there is one file more than descriptors.
LEMMA FileSets ==
    /\ IsFiniteSet(File) /\ Cardinality(File) = MaxFd + 1
    /\ IsFiniteSet(Fd) /\ Cardinality(Fd) = MaxFd
    /\ Nil \notin File /\ Nil \notin Ino /\ MaxFd \in Nat \ {0} /\ Fd \subseteq Nat
    /\ \A F, i : IsFiniteSet(On(F, i)) /\ Cardinality(On(F, i)) \in Nat
  <1>1. MaxFd \in Nat \ {0} /\ Nil \notin Nat /\ MaxFd - 1 \in Int /\ MaxFd \in Int /\ 0 \in Int
    BY VfsAssumption
  <1>2. IsFiniteSet(File) /\ Cardinality(File) = MaxFd + 1
    BY <1>1, FS_Interval DEF File
  <1>3. IsFiniteSet(Fd) /\ Cardinality(Fd) = MaxFd
    BY <1>1, FS_Interval DEF Fd
  <1>4. Nil \notin File /\ Nil \notin Ino /\ Fd \subseteq Nat
    BY <1>1, VfsAssumption DEF File, Ino, Fd
  <1>5. ASSUME NEW F, NEW i PROVE IsFiniteSet(On(F, i)) /\ Cardinality(On(F, i)) \in Nat
    <2>1. On(F, i) \in SUBSET File
      BY DEF On
    <2>2. QED
      BY <1>2, <2>1, FS_Subset, FS_CardinalityType
  <1>6. QED
    BY <1>1, <1>2, <1>3, <1>4, <1>5

\* No more files are open than there are descriptors.
LEMMA OpensFit ==
    ASSUME NEW F, NEW T, Table(F, T), NEW S \in SUBSET File, \A f \in S : F[f] # Nil
    PROVE  Cardinality(S) <= MaxFd
  <1> DEFINE h == [f \in S |-> CHOOSE k \in Fd : T[k] = f]
  <1>1. \A f \in S : \E k \in Fd : T[k] = f
    BY DEF Table
  <1>2. \A f \in S : h[f] \in Fd /\ T[h[f]] = f
    BY <1>1
  <1>3. h \in [S -> Fd]
    BY <1>2
  <1>4. h = [f \in S |-> h[f]]
    OBVIOUS
  <1> HIDE DEF h
  <1>5. IsInjective(h)
    BY <1>2, <1>3 DEF IsInjective
  <1>6. h \in Injection(S, Fd)
    BY <1>3, <1>5 DEF Injection
  <1>7. QED
    BY <1>6, FS_Injection, FileSets

\* The table never holds all the files: filp_open finds one.
LEMMA FileFree ==
    ASSUME NEW F, NEW T, Table(F, T)
    PROVE  \E f \in File : F[f] = Nil
  <1> SUFFICES ASSUME \A f \in File : F[f] # Nil PROVE FALSE
    OBVIOUS
  <1>1. Cardinality(File) <= MaxFd
    BY OpensFit
  <1>2. QED
    BY <1>1, FileSets

\* The lowest free descriptor is a free one.
LEMMA LowestIs ==
    ASSUME NEW S \in SUBSET Nat, S # {}
    PROVE  Lowest(S) \in S
  <1>1. \E i \in S : \A j \in S : i <= j
    BY LeastNat
  <1>2. QED
    BY <1>1, Zenon DEF Lowest

\* install_fd: a free file and a free descriptor are taken.
LEMMA OpenStep ==
    ASSUME NEW s, NEW F, NEW T, VfsOK(s), Table(F, T), OpensCounted(s, F),
           NEW i \in Ino, s.inode[i] # NoInode, NEW f \in File, F[f] = Nil, NEW k \in Fd, T[k] = Nil,
           NEW t, t = Get(s, i), NEW G, G = Changed(F, f, i), NEW U, U = Changed(T, k, f)
    PROVE  /\ VfsOK(t) /\ Fresh(t) = Fresh(s) /\ Table(G, U) /\ OpensCounted(t, G)
           /\ t.list = s.list /\ t.cache = s.cache
  <1>1. /\ s \in State /\ s.inode \in [Ino -> Inode] /\ s.inode[i].count \in Nat /\ s.inode[i].count >= 1
    <2>1. s \in State /\ s.inode \in [Ino -> Inode] /\ InodesInOrder(s)
      BY StateFields DEF VfsOK
    <2>2. s.inode[i].count \in Nat
      BY <2>1 DEF Inode
    <2>3. QED
      BY <2>1, <2>2 DEF InodesInOrder
  <1> DEFINE c == s.inode[i].count + 1
  <1>2. Recounts(s, t, i, c) /\ t.list = s.list /\ t.cache = s.cache
    <2>1. c \in Nat /\ c >= 1
      BY <1>1
    <2>2. /\ Loose(t) /\ t.list = s.list /\ t.cache = s.cache /\ t.refs = s.refs
          /\ t.inode = Changed(s.inode, i, Counted(s.inode[i], c))
      BY <1>1, GetFields
    <2> HIDE DEF c
    <2>3. QED
      BY <2>1, <2>2 DEF Recounts
  <1>3. /\ VfsOK(t) /\ Fresh(t) = Fresh(s) /\ UsedIno(t) = UsedIno(s)
        /\ t.inode[i].count = c /\ \A j \in Ino : j # i => t.inode[j] = s.inode[j]
    BY <1>2, Recount
  <1>4. \A j \in Ino : t.inode[j] # NoInode <=> s.inode[j] # NoInode
    BY <1>3 DEF UsedIno
  <1>5. F \in [File -> Ino \cup {Nil}] /\ T \in [Fd -> File \cup {Nil}] /\ Nil \notin File /\ Nil \notin Ino
    BY FileSets DEF Table
  <1>6. /\ G \in [File -> Ino \cup {Nil}] /\ G[f] = i /\ \A g \in File : g # f => G[g] = F[g]
    BY <1>5 DEF Changed
  <1>7. /\ U \in [Fd -> File \cup {Nil}] /\ U[k] = f /\ \A m \in Fd : m # k => U[m] = T[m]
    BY <1>5 DEF Changed
  <1>8. \A m \in Fd : T[m] # f
    <2>1. \A m \in Fd : T[m] # Nil => F[T[m]] # Nil
      BY DEF Table
    <2>2. QED
      BY <1>5, <2>1
  <1>9. Table(G, U)
    <2>1. \A m \in Fd : U[m] # Nil => G[U[m]] # Nil
      BY <1>5, <1>6, <1>7, <1>8 DEF Table
    <2>2. \A g \in File : G[g] # Nil => \E m \in Fd : U[m] = g
      <3>1. \A g \in File : F[g] # Nil => \E m \in Fd : m # k /\ T[m] = g
        BY <1>5 DEF Table
      <3>2. QED
        BY <1>6, <1>7, <3>1
    <2>3. \A m, n \in Fd : U[m] # Nil /\ U[m] = U[n] => m = n
      <3>1. \A m, n \in Fd : T[m] # Nil /\ T[m] = T[n] => m = n
        BY DEF Table
      <3>2. QED
        BY <1>7, <1>8, <3>1
    <2>4. QED
      BY <1>6, <1>7, <2>1, <2>2, <2>3 DEF Table
  <1>10. OpensCounted(t, G)
    <2>1. Cardinality(On(G, i)) = Cardinality(On(F, i)) + 1
      <3>1. On(G, i) = On(F, i) \cup {f} /\ f \notin On(F, i)
        BY <1>5, <1>6 DEF On
      <3>2. QED
        BY <3>1, FileSets, FS_AddElement
    <2>2. \A j \in Ino : j # i => On(G, j) = On(F, j)
      BY <1>5, <1>6 DEF On
    <2>3. s.inode[i].count = 1 + Cardinality(On(F, i)) /\ Cardinality(On(F, i)) \in Nat
      BY FileSets DEF OpensCounted
    <2>4. t.inode[i].count = 1 + Cardinality(On(G, i))
      BY <1>3, <2>1, <2>3
    <2>5. \A j \in Ino : t.inode[j] # NoInode => t.inode[j].count = 1 + Cardinality(On(G, j))
      <3>1. \A j \in Ino : j # i /\ t.inode[j] # NoInode => t.inode[j].count = 1 + Cardinality(On(G, j))
        BY <1>3, <2>2 DEF OpensCounted
      <3>2. QED
        BY <2>4, <3>1
    <2>6. \A g \in File : G[g] # Nil => t.inode[G[g]] # NoInode
      <3>1. \A g \in File : F[g] # Nil => F[g] \in Ino /\ s.inode[F[g]] # NoInode
        BY <1>5 DEF OpensCounted
      <3>2. QED
        BY <1>4, <1>6, <3>1
    <2>7. QED
      BY <2>5, <2>6 DEF OpensCounted
  <1>11. QED
    BY <1>2, <1>3, <1>9, <1>10

\* filp_close: the file goes, and with it one of the inode's counts; never the last one.
LEMMA CloseStep ==
    ASSUME NEW s, NEW F, NEW T, VfsOK(s), Table(F, T), OpensCounted(s, F),
           NEW k \in Fd, T[k] # Nil, NEW t, t = Put(s, F[T[k]]),
           NEW G, G = Changed(F, T[k], Nil), NEW U, U = Changed(T, k, Nil)
    PROVE  /\ VfsOK(t) /\ Fresh(t) = Fresh(s) /\ Table(G, U) /\ OpensCounted(t, G)
           /\ t.list = s.list /\ t.cache = s.cache
  <1> DEFINE f == T[k]
             i == F[f]
             c == s.inode[i].count - 1
  <1>1. F \in [File -> Ino \cup {Nil}] /\ T \in [Fd -> File \cup {Nil}] /\ Nil \notin File /\ Nil \notin Ino
    BY FileSets DEF Table
  <1>2. f \in File /\ i \in Ino /\ s.inode[i] # NoInode
    BY <1>1 DEF Table, OpensCounted
  <1>3. f = T[k] /\ i = F[f] /\ t = Put(s, i) /\ G = Changed(F, f, Nil)
    OBVIOUS
  <1>4. s \in State /\ s.inode \in [Ino -> Inode]
    BY StateFields DEF VfsOK
  <1>5. /\ s.inode[i].count = 1 + Cardinality(On(F, i)) /\ Cardinality(On(F, i)) \in Nat
        /\ Cardinality(On(F, i)) # 0
    <2>1. f \in On(F, i)
      BY <1>2 DEF On
    <2> HIDE DEF i, f
    <2>2. Cardinality(On(F, i)) # 0
      BY <2>1, FileSets, FS_EmptySet
    <2>3. QED
      BY <1>2, <2>2, FileSets DEF OpensCounted
  <1>6. c = Cardinality(On(F, i)) /\ c \in Nat /\ c >= 1 /\ s.inode[i].count > 1
    BY <1>5
  <1>7. /\ Loose(t) /\ t.list = s.list /\ t.cache = s.cache /\ t.refs = s.refs
        /\ t.inode = Changed(s.inode, i, Counted(s.inode[i], c))
    <2> HIDE DEF i, f
    <2>1. QED
      BY <1>2, <1>3, <1>4, <1>6, PutFields
  <1> HIDE DEF c, i, f
  <1>8. Recounts(s, t, i, c)
    BY <1>2, <1>6, <1>7 DEF Recounts
  <1>9. /\ VfsOK(t) /\ Fresh(t) = Fresh(s) /\ UsedIno(t) = UsedIno(s)
        /\ t.inode[i].count = c /\ \A j \in Ino : j # i => t.inode[j] = s.inode[j]
    BY <1>8, Recount
  <1>10. \A j \in Ino : t.inode[j] # NoInode <=> s.inode[j] # NoInode
    BY <1>9 DEF UsedIno
  <1>11. /\ G \in [File -> Ino \cup {Nil}] /\ G[f] = Nil /\ \A g \in File : g # f => G[g] = F[g]
    BY <1>1, <1>2, <1>3 DEF Changed
  <1>12. /\ U \in [Fd -> File \cup {Nil}] /\ U[k] = Nil /\ \A m \in Fd : m # k => U[m] = T[m]
    BY <1>1 DEF Changed
  <1>13. \A m, n \in Fd : T[m] # Nil /\ T[m] = T[n] => m = n
    BY DEF Table
  <1>14. Table(G, U)
    <2>1. \A m \in Fd : U[m] # Nil => G[U[m]] # Nil
      <3>1. \A m \in Fd : m # k => T[m] # f
        BY <1>3, <1>13
      <3>2. QED
        BY <1>1, <1>11, <1>12, <3>1 DEF Table
    <2>2. \A g \in File : G[g] # Nil => \E m \in Fd : U[m] = g
      <3>1. \A g \in File : F[g] # Nil /\ g # f => \E m \in Fd : m # k /\ T[m] = g
        BY <1>3 DEF Table
      <3>2. QED
        BY <1>11, <1>12, <3>1
    <2>3. \A m, n \in Fd : U[m] # Nil /\ U[m] = U[n] => m = n
      BY <1>12, <1>13
    <2>4. QED
      BY <1>11, <1>12, <2>1, <2>2, <2>3 DEF Table
  <1>15. OpensCounted(t, G)
    <2>1. Cardinality(On(G, i)) = Cardinality(On(F, i)) - 1
      <3>1. On(G, i) = On(F, i) \ {f} /\ f \in On(F, i)
        BY <1>1, <1>2, <1>3, <1>11 DEF On
      <3>2. QED
        BY <3>1, FileSets, FS_RemoveElement
    <2>2. \A j \in Ino : j # i => On(G, j) = On(F, j)
      BY <1>1, <1>2, <1>3, <1>11 DEF On
    <2>3. t.inode[i].count = 1 + Cardinality(On(G, i))
      BY <1>5, <1>6, <1>9, <2>1
    <2>4. \A j \in Ino : j # i /\ t.inode[j] # NoInode => t.inode[j].count = 1 + Cardinality(On(G, j))
      BY <1>9, <2>2 DEF OpensCounted
    <2>5. \A j \in Ino : t.inode[j] # NoInode => t.inode[j].count = 1 + Cardinality(On(G, j))
      BY <2>3, <2>4
    <2>6. \A g \in File : G[g] # Nil => t.inode[G[g]] # NoInode
      <3>1. \A g \in File : F[g] # Nil => F[g] \in Ino /\ s.inode[F[g]] # NoInode
        BY <1>1 DEF OpensCounted
      <3>2. QED
        BY <1>10, <1>11, <3>1
    <2>7. QED
      BY <2>5, <2>6 DEF OpensCounted
  <1>16. QED
    BY <1>7, <1>9, <1>14, <1>15

\* A call that adds inodes leaves the counts of the open files.
LEMMA ExtendsCounted ==
    ASSUME NEW s, NEW t, NEW F, F \in [File -> Ino \cup {Nil}], Extends(s, t), OpensCounted(s, F)
    PROVE  OpensCounted(t, F)
  <1>1. ASSUME NEW i \in Ino, t.inode[i] # NoInode
        PROVE  t.inode[i].count = 1 + Cardinality(On(F, i))
    <2>1. CASE s.inode[i] # NoInode
      BY <2>1 DEF Extends, OpensCounted
    <2>2. CASE s.inode[i] = NoInode
      <3>1. t.inode[i].count = 1
        BY <1>1, <2>2 DEF Extends
      <3>2. On(F, i) = {}
        BY <2>2, FileSets DEF On, OpensCounted
      <3>3. Cardinality(On(F, i)) = 0
        BY <3>2, FS_EmptySet
      <3>4. QED
        BY <3>1, <3>3
    <2>3. QED
      BY <2>1, <2>2
  <1>2. ASSUME NEW f \in File, F[f] # Nil PROVE t.inode[F[f]] # NoInode
    <2>1. F[f] \in Ino /\ s.inode[F[f]] # NoInode
      BY <1>2 DEF OpensCounted
    <2>2. QED
      BY <2>1 DEF Extends
  <1>3. QED
    BY <1>1, <1>2 DEF OpensCounted

-----------------------------------------------------------------------------
(* The calls.                                                              *)

\* What every call leaves true.
VfsInv ==
    /\ VfsOK(vfs) /\ Bounded(vfs)
    /\ Table(file, fd)
    /\ OpensCounted(vfs, file)

\* A call that has done nothing has reached the root.
LEMMA BeginReached ==
    ASSUME NEW s, VfsOK(s)
    PROVE  Reached(s, Begun(s), Root)
  <1>1. Begun(s).s = s /\ Begun(s).ok = TRUE
    BY DEF Begun, Found
  <1>2. Loose(s)
    BY StateFields DEF VfsOK
  <1>3. QED
    BY <1>1, <1>2, ExtendsSelf, CachedIs DEF Reached

\* After one walk the next one begins at the root again.
LEMMA AgainReached ==
    ASSUME NEW s, NEW r, NEW q, Reached(s, r, q)
    PROVE  Reached(s, Begun(r.s), Root)
  <1>1. Begun(r.s).s = r.s /\ Begun(r.s).ok = TRUE
    BY DEF Begun, Found
  <1>2. QED
    BY <1>1, CachedIs DEF Reached

\* All the components of a path are the path.
LEMMA WholePath ==
    ASSUME NEW p \in Paths
    PROVE  Len(p) \in Nat /\ SubSeq(p, 1, Len(p)) = p
  <1>1. CASE p \in FilePaths
    <2>1. p \in Seq(Names) /\ Len(p) \in Nat
      BY <1>1, FilePathIs, LenProperties
    <2>2. QED
      BY <2>1, SubSeqFull
  <1>2. CASE p \in DevPaths
    <2>1. Len(p) = 1 /\ SubSeq(p, 1, 1) = p
      BY <1>2, DevPathIs
    <2>2. QED
      BY <2>1
  <1>3. QED
    BY <1>1, <1>2 DEF Paths

\* The whole of select_file.
LEMMA LookedUp ==
    ASSUME NEW s, VfsOK(s), NEW p \in Paths
    PROVE  Reached(s, Select(s, p, Len(p)), p)
  <1>1. Len(p) \in Nat /\ Len(p) <= Len(p) /\ SubSeq(p, 1, Len(p)) = p
    BY WholePath
  <1>2. Reached(s, Select(s, p, Len(p)), SubSeq(p, 1, Len(p)))
    BY <1>1, BeginReached, SelectReached
  <1>3. QED
    BY <1>1, <1>2, Zenon

\* A dentry in the cache has an inode in use.
LEMMA CachedInode ==
    ASSUME NEW s, VfsOK(s), NEW p \in Paths, Cached(s, p)
    PROVE  s.cache[p].ino \in Ino /\ s.inode[s.cache[p].ino] # NoInode /\ s.inode[s.cache[p].ino].count >= 1
  <1>1. s.cache[p].ino \in Ino /\ s.cache[p].ino < Fresh(s)
    <2>1. CASE p \in FilePaths
      BY <2>1 DEF VfsOK, FilesHang
    <2>2. CASE p \in DevPaths
      <3>1. s.cache[p] = [entry |-> 1, ino |-> 1] /\ 1 < Fresh(s)
        BY <2>2 DEF VfsOK, DevicesCached
      <3>2. QED
        BY <3>1, VfsAssumption DEF Ino
    <2>3. QED
      BY <2>1, <2>2 DEF Paths
  <1>2. QED
    BY <1>1 DEF VfsOK, InodesInOrder

\* What holds after a call that ends in t, with the same files open.
LEMMA SameTable ==
    ASSUME VfsInv, NEW t, VfsOK(t), Bounded(t), Extends(vfs, t)
    PROVE  OpensCounted(t, file) /\ Table(file, fd)
  BY ExtendsCounted DEF VfsInv, Table

\* The state after boot satisfies the invariant.
LEMMA InitVfsInv == Init => VfsInv
  <1> SUFFICES ASSUME Init PROVE VfsInv
    OBVIOUS
  <1> DEFINE s == vfs
             N == [mode |-> "dev", priv |-> 1, count |-> 1]
             D == [entry |-> 1, ino |-> 1]
  <1>1. /\ 1 \in Ino /\ Nil \notin Nat /\ Nil \notin Ino /\ MaxIno \in Nat \ {0} /\ Ino \subseteq Nat
        /\ 0 \notin Ino
    BY VfsAssumption DEF Ino
  <1>2. /\ s.list = [n \in Names |-> Nil]
        /\ s.cache = [p \in Paths |-> IF p \in DevPaths THEN D ELSE NoDentry]
        /\ s.inode = [i \in Ino |-> IF i = 1 /\ Devs # {} THEN N ELSE NoInode]
        /\ s.refs = [p \in Dirs |-> 0]
        /\ s \in [list : {s.list}, cache : {s.cache}, inode : {s.inode}, refs : {s.refs}]
        /\ file = [f \in File |-> Nil] /\ fd = [i \in Fd |-> Nil]
    BY DEF Init, Dirs
  <1>3. /\ N \in Inode /\ N # NoInode /\ N.count = 1 /\ N.mode = "dev" /\ N.priv = 1 /\ NoInode \in Inode
    BY <1>1 DEF Inode, NoInode, RootIno
  <1>4. /\ D \in Dentry /\ D # NoDentry /\ D.ino = 1 /\ D.entry = 1 /\ NoDentry \in Dentry
    BY <1>1 DEF Dentry, NoDentry
  <1>5. D = [entry |-> 1, ino |-> 1]
    OBVIOUS
  <1> HIDE DEF s, N, D
  <1>6. /\ s.inode \in [Ino -> Inode]
        /\ \A i \in Ino : s.inode[i] = IF i = 1 /\ Devs # {} THEN N ELSE NoInode
    BY <1>2, <1>3
  <1>7. /\ s.cache \in [Paths -> Dentry]
        /\ \A p \in Paths : s.cache[p] = IF p \in DevPaths THEN D ELSE NoDentry
    BY <1>2, <1>4
  <1>8. s \in State
    <2>1. s \in [list : {s.list}, cache : {s.cache}, inode : [Ino -> Inode], refs : {s.refs}]
      BY <1>2, <1>6
    <2>2. s.list \in [Names -> Ino \cup {Nil}] /\ s.refs \in [Dirs -> Nat]
      BY <1>2
    <2>3. QED
      BY <1>7, <2>1, <2>2 DEF State
  <1>9. /\ \A p \in FilePaths : ~Cached(s, p)
        /\ \A p \in DevPaths : Devs # {}
    <2>1. \A p \in FilePaths : p \in Paths /\ p \notin DevPaths
      BY DevPathIs DEF Paths
    <2>2. QED
      BY <1>7, <2>1, CachedIs DEF DevPaths
  <1>10. Fresh(s) = IF Devs # {} THEN 2 ELSE 1
    <2>1. CASE Devs # {}
      <3>1. UsedIno(s) = {1}
        <4>1. \A i \in Ino : s.inode[i] # NoInode <=> i = 1
          BY <1>3, <1>6, <2>1
        <4>2. QED
          BY <1>1, <4>1 DEF UsedIno
      <3>2. Cardinality(UsedIno(s)) = 1
        BY <3>1, FS_Singleton
      <3>3. QED
        BY <2>1, <3>2, FreshIs
    <2>2. CASE Devs = {}
      <3>1. UsedIno(s) = {}
        BY <1>6, <2>2 DEF UsedIno
      <3>2. Cardinality(UsedIno(s)) = 0
        BY <3>1, FS_EmptySet
      <3>3. QED
        BY <2>2, <3>2, FreshIs
    <2>3. QED
      BY <2>1, <2>2
  <1>11. InodesInOrder(s)
    <2> SUFFICES ASSUME NEW i \in Ino
                 PROVE  /\ s.inode[i] # NoInode <=> i < Fresh(s)
                        /\ i < Fresh(s) => /\ s.inode[i].count >= 1
                                           /\ s.inode[i].mode = "dir" <=> s.inode[i].priv = RootIno
      BY DEF InodesInOrder
    <2>1. i \in Nat \ {0}
      BY <1>1
    <2>2. s.inode[i] # NoInode <=> (i = 1 /\ Devs # {})
      BY <1>3, <1>6
    <2>3. i < Fresh(s) <=> (i = 1 /\ Devs # {})
      BY <1>10, <2>1
    <2>4. i = 1 /\ Devs # {} => s.inode[i] = N
      BY <1>6
    <2>5. N.count >= 1 /\ N.mode # "dir" /\ N.priv # RootIno
      BY <1>3 DEF RootIno
    <2>6. QED
      BY <2>2, <2>3, <2>4, <2>5
  <1>12. DevicesCached(s)
    <2> SUFFICES ASSUME NEW p \in DevPaths
                 PROVE  /\ s.cache[p] = D /\ 1 < Fresh(s) /\ s.inode[1].mode = "dev"
      BY <1>5 DEF DevicesCached
    <2>1. Devs # {} /\ p \in Paths
      BY <1>9 DEF Paths
    <2>2. QED
      BY <1>1, <1>3, <1>6, <1>7, <1>10, <2>1
  <1>13. FilesHang(s)
    BY <1>9 DEF FilesHang
  <1>14. OwnInodes(s)
    BY <1>9, DevPathIs DEF OwnInodes, Paths
  <1>15. RefsCounted(s)
    <2>1. \A d \in Dirs : Kids(s, d) = {}
      BY <1>9 DEF Kids
    <2>2. QED
      BY <1>2, <2>1, FS_EmptySet DEF RefsCounted
  <1>16. Bounded(s)
    BY <1>1, <1>10 DEF Bounded
  <1>17. Table(file, fd)
    BY <1>2 DEF Table
  <1>18. OpensCounted(s, file)
    <2>1. \A i \in Ino : On(file, i) = {}
      BY <1>1, <1>2 DEF On
    <2>2. \A i \in Ino : Cardinality(On(file, i)) = 0
      BY <2>1, FS_EmptySet
    <2>3. \A i \in Ino : s.inode[i] # NoInode => s.inode[i].count = 1
      BY <1>3, <1>6
    <2>4. \A f \in File : file[f] = Nil
      BY <1>2
    <2>5. QED
      BY <2>2, <2>3, <2>4 DEF OpensCounted
  <1>19. QED
    BY <1>8, <1>11, <1>12, <1>13, <1>14, <1>15, <1>16, <1>17, <1>18 DEF VfsInv, VfsOK, s

\* A dentry whose entry is no longer the one of its name, in a state of vfs.
StaleIn(s, p) == Cached(s, p) /\ s.cache[p].entry # s.list[Last(p)]

\* Adding dentries and entries makes none of the dentries stale.
LEMMA ExtendsNotStale ==
    ASSUME NEW s, NEW t, VfsOK(s), Extends(s, t), NEW p \in FilePaths, StaleIn(t, p)
    PROVE  StaleIn(s, p)
  <1>1. p \in Paths /\ Last(p) \in Names
    BY FrontIs DEF Paths
  <1>2. Cached(s, p)
    BY DEF StaleIn, Extends
  <1>3. t.cache[p] = s.cache[p] /\ s.cache[p].entry \in Ino
    BY <1>1, <1>2 DEF Extends, VfsOK, FilesHang
  <1>4. CASE s.list[Last(p)] = Nil
    BY <1>2, <1>3, <1>4, FileSets DEF StaleIn
  <1>5. CASE s.list[Last(p)] # Nil
    <2>1. t.list[Last(p)] = s.list[Last(p)]
      BY <1>1, <1>5 DEF Extends
    <2>2. QED
      BY <1>2, <1>3, <2>1 DEF StaleIn
  <1>6. QED
    BY <1>4, <1>5

\* What a call may do to the dentries of the files, from s to t.
StaleOnlyByRemoval(s, t) ==
    \A p \in FilePaths : StaleIn(t, p) /\ ~StaleIn(s, p) =>
        \E q \in FilePaths \ {p} : /\ Last(q) = Last(p) /\ ~Cached(t, q)
                                   /\ Cached(t, Front(q)) /\ Mode(t, Front(q)) = "dir"

\* sys_open keeps the invariant, in every one of its ends.
LEMMA OpenCall ==
    ASSUME VfsInv, NEW p \in Paths, NEW creat \in BOOLEAN, Open(p, creat)
    PROVE  VfsInv' /\ StaleOnlyByRemoval(vfs, vfs')
  <1> DEFINE old == Select(vfs, p, Len(p))
             new == IF old.ok \/ ~creat THEN old ELSE Create(old.s, p, "file")
             t == new.s
             i == t.cache[p].ino
  <1>1. /\ Bounded(t)
        /\ \/ ~new.ok /\ NoFile(t)
           \/ new.ok /\ Opened(t, i)
           \/ new.ok /\ Refused(t, i)
    BY DEF Open
  <1>2. Reached(vfs, new, p)
    <2>1. Reached(vfs, old, p)
      BY LookedUp DEF VfsInv
    <2>2. CASE old.ok \/ ~creat
      BY <2>1, <2>2
    <2>3. CASE ~(old.ok \/ ~creat)
      <3> DEFINE m == "file"
      <3>1. m \in {"file", "dir"} /\ new = Create(old.s, p, m)
        BY <2>3
      <3> HIDE DEF m, old, new
      <3>2. Reached(vfs, Begun(old.s), Root)
        BY <2>1, AgainReached
      <3>3. QED
        BY <3>1, <3>2, CreateReached
    <2>4. QED
      BY <2>2, <2>3
  <1>3. t = new.s /\ i = t.cache[p].ino
    OBVIOUS
  <1> HIDE DEF old, new, i
  <1>4. VfsOK(t) /\ Extends(vfs, t) /\ (new.ok => Cached(t, p))
    BY <1>1, <1>2 DEF Reached
  <1>5. OpensCounted(t, file) /\ Table(file, fd)
    BY <1>1, <1>4, SameTable
  <1>6. new.ok => i \in Ino /\ t.inode[i] # NoInode /\ t.inode[i].count >= 1
    BY <1>3, <1>4, CachedInode
  <1> HIDE DEF t
  <1>7. \A q \in FilePaths : StaleIn(t, q) => StaleIn(vfs, q)
    BY <1>4, ExtendsNotStale DEF VfsInv
  <1>8. ASSUME vfs' = t, file' = file, fd' = fd PROVE VfsInv' /\ StaleOnlyByRemoval(vfs, vfs')
    <2>1. StaleOnlyByRemoval(vfs, vfs')
      BY <1>7, <1>8 DEF StaleOnlyByRemoval
    <2>2. VfsOK(vfs') /\ Bounded(vfs') /\ Table(file', fd') /\ OpensCounted(vfs', file')
      BY <1>1, <1>4, <1>5, <1>8
    <2>3. QED
      BY <2>1, <2>2 DEF VfsInv
  <1>9. CASE ~new.ok /\ NoFile(t)
    BY <1>8, <1>9 DEF NoFile
  <1>10. new.ok => Put(Get(t, i), i) = t
    BY <1>4, <1>6, PutGet DEF VfsOK
  <1>11. CASE new.ok /\ Refused(t, i)
    BY <1>8, <1>10, <1>11 DEF Refused
  <1>12. CASE new.ok /\ Opened(t, i)
    <2>1. CASE FreeFds = {}
      BY <1>8, <1>10, <1>12, <2>1 DEF Opened
    <2>2. CASE FreeFds # {}
      <3> DEFINE f == FreeFile
                 k == Lowest(FreeFds)
      <3>1. f \in File /\ file[f] = Nil
        <4>1. \E g \in File : file[g] = Nil
          BY <1>5, FileFree
        <4>2. QED
          BY <4>1, Zenon DEF FreeFile
      <3>2. k \in Fd /\ fd[k] = Nil
        <4>1. FreeFds \in SUBSET Nat
          BY FileSets DEF FreeFds
        <4>2. k \in FreeFds
          BY <2>2, <4>1, LowestIs
        <4> HIDE DEF k
        <4>3. QED
          BY <4>2 DEF FreeFds
      <3>3. vfs' = Get(t, i) /\ file' = Changed(file, f, i) /\ fd' = Changed(fd, k, f)
        BY <1>12, <2>2 DEF Opened, Changed
      <3> HIDE DEF f, k
      <3>4. /\ VfsOK(vfs') /\ Fresh(vfs') = Fresh(t) /\ Table(file', fd') /\ OpensCounted(vfs', file')
            /\ vfs'.list = t.list /\ vfs'.cache = t.cache
        BY <1>4, <1>5, <1>6, <1>12, <3>1, <3>2, <3>3, OpenStep
      <3>5. Bounded(vfs')
        BY <1>1, <3>4 DEF Bounded
      <3>6. \A q : StaleIn(vfs', q) <=> StaleIn(t, q)
        BY <3>4 DEF StaleIn, Cached
      <3>7. StaleOnlyByRemoval(vfs, vfs')
        BY <1>7, <3>6 DEF StaleOnlyByRemoval
      <3>8. QED
        BY <3>4, <3>5, <3>7 DEF VfsInv
    <2>3. QED
      BY <2>1, <2>2
  <1>13. QED
    BY <1>1, <1>9, <1>11, <1>12

\* sys_close keeps the invariant.
LEMMA CloseCall ==
    ASSUME VfsInv, NEW k \in Fd, Close(k)
    PROVE  VfsInv' /\ StaleOnlyByRemoval(vfs, vfs')
  <1>1. /\ fd[k] # Nil /\ vfs' = Put(vfs, file[fd[k]])
        /\ file' = Changed(file, fd[k], Nil) /\ fd' = Changed(fd, k, Nil)
    BY DEF Close, Changed
  <1>2. /\ VfsOK(vfs') /\ Fresh(vfs') = Fresh(vfs) /\ Table(file', fd') /\ OpensCounted(vfs', file')
        /\ vfs'.list = vfs.list /\ vfs'.cache = vfs.cache
    BY <1>1, CloseStep DEF VfsInv
  <1>3. Bounded(vfs')
    BY <1>2 DEF VfsInv, Bounded
  <1>4. StaleOnlyByRemoval(vfs, vfs')
    BY <1>2 DEF StaleOnlyByRemoval, StaleIn, Cached
  <1>5. QED
    BY <1>2, <1>3, <1>4 DEF VfsInv

\* sys_mkdir keeps the invariant.
LEMMA MkdirCall ==
    ASSUME VfsInv, NEW p \in Paths, Mkdir(p)
    PROVE  VfsInv' /\ StaleOnlyByRemoval(vfs, vfs')
  <1> DEFINE m == "dir"
             new == Create(vfs, p, m)
             t == new.s
  <1>1. Bounded(t) /\ vfs' = t /\ file' = file /\ fd' = fd
    BY DEF Mkdir, NoFile
  <1>2. m \in {"file", "dir"}
    OBVIOUS
  <1> HIDE DEF m
  <1>3. Reached(vfs, new, p)
    BY <1>2, BeginReached, CreateReached DEF VfsInv
  <1> HIDE DEF new
  <1>4. VfsOK(t) /\ Extends(vfs, t)
    BY <1>1, <1>3 DEF Reached
  <1>5. OpensCounted(t, file) /\ Table(file, fd)
    BY <1>1, <1>4, SameTable
  <1>6. StaleOnlyByRemoval(vfs, vfs')
    BY <1>1, <1>4, ExtendsNotStale DEF StaleOnlyByRemoval, VfsInv
  <1>7. VfsOK(vfs') /\ Bounded(vfs') /\ Table(file', fd') /\ OpensCounted(vfs', file')
    BY <1>1, <1>4, <1>5
  <1>8. QED
    BY <1>6, <1>7 DEF VfsInv

\* remove_dentry keeps the invariant.
LEMMA RemoveCall ==
    ASSUME VfsInv, NEW p \in Paths, RemoveDentry(p)
    PROVE  VfsInv' /\ StaleOnlyByRemoval(vfs, vfs')
  <1> DEFINE old == Select(vfs, p, Len(p))
             t == old.s
  <1>1. /\ Bounded(t) /\ file' = file /\ fd' = fd
        /\ vfs' = IF old.ok /\ Mode(t, p) # "dev" THEN Unlink(t, p) ELSE t
    BY DEF RemoveDentry, NoFile
  <1>2. Reached(vfs, old, p)
    BY LookedUp DEF VfsInv
  <1> HIDE DEF old
  <1>3. VfsOK(t) /\ Extends(vfs, t) /\ (old.ok => Cached(t, p))
    BY <1>1, <1>2 DEF Reached
  <1>4. OpensCounted(t, file) /\ Table(file, fd)
    BY <1>1, <1>3, SameTable
  <1>5. \A q \in FilePaths : StaleIn(t, q) => StaleIn(vfs, q)
    BY <1>3, ExtendsNotStale DEF VfsInv
  <1> HIDE DEF t
  <1>6. CASE ~(old.ok /\ Mode(t, p) # "dev")
    <2>1. vfs' = t
      BY <1>1, <1>6
    <2>2. StaleOnlyByRemoval(vfs, vfs')
      BY <1>5, <2>1 DEF StaleOnlyByRemoval
    <2>3. VfsOK(vfs') /\ Bounded(vfs') /\ Table(file', fd') /\ OpensCounted(vfs', file')
      BY <1>1, <1>3, <1>4, <2>1
    <2>4. QED
      BY <2>2, <2>3 DEF VfsInv
  <1>7. CASE old.ok /\ Mode(t, p) # "dev"
    <2> DEFINE u == Unlink(t, p)
    <2>1. vfs' = u /\ u = Unlink(t, p)
      BY <1>1, <1>7
    <2> HIDE DEF u
    <2>2. Cached(t, p)
      BY <1>3, <1>7
    <2>3. p \in FilePaths
      <3>1. ASSUME p \in DevPaths PROVE FALSE
        <4>1. t.cache[p] = [entry |-> 1, ino |-> 1] /\ t.inode[1].mode = "dev"
          BY <1>3, <3>1 DEF VfsOK, DevicesCached
        <4>2. Mode(t, p) = "dev"
          BY <4>1, CachedIs
        <4>3. QED
          BY <1>7, <4>2
      <3>2. QED
        BY <3>1 DEF Paths
    <2>4. /\ VfsOK(u) /\ Fresh(u) = Fresh(t) /\ u.inode = t.inode
          /\ u.list = Changed(t.list, Last(p), Nil)
          /\ \A q \in Paths : Cached(u, q) <=> (Cached(t, q) /\ ~IsPrefix(p, q))
          /\ \A q \in Paths : Cached(u, q) => u.cache[q] = t.cache[q]
      BY <1>3, <2>1, <2>2, <2>3, UnlinkStep
    <2>5. Bounded(u)
      BY <1>1, <2>4 DEF Bounded
    <2>6. OpensCounted(u, file)
      BY <1>4, <2>4 DEF OpensCounted
    <2>7. /\ ~Cached(u, p) /\ Cached(u, Front(p)) /\ Mode(u, Front(p)) = "dir"
      <3>1. IsPrefix(p, p) /\ ~IsPrefix(p, Front(p))
        BY <2>3, PrefixIs
      <3>2. Cached(t, Front(p)) /\ Mode(t, Front(p)) = "dir"
        BY <1>3, <2>2, <2>3 DEF VfsOK, FilesHang
      <3>3. CASE Front(p) = Root
        BY <2>4, <3>1, <3>3, CachedIs
      <3>4. CASE Front(p) \in Paths
        BY <2>4, <3>1, <3>2, <3>4, CachedIs
      <3>5. QED
        BY <2>3, <3>3, <3>4, FrontIs DEF Dirs, Paths
    <2>8. StaleOnlyByRemoval(vfs, u)
      <3> SUFFICES ASSUME NEW q \in FilePaths, StaleIn(u, q), ~StaleIn(vfs, q)
                   PROVE  \E x \in FilePaths \ {q} : /\ Last(x) = Last(q) /\ ~Cached(u, x)
                                                     /\ Cached(u, Front(x)) /\ Mode(u, Front(x)) = "dir"
        BY DEF StaleOnlyByRemoval
      <3>1. q \in Paths /\ Last(q) \in Names /\ Last(p) \in Names
        BY <2>3, FrontIs DEF Paths
      <3>2. Cached(u, q) /\ Cached(t, q) /\ u.cache[q] = t.cache[q] /\ q # p
        BY <2>4, <2>7, <3>1 DEF StaleIn
      <3>3. t.cache[q].entry = t.list[Last(q)]
        BY <1>5, <3>2 DEF StaleIn
      <3>4. t.list \in [Names -> Ino \cup {Nil}]
        BY <1>3, StateFields DEF VfsOK
      <3>5. Last(q) # Last(p) => u.list[Last(q)] = t.list[Last(q)]
        BY <2>4, <3>1, <3>4 DEF Changed
      <3>6. Last(q) = Last(p)
        BY <3>2, <3>3, <3>5 DEF StaleIn
      <3>7. QED
        BY <2>3, <2>7, <3>2, <3>6
    <2>9. VfsOK(vfs') /\ Bounded(vfs') /\ Table(file', fd') /\ OpensCounted(vfs', file')
      BY <1>1, <1>4, <2>1, <2>4, <2>5, <2>6
    <2>10. QED
      BY <2>1, <2>8, <2>9 DEF VfsInv
  <1>8. QED
    BY <1>6, <1>7

\* Every call keeps the invariant, and makes dentries stale by removals only.
LEMMA VfsStep ==
    ASSUME VfsInv, [Next]_vars
    PROVE  VfsInv' /\ StaleOnlyByRemoval(vfs, vfs')
  <1>1. CASE UNCHANGED vars
    <2>1. vfs' = vfs /\ file' = file /\ fd' = fd
      BY <1>1 DEF vars
    <2>2. StaleOnlyByRemoval(vfs, vfs')
      BY <2>1 DEF StaleOnlyByRemoval
    <2>3. VfsOK(vfs') /\ Bounded(vfs') /\ Table(file', fd') /\ OpensCounted(vfs', file')
      BY <2>1 DEF VfsInv
    <2>4. QED
      BY <2>2, <2>3 DEF VfsInv
  <1>2. ASSUME NEW p \in Paths, Mkdir(p) PROVE VfsInv' /\ StaleOnlyByRemoval(vfs, vfs')
    BY <1>2, MkdirCall
  <1>3. ASSUME NEW p \in Paths, RemoveDentry(p) PROVE VfsInv' /\ StaleOnlyByRemoval(vfs, vfs')
    BY <1>3, RemoveCall
  <1>4. ASSUME NEW p \in Paths, Open(p, TRUE) PROVE VfsInv' /\ StaleOnlyByRemoval(vfs, vfs')
    BY <1>4, OpenCall
  <1>5. ASSUME NEW p \in Paths, Open(p, FALSE) PROVE VfsInv' /\ StaleOnlyByRemoval(vfs, vfs')
    BY <1>5, OpenCall
  <1>6. ASSUME NEW k \in Fd, Close(k) PROVE VfsInv' /\ StaleOnlyByRemoval(vfs, vfs')
    BY <1>6, CloseCall
  <1>7. QED
    BY <1>1, <1>2, <1>3, <1>4, <1>5, <1>6 DEF Next

-----------------------------------------------------------------------------
(* The theorems.                                                           *)

\* VfsInv is an invariant: whatever calls are made, the cache, the inodes, the counts and
\* the descriptor table fit together.
THEOREM VfsInvariant == Spec => []VfsInv
  <1>1. VfsInv /\ [Next]_vars => VfsInv'
    BY VfsStep
  <1>2. QED
    BY InitVfsInv, <1>1, PTL DEF Spec

\* The count of an inode never passes one for its dentry and one for each descriptor.
LEMMA InvTypeOK == VfsInv => TypeOK
  <1> SUFFICES ASSUME VfsInv PROVE TypeOK
    OBVIOUS
  <1>1. vfs \in State /\ InodesInOrder(vfs) /\ Table(file, fd) /\ OpensCounted(vfs, file)
    BY DEF VfsInv, VfsOK
  <1>2. /\ Loose(vfs) /\ vfs.list \in [Names -> Ino \cup {Nil}] /\ vfs.cache \in [Paths -> Dentry]
        /\ vfs.inode \in [Ino -> Inode] /\ vfs.refs \in [Dirs -> Nat]
    BY <1>1, StateFields
  <1>3. ASSUME NEW i \in Ino PROVE vfs.inode[i].count \in 0 .. MaxFd + 1
    <2>1. CASE vfs.inode[i] = NoInode
      BY <2>1, FileSets DEF NoInode
    <2>2. CASE vfs.inode[i] # NoInode
      <3>1. On(file, i) \in SUBSET File /\ \A f \in On(file, i) : file[f] # Nil
        BY FileSets DEF On
      <3>2. Cardinality(On(file, i)) <= MaxFd /\ Cardinality(On(file, i)) \in Nat
        BY <1>1, <3>1, OpensFit, FileSets
      <3>3. vfs.inode[i].count = 1 + Cardinality(On(file, i))
        BY <1>1, <2>2 DEF OpensCounted
      <3>4. QED
        BY <3>2, <3>3, FileSets
    <2>3. QED
      BY <2>1, <2>2
  <1> DEFINE J == [mode : {"file", "dir", "dev", Nil}, priv : Ino \cup {RootIno, Nil}, count : 0 .. MaxFd + 1]
  <1>4. \A i \in Ino : vfs.inode[i] \in J
    BY <1>2, <1>3 DEF Inode
  <1> HIDE DEF J
  <1>5. vfs.inode \in [Ino -> J]
    BY <1>2, <1>4
  <1>6. vfs \in [list : [Names -> Ino \cup {Nil}], cache : [Paths -> Dentry], inode : [Ino -> J],
                 refs : [Dirs -> Nat]]
    BY <1>1, <1>5 DEF State
  <1>7. file \in [File -> Ino \cup {Nil}] /\ fd \in [Fd -> File \cup {Nil}]
    BY <1>1 DEF Table
  <1>8. QED
    BY <1>6, <1>7 DEF TypeOK, J, Dentry, Dirs

\* Every state of Vfs is of its type: no count of an inode grows past one for its dentry and
\* one for each descriptor, and the parent's count that __d_drop gives back was there.
THEOREM VfsTypeCorrect == Spec => []TypeOK
  BY VfsInvariant, InvTypeOK, PTL

\* sys_open and sys_close lose no file: an open file is in exactly one descriptor, and a
\* descriptor holds an open file, with the table full or the driver's open failing too.
THEOREM FilesAreHeld == Spec => []FilesHeld
  <1>1. VfsInv => FilesHeld
    <2> SUFFICES ASSUME VfsInv PROVE FilesHeld
      OBVIOUS
    <2>1. /\ \A k \in Fd : fd[k] # Nil => file[fd[k]] # Nil
          /\ \A f \in File : file[f] # Nil => \E k \in Fd : fd[k] = f
          /\ \A k, m \in Fd : fd[k] # Nil /\ fd[k] = fd[m] => k = m
      BY DEF VfsInv, Table
    <2>2. ASSUME NEW f \in File, file[f] # Nil PROVE Cardinality({k \in Fd : fd[k] = f}) = 1
      <3>1. PICK k \in Fd : fd[k] = f
        BY <2>1, <2>2
      <3>2. {m \in Fd : fd[m] = f} = {k}
        BY <2>1, <3>1, FileSets
      <3>3. QED
        BY <3>2, FS_Singleton
    <2>3. QED
      BY <2>1, <2>2 DEF FilesHeld
  <1>2. QED
    BY VfsInvariant, <1>1, PTL

\* No call frees an inode that a file or a dentry still refers to: the count covers both,
\* whether the file is closed first or the name removed first.
THEOREM InodesAreKept == Spec => []InodesKept
  <1>1. VfsInv => InodesKept
    <2> SUFFICES ASSUME VfsInv PROVE InodesKept
      OBVIOUS
    <2>1. VfsOK(vfs) /\ OpensCounted(vfs, file) /\ vfs.cache \in [Paths -> Dentry]
      BY StateFields DEF VfsInv, VfsOK
    <2>2. \A p \in Paths : Cached(vfs, p) =>
                vfs.cache[p].ino \in Ino /\ vfs.inode[vfs.cache[p].ino] # NoInode
      BY <2>1, CachedInode
    <2>3. ASSUME NEW i \in Ino
          PROVE  vfs.inode[i].count >=
                     Cardinality(OpenOn(i)) + Cardinality({p \in Paths : vfs.cache[p].ino = i})
      <3> DEFINE C == {p \in Paths : vfs.cache[p].ino = i}
      <3>1. \A p \in C : Cached(vfs, p)
        BY FileSets, CachedIs DEF NoDentry
      <3>2. OpenOn(i) = On(file, i) /\ Cardinality(OpenOn(i)) \in Nat
        BY FileSets DEF OpenOn, On
      <3>3. \A p, q \in C : p = q
        BY <2>1, <3>1 DEF VfsOK, OwnInodes
      <3>4. C = {} \/ \E p : C = {p}
        <4> HIDE DEF C
        <4>1. QED
          BY <3>3
      <3>5. Cardinality(C) \in {0, 1} /\ (C = {} => Cardinality(C) = 0)
        <4> HIDE DEF C
        <4>1. QED
          BY <3>4, FS_EmptySet, FS_Singleton
      <3>6. CASE vfs.inode[i] # NoInode
        <4>1. vfs.inode[i].count = 1 + Cardinality(OpenOn(i))
          BY <2>1, <3>2, <3>6 DEF OpensCounted
        <4> HIDE DEF C
        <4>2. vfs.inode[i].count >= Cardinality(OpenOn(i)) + Cardinality(C)
          BY <3>2, <3>5, <4>1
        <4>3. QED
          BY <4>2 DEF C
      <3>7. CASE vfs.inode[i] = NoInode
        <4>1. C = {}
          BY <2>2, <3>1, <3>7
        <4>2. OpenOn(i) = {}
          BY <2>1, <3>7, FileSets DEF OpenOn, OpensCounted
        <4> HIDE DEF C
        <4>3. Cardinality(C) = 0 /\ Cardinality(OpenOn(i)) = 0 /\ vfs.inode[i].count = 0
          BY <3>5, <3>7, <4>1, <4>2, FS_EmptySet DEF NoInode
        <4>4. vfs.inode[i].count >= Cardinality(OpenOn(i)) + Cardinality(C)
          BY <4>3
        <4>5. QED
          BY <4>4 DEF C
      <3>8. QED
        BY <3>6, <3>7
    <2>4. QED
      BY <2>1, <2>2, <2>3 DEF InodesKept, OpensCounted
  <1>2. QED
    BY VfsInvariant, <1>1, PTL

\* d_alloc and __d_drop balance: the count of a dentry is the number of its children in the
\* cache, however the lookups, creations and removals below it have ended.
THEOREM RefsAreExact == Spec => []RefsExact
  <1>1. VfsInv => RefsExact
    <2> SUFFICES ASSUME VfsInv, NEW d \in FilePaths \cup {Root}
                 PROVE  vfs.refs[d] = Cardinality({p \in FilePaths : Front(p) = d /\ Cached(vfs, p)})
      BY DEF RefsExact
    <2>1. vfs.refs[d] = Cardinality(Kids(vfs, d))
      BY DEF VfsInv, VfsOK, RefsCounted, Dirs
    <2>2. QED
      BY <2>1 DEF Kids
  <1>2. QED
    BY VfsInvariant, <1>1, PTL

\* The dentry cache follows the list of entries: no two dentries share an inode, a dentry
\* hangs below a cached one, and it goes stale in one way only, by the removal of its entry
\* under another path.
THEOREM CacheFollows == Spec => CacheFollowsList
  <1> DEFINE Own == \A p, q \in Paths : Cached(vfs, p) /\ Cached(vfs, q) /\ p # q =>
                        vfs.cache[p].ino # vfs.cache[q].ino
             Below == \A p \in FilePaths : Cached(vfs, p) => Cached(vfs, Front(p))
             Moves == \A p \in FilePaths : Stale(p)' /\ ~Stale(p) =>
                        \E q \in FilePaths \ {p} : Last(q) = Last(p) /\ ~Cached(vfs, q)' /\ IsDir(Front(q))'
  <1>1. VfsInv => Own
    BY DEF VfsInv, VfsOK, OwnInodes
  <1>2. VfsInv => Below
    BY DEF VfsInv, VfsOK, FilesHang
  <1>3. VfsInv /\ [Next]_vars => Moves
    <2> SUFFICES ASSUME VfsInv, [Next]_vars PROVE Moves
      OBVIOUS
    <2>1. StaleOnlyByRemoval(vfs, vfs')
      BY VfsStep
    <2>2. \A p : (Stale(p) <=> StaleIn(vfs, p)) /\ (Stale(p)' <=> StaleIn(vfs', p))
      BY DEF Stale, StaleIn
    <2>3. \A q : /\ Cached(vfs, q)' <=> Cached(vfs', q)
                 /\ IsDir(q)' <=> (Cached(vfs', q) /\ Mode(vfs', q) = "dir")
      BY DEF IsDir
    <2>4. QED
      BY <2>1, <2>2, <2>3 DEF StaleOnlyByRemoval
  <1>4. VfsInv /\ [Next]_vars => [Moves]_vars
    BY <1>3
  <1> HIDE DEF Own, Below, Moves
  <1>5. Spec => []Own /\ []Below /\ [][Moves]_vars
    BY VfsInvariant, <1>1, <1>2, <1>4, PTL DEF Spec
  <1>6. QED
    BY <1>5 DEF CacheFollowsList, Own, Below, Moves
=============================================================================
