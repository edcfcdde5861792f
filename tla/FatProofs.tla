------------------------------ MODULE FatProofs ------------------------------
(***************************************************************************)
(* Lemmas about the operators of Fat, for any table, block and directory   *)
(* block size.                                                             *)
(*                                                                         *)
(* First what the functions of file.c leave of names, addresses and        *)
(* permissions (FsOK).  Then chains and the loop that makes them grow;     *)
(* what belongs to whom (Layout) and how it changes when a file or the     *)
(* directory takes blocks or gives them back; and each function of file.c, *)
(* which keeps a sound file system sound as long as the end mark is no     *)
(* block (Sound, Keeps).  At last the bytes: what each function makes of   *)
(* those of the file it is given (Makes, Rewrites), and that it leaves     *)
(* those of the others alone (Spares, Preserves).                          *)
(***************************************************************************)
EXTENDS Fat, TLAPS, SequenceTheorems, FiniteSetTheorems

-----------------------------------------------------------------------------
(***************************************************************************)
(* Minima and sequences.                                                   *)
(***************************************************************************)
\* A nonempty set of naturals has a least element, which Min yields.
LEMMA MinOfNaturals ==
  ASSUME NEW T, T \subseteq Nat, T # {}
  PROVE  Min(T) \in T /\ \A y \in T : Min(T) <= y
<1> DEFINE R == OpToRel(<, Nat)
<1>1. PICK x \in T : \A y \in T : ~ (<<y, x>> \in R)
  <2>1. IsWellFoundedOn(R, Nat)
    BY NatLessThanWellFounded
  <2> HIDE DEF R
  <2> QED BY <2>1, WFMin
<1>2. \A y \in T : <<y, x>> \in R <=> y < x
  BY DEF OpToRel
<1> HIDE DEF R
<1>3. \A y \in T : x <= y
  <2> TAKE y \in T
  <2>1. x \in Nat /\ y \in Nat /\ ~ (y < x)
    BY <1>1, <1>2
  <2> QED BY <2>1
<1>4. \E z \in T : \A y \in T : z <= y
  BY <1>3
<1> QED BY <1>4 DEF Min

\* The first of some places is one of them, unless there are none.
LEMMA FirstOfPlaces ==
  ASSUME NEW T, T \subseteq Nat \ {0}
  PROVE  /\ FirstOf(T) = 0 <=> T = {}
         /\ T # {} => FirstOf(T) \in T
BY MinOfNaturals DEF FirstOf

\* A sequence without its i-th element.
LEMMA RemoveAtProperties ==
  ASSUME NEW S, NEW s \in Seq(S), NEW i \in 1..Len(s)
  PROVE  /\ RemoveAt(s, i) \in Seq(S) /\ Len(RemoveAt(s, i)) = Len(s) - 1
         /\ \A j \in 1..(Len(s) - 1) :
              RemoveAt(s, i)[j] = IF j < i THEN s[j] ELSE s[j + 1]
<1> DEFINE u == SubSeq(s, 1, i - 1)
           v == SubSeq(s, i + 1, Len(s))
<1>1. Len(s) \in Nat /\ \A j \in 1..Len(s) : s[j] \in S
  BY LenProperties, ElementOfSeq
<1>2. u \in Seq(S) /\ Len(u) = i - 1 /\ \A j \in 1..(i - 1) : u[j] = s[j]
  <2>1. \A j \in 1..(i - 1) : s[j] \in S
    BY <1>1
  <2>2. /\ u \in Seq(S)
        /\ Len(u) = IF 1 <= i - 1 THEN i - 1 - 1 + 1 ELSE 0
        /\ \A j \in 1..(i - 1 - 1 + 1) : u[j] = s[1 + j - 1]
    BY <1>1, <2>1, SubSeqProperties
  <2> HIDE DEF u
  <2> QED BY <1>1, <2>2
<1>3. v \in Seq(S) /\ Len(v) = Len(s) - i /\ \A j \in 1..(Len(s) - i) : v[j] = s[i + j]
  <2>1. \A j \in (i + 1)..Len(s) : s[j] \in S
    BY <1>1
  <2>2. /\ v \in Seq(S)
        /\ Len(v) = IF i + 1 <= Len(s) THEN Len(s) - (i + 1) + 1 ELSE 0
        /\ \A j \in 1..(Len(s) - (i + 1) + 1) : v[j] = s[(i + 1) + j - 1]
    BY <1>1, <2>1, SubSeqProperties
  <2> HIDE DEF v
  <2> QED BY <1>1, <2>2
<1> HIDE DEF u, v
<1>4. /\ u \o v \in Seq(S) /\ Len(u \o v) = Len(u) + Len(v)
      /\ \A j \in 1..(Len(u) + Len(v)) :
           (u \o v)[j] = IF j <= Len(u) THEN u[j] ELSE v[j - Len(u)]
  BY <1>2, <1>3, ConcatProperties
<1>5. RemoveAt(s, i) = u \o v
  BY DEF RemoveAt, u, v
<1>6. ASSUME NEW j \in 1..(Len(s) - 1)
      PROVE  (u \o v)[j] = IF j < i THEN s[j] ELSE s[j + 1]
  <2>1. CASE j < i
    <3>1. j \in 1..(i - 1) /\ j <= Len(u) /\ j \in 1..(Len(u) + Len(v))
      BY <1>1, <1>2, <1>3, <2>1
    <3> QED BY <1>2, <1>4, <2>1, <3>1
  <2>2. CASE ~ (j < i)
    <3>1. j - Len(u) \in 1..(Len(s) - i) /\ ~ (j <= Len(u)) /\ j \in 1..(Len(u) + Len(v))
          /\ i + (j - Len(u)) = j + 1
      BY <1>1, <1>2, <1>3, <2>2
    <3> QED BY <1>3, <1>4, <2>2, <3>1
  <2> QED BY <2>1, <2>2
<1>7. Len(u) + Len(v) = Len(s) - 1
  BY <1>1, <1>2, <1>3
<1> QED BY <1>4, <1>5, <1>6, <1>7

-----------------------------------------------------------------------------
(***************************************************************************)
(* Directories.                                                            *)
(***************************************************************************)
Fields == {"blocks", "data", "dir", "disk", "freeBlocks", "damage"}

\* What is needed of an entry.
IsEntry(e) ==
  /\ DOMAIN e = {"name", "size", "firstBlock", "perm", "at"}
  /\ e.name \in Name /\ e.at \in Addr

\* A directory in which a name or an address leads to one entry.
DirOK(dir) ==
  /\ dir \in Seq(Range(dir))
  /\ \A i \in DOMAIN dir : IsEntry(dir[i])
  /\ \A i, j \in DOMAIN dir : dir[i].name = dir[j].name \/ dir[i].at = dir[j].at => i = j

\* Directory d has become e, with the same names and addresses in the same places.
SameEntries(d, e) ==
  /\ e \in Seq(Range(e)) /\ DOMAIN e = DOMAIN d
  /\ \A i \in DOMAIN d : IsEntry(e[i]) /\ e[i].name = d[i].name /\ e[i].at = d[i].at

\* Both directories of a file system are sound, or that on disk is never loaded.
FsOK(f) ==
  /\ DOMAIN f = Fields /\ DirOK(f.dir)
  /\ (f.disk = Outdated /\ "load_unsaved" \notin Situations) \/ DirOK(f.disk)

\* A list with a domain 1..n is a sequence of its elements.
LEMMA SequenceOfItself ==
  ASSUME NEW s, NEW n \in Nat, s = [i \in 1..n |-> s[i]]
  PROVE  s \in Seq(Range(s)) /\ Len(s) = n /\ DOMAIN s = 1..n
<1>1. DOMAIN s = 1..n
  OBVIOUS
<1>2. \A i \in 1..n : s[i] \in Range(s)
  BY <1>1 DEF Range
<1>3. [i \in 1..n |-> s[i]] \in Seq(Range(s))
  BY <1>2, IsASeq
<1>4. s \in Seq(Range(s))
  BY <1>3
<1> QED BY <1>1, <1>4, LenProperties

\* The places of a directory.
LEMMA DirFacts ==
  ASSUME NEW dir, DirOK(dir)
  PROVE  Len(dir) \in Nat /\ DOMAIN dir = 1..Len(dir) /\ DOMAIN dir \subseteq Nat \ {0}
<1>1. dir \in Seq(Range(dir))
  BY DEF DirOK
<1>2. Len(dir) \in Nat /\ DOMAIN dir = 1..Len(dir)
  BY <1>1, LenProperties
<1> QED BY <1>2

\* A directory stays sound while names and addresses stay.
LEMMA SameEntriesOK ==
  ASSUME NEW d, DirOK(d), NEW e, SameEntries(d, e)
  PROVE  DirOK(e) /\ Ats(e) = Ats(d)
BY DEF DirOK, SameEntries, Ats

\* ... while one entry is replaced by another of its name and address.
LEMMA EntryReplaced ==
  ASSUME NEW d, DirOK(d), NEW i \in DOMAIN d, NEW e, IsEntry(e),
         e.name = d[i].name, e.at = d[i].at
  PROVE  SameEntries(d, [d EXCEPT ![i] = e])
<1> DEFINE u == [d EXCEPT ![i] = e]
<1>1. Len(d) \in Nat /\ DOMAIN d = 1..Len(d)
  BY DirFacts
<1>2. DOMAIN u = 1..Len(d) /\ u = [j \in 1..Len(d) |-> u[j]]
  BY <1>1
<1>3. \A j \in DOMAIN d : u[j] = IF j = i THEN e ELSE d[j]
  BY <1>1
<1> HIDE DEF u
<1>4. u \in Seq(Range(u))
  BY <1>1, <1>2, SequenceOfItself
<1>5. \A j \in DOMAIN d : IsEntry(u[j]) /\ u[j].name = d[j].name /\ u[j].at = d[j].at
  BY <1>3 DEF DirOK
<1> QED BY <1>1, <1>2, <1>4, <1>5 DEF SameEntries, u

\* A new entry gets a name and an address that no other has.
LEMMA EntryAppended ==
  ASSUME NEW d, DirOK(d), NEW e, IsEntry(e),
         \A i \in DOMAIN d : d[i].name # e.name, e.at \notin Ats(d)
  PROVE  /\ DirOK(Append(d, e)) /\ Ats(Append(d, e)) = Ats(d) \cup {e.at}
         /\ Append(d, e)[Len(d) + 1] = e /\ Len(Append(d, e)) = Len(d) + 1
<1> DEFINE u == Append(d, e)
           S == Range(d) \cup {e}
<1>1. Len(d) \in Nat /\ DOMAIN d = 1..Len(d)
  BY DirFacts
<1>2. d \in Seq(S) /\ e \in S
  <2>1. d \in Seq(Range(d)) /\ Range(d) \subseteq S
    BY DEF DirOK
  <2> HIDE DEF S
  <2>2. d \in Seq(S)
    BY <2>1, SeqMonotonic
  <2> QED BY <2>2 DEF S
<1> HIDE DEF S
<1>3. /\ u \in Seq(S) /\ Len(u) = Len(d) + 1
      /\ \A i \in 1..Len(d) : u[i] = d[i]
      /\ u[Len(d) + 1] = e
  BY <1>2, AppendProperties
<1> HIDE DEF u
<1>4. DOMAIN u = 1..(Len(d) + 1) /\ u \in Seq(Range(u))
  BY <1>3, LenProperties, SeqOfRange
<1>5. \A i \in DOMAIN u : i = Len(d) + 1 \/ i \in DOMAIN d
  BY <1>1, <1>4
<1>6. \A i \in DOMAIN u : IsEntry(u[i])
  BY <1>1, <1>3, <1>5 DEF DirOK
<1>7. \A i, j \in DOMAIN u : u[i].name = u[j].name \/ u[i].at = u[j].at => i = j
  BY <1>1, <1>3, <1>5 DEF DirOK, Ats
<1>8. Ats(u) = Ats(d) \cup {e.at}
  BY <1>1, <1>3, <1>4, <1>5 DEF Ats
<1> QED BY <1>3, <1>4, <1>6, <1>7, <1>8 DEF DirOK, u

\* Without the i-th entry a directory is sound if the others have names and
\* addresses of their own.
LEMMA EntryRemoved ==
  ASSUME NEW d, d \in Seq(Range(d)), \A j \in DOMAIN d : IsEntry(d[j]), NEW i \in DOMAIN d,
         \A j, m \in DOMAIN d \ {i} : d[j].name = d[m].name \/ d[j].at = d[m].at => j = m
  PROVE  DirOK(RemoveAt(d, i))
<1> DEFINE u == RemoveAt(d, i)
           at(j) == IF j < i THEN j ELSE j + 1
<1>1. Len(d) \in Nat /\ DOMAIN d = 1..Len(d)
  BY LenProperties
<1>2. /\ u \in Seq(Range(d)) /\ Len(u) = Len(d) - 1
      /\ \A j \in 1..(Len(d) - 1) : u[j] = IF j < i THEN d[j] ELSE d[j + 1]
  BY <1>1, RemoveAtProperties
<1> HIDE DEF u
<1>3. DOMAIN u = 1..(Len(d) - 1) /\ u \in Seq(Range(u))
  BY <1>1, <1>2, LenProperties, SeqOfRange
<1>4. \A j \in DOMAIN u : at(j) \in DOMAIN d \ {i} /\ u[j] = d[at(j)]
  BY <1>1, <1>2, <1>3
<1>5. \A j, m \in DOMAIN u : at(j) = at(m) => j = m
  BY <1>1, <1>3
<1> HIDE DEF at
<1>6. DirOK(u)
  BY <1>3, <1>4, <1>5 DEF DirOK
<1> QED BY <1>6 DEF u

\* What Find finds.
LEMMA FindFacts ==
  ASSUME NEW f, DirOK(f.dir), NEW name
  PROVE  /\ Find(f, name) = 0 => \A i \in DOMAIN f.dir : f.dir[i].name # name
         /\ Find(f, name) # 0 => /\ Find(f, name) \in DOMAIN f.dir
                                /\ f.dir[Find(f, name)].name = name
         /\ \A i \in DOMAIN f.dir : f.dir[i].name = name => Find(f, name) = i
<1> DEFINE T == {i \in DOMAIN f.dir : f.dir[i].name = name}
<1>1. T \subseteq Nat \ {0}
  BY DirFacts
<1>2. Find(f, name) = FirstOf(T)
  BY DEF Find
<1>3. (Find(f, name) = 0 <=> T = {}) /\ (T # {} => Find(f, name) \in T)
  <2> HIDE DEF T
  <2> QED BY <1>1, <1>2, FirstOfPlaces
<1> QED BY <1>3 DEF DirOK

-----------------------------------------------------------------------------
(***************************************************************************)
(* The functions of file.c.                                                *)
(***************************************************************************)
\* From f to g only table, bytes, count and damage change.
Beside(f, g) ==
  DOMAIN g = Fields /\ g.dir = f.dir /\ g.disk = f.disk /\ f.damage \subseteq g.damage

\* ... or entries, but neither their names nor their addresses.
Kept(f, g) ==
  /\ DOMAIN g = Fields /\ g.disk = f.disk /\ f.damage \subseteq g.damage
  /\ SameEntries(f.dir, g.dir)

\* What is beside f is kept from f.
LEMMA BesideKept ==
  ASSUME NEW f, DirOK(f.dir), NEW g, Beside(f, g)
  PROVE  Kept(f, g)
BY DEF Beside, Kept, SameEntries, DirOK

\* A file system that is kept from a sound one is sound, with the same addresses.
LEMMA KeptOK ==
  ASSUME NEW f, FsOK(f), NEW g, Kept(f, g)
  PROVE  FsOK(g) /\ Ats(g.dir) = Ats(f.dir)
BY SameEntriesOK DEF FsOK, Kept

\* The end of a chain.
LEMMA TerminateBeside ==
  ASSUME NEW f, DOMAIN f = Fields, NEW g
  PROVE  Beside(f, Terminate(f, g))
BY DEF Terminate, Beside, Fields

\* Bytes are written beside the directory.
LEMMA WriteBeside ==
  ASSUME NEW f, DOMAIN f = Fields, NEW t, NEW c, NEW offset, NEW bytes
  PROVE  Beside(f, Write(f, t, c, offset, bytes))
<1>1. Beside(f, [f EXCEPT !.blocks = t])
  BY DEF Beside, Fields
<1>2. ASSUME NEW g, NEW n PROVE Beside(f, WriteAlong(f, g, n, offset, bytes))
  <2> DEFINE h == Terminate(f, g[n])
  <2>1. Beside(f, h)
    BY TerminateBeside
  <2>2. ASSUME NEW data, NEW flags
        PROVE  Beside(f, [h EXCEPT !.data = Over(data, @), !.damage = @ \cup flags])
    <3> HIDE DEF h
    <3> QED BY <2>1 DEF Beside, Fields
  <2> QED BY <2>2 DEF WriteAlong
<1> QED BY <1>1, <1>2 DEF Write

\* An entry of a file system beside f gets another size and first block.
LEMMA EntrySet ==
  ASSUME NEW f, FsOK(f), NEW g, Beside(f, g), NEW i \in DOMAIN f.dir,
         NEW size, NEW first, NEW free, NEW flags
  PROVE  /\ Kept(f, [g EXCEPT !.dir[i].size = size, !.dir[i].firstBlock = first,
                              !.freeBlocks = free])
         /\ Kept(f, [g EXCEPT !.dir[i].firstBlock = first, !.dir[i].size = size,
                              !.freeBlocks = free])
         /\ Kept(f, [g EXCEPT !.dir[i].size = size, !.freeBlocks = free,
                              !.damage = @ \cup flags])
<1> DEFINE d == f.dir
           e1 == [[d[i] EXCEPT !.size = size] EXCEPT !.firstBlock = first]
           e2 == [[d[i] EXCEPT !.firstBlock = first] EXCEPT !.size = size]
           e3 == [d[i] EXCEPT !.size = size]
<1>1. DirOK(d) /\ IsEntry(d[i]) /\ g.dir = d /\ DOMAIN g = Fields
  BY DEF FsOK, DirOK, Beside
<1>2. /\ IsEntry(e1) /\ e1.name = d[i].name /\ e1.at = d[i].at
      /\ IsEntry(e2) /\ e2.name = d[i].name /\ e2.at = d[i].at
      /\ IsEntry(e3) /\ e3.name = d[i].name /\ e3.at = d[i].at
  <2> HIDE DEF d
  <2> QED BY <1>1 DEF IsEntry
<1>3. /\ SameEntries(d, [d EXCEPT ![i] = e1]) /\ SameEntries(d, [d EXCEPT ![i] = e2])
      /\ SameEntries(d, [d EXCEPT ![i] = e3])
  <2> HIDE DEF d, e1, e2, e3
  <2>1. i \in DOMAIN d
    BY DEF d
  <2> QED BY <1>1, <1>2, <2>1, EntryReplaced
<1>4. [g EXCEPT !.dir[i].size = size, !.dir[i].firstBlock = first, !.freeBlocks = free].dir
        = [d EXCEPT ![i] = e1]
  BY <1>1 DEF Fields
<1>5. [g EXCEPT !.dir[i].firstBlock = first, !.dir[i].size = size, !.freeBlocks = free].dir
        = [d EXCEPT ![i] = e2]
  BY <1>1 DEF Fields
<1>6. [g EXCEPT !.dir[i].size = size, !.freeBlocks = free, !.damage = @ \cup flags].dir
        = [d EXCEPT ![i] = e3]
  BY <1>1 DEF Fields
<1> HIDE DEF e1, e2, e3
<1>7. Kept(f, [g EXCEPT !.dir[i].size = size, !.dir[i].firstBlock = first,
                        !.freeBlocks = free])
  BY <1>1, <1>3, <1>4 DEF Kept, Beside, Fields
<1>8. Kept(f, [g EXCEPT !.dir[i].firstBlock = first, !.dir[i].size = size,
                        !.freeBlocks = free])
  BY <1>1, <1>3, <1>5 DEF Kept, Beside, Fields
<1>9. Kept(f, [g EXCEPT !.dir[i].size = size, !.freeBlocks = free,
                        !.damage = @ \cup flags])
  BY <1>1, <1>3, <1>6 DEF Kept, Beside, Fields
<1> QED BY <1>7, <1>8, <1>9

\* A file that is there is overwritten: names and addresses stay.
LEMMA OverwriteKept ==
  ASSUME NEW f, FsOK(f), NEW i \in DOMAIN f.dir, NEW bytes
  PROVE  Kept(f, Overwrite(f, i, bytes).fs)
<1>1. Beside(f, f) /\ Kept(f, f)
  BY BesideKept DEF Beside, FsOK
<1>2. ASSUME NEW t, NEW c PROVE Kept(f, WriteAnew(f, i, bytes, t, c))
  <2> DEFINE g == Write(f, t, c, 0, bytes)
  <2>1. Beside(f, g)
    BY WriteBeside DEF FsOK
  <2> HIDE DEF g
  <2>2. \A size, first, free :
          Kept(f, [g EXCEPT !.dir[i].size = size, !.dir[i].firstBlock = first,
                            !.freeBlocks = free])
    BY <2>1, EntrySet
  <2>3. Kept(f, [g EXCEPT !.dir[i].size = Len(bytes),
                          !.dir[i].firstBlock = IF bytes = <<>> THEN 0 ELSE c,
                          !.freeBlocks = g.freeBlocks + Change(f, i, Len(bytes))])
    BY <2>2
  <2> QED BY <2>3 DEF WriteAnew, g
<1> QED BY <1>1, <1>2 DEF Overwrite, Done, Failed

\* ... or written at an offset.
LEMMA WriteAtKept ==
  ASSUME NEW f, FsOK(f), NEW i \in DOMAIN f.dir, NEW offset, NEW bytes
  PROVE  Kept(f, WriteAt(f, i, offset, bytes).fs)
<1>1. Beside(f, f) /\ Kept(f, f)
  BY BesideKept DEF Beside, FsOK
<1>2. ASSUME NEW t PROVE Kept(f, [f EXCEPT !.blocks = t, !.damage = @ \cup {"offset_past_end"}])
  <2>1. Beside(f, [f EXCEPT !.blocks = t, !.damage = @ \cup {"offset_past_end"}])
    BY DEF FsOK, Beside, Fields
  <2> QED BY <2>1, BesideKept DEF FsOK
<1>3. ASSUME NEW t, NEW next PROVE Kept(f, WriteBehind(f, i, offset, bytes, t, next))
  <2> DEFINE size == f.dir[i].size
             length == Len(bytes)
             later == offset >= BlockSize
             at == IF later THEN 0 ELSE f.dir[i].firstBlock
             full == size % BlockSize = 0
             c == IF full THEN next ELSE at
             within == offset % BlockSize
             outside == offset >= 2 * BlockSize \/ (c = 0 /\ within + length > BlockSize)
             found == [f EXCEPT !.damage = @ \cup Flag("offset_in_later_block", later)
                                       \cup Flag("link_outside", outside)
                                       \cup Flag("offset_in_full_block", full /\ ~later)
                                       \cup Flag("offset_shortens", offset + length <= size)]
             links == IF full THEN [t EXCEPT ![at] = next] ELSE t
             g == Write(found, links, c, within, bytes)
             done == [g EXCEPT
                        !.dir[i].firstBlock = IF length = 0 THEN 0 ELSE c,
                        !.dir[i].size = IF offset + length > size THEN offset + length ELSE length,
                        !.freeBlocks = @ + Change(f, i, offset + length)]
  <2>1. \A flags : Beside(f, [f EXCEPT !.damage = @ \cup flags])
    BY DEF FsOK, Beside, Fields
  <2>2. Beside(f, found)
    <3> HIDE DEF later, outside, full, length, size
    <3>1. found = [f EXCEPT !.damage = @ \cup
                     (Flag("offset_in_later_block", later) \cup Flag("link_outside", outside)
                        \cup Flag("offset_in_full_block", full /\ ~later)
                        \cup Flag("offset_shortens", offset + length <= size))]
      OBVIOUS
    <3> HIDE DEF found
    <3> QED BY <2>1, <3>1
  <2> HIDE DEF found, c, within, links
  <2>3. Beside(found, g)
    BY <2>2, WriteBeside DEF Beside
  <2> HIDE DEF g
  <2>4. Beside(f, g)
    BY <2>2, <2>3 DEF Beside
  <2>5. \A s, first, free :
          Kept(f, [g EXCEPT !.dir[i].firstBlock = first, !.dir[i].size = s,
                            !.freeBlocks = free])
    BY <2>4, EntrySet
  <2>6. Kept(f, done)
    BY <2>5
  <2>7. Kept(f, found)
    BY <2>2, BesideKept DEF FsOK
  <2>8. WriteBehind(f, i, offset, bytes, t, next) = IF outside THEN found ELSE done
    BY DEF WriteBehind, found, c, within, links, g
  <2> HIDE DEF done, outside
  <2> QED BY <2>6, <2>7, <2>8
<1> QED BY <1>1, <1>2, <1>3 DEF WriteAt, Done, Failed

\* ... or appended to.
LEMMA AppendToKept ==
  ASSUME NEW f, FsOK(f), NEW i \in DOMAIN f.dir, NEW bytes
  PROVE  Kept(f, AppendTo(f, i, bytes).fs)
<1>1. Beside(f, f) /\ Kept(f, f)
  BY BesideKept DEF Beside, FsOK
<1>2. ASSUME NEW h, FsOK(h), Kept(f, h), NEW last
      PROVE  Kept(f, WriteOn(h, i, bytes, last))
  <2> DEFINE size == h.dir[i].size
             full == size > 0 /\ size % BlockSize = 0
             c == IF size = 0 THEN FirstFree(h.blocks, 1, 1)
                  ELSE IF full THEN FirstFree(h.blocks, 1, 0) ELSE last
             t == IF full THEN [h.blocks EXCEPT ![last] = c] ELSE h.blocks
             g == Write(h, t, c, size % BlockSize, bytes)
             fromEmpty == Flag("append_to_empty", size = 0 /\ bytes # <<>>)
             fromFull == Flag("touch_full_block", full /\ bytes = <<>>)
             lacks == Lacks(size, Len(bytes))
  <2>1. WriteOn(h, i, bytes, last)
          = [g EXCEPT !.dir[i].size = @ + Len(bytes), !.freeBlocks = @ - lacks,
                      !.damage = @ \cup fromEmpty \cup fromFull]
    BY DEF WriteOn
  <2> HIDE DEF t, c
  <2>2. Beside(h, g)
    BY <1>2, WriteBeside DEF FsOK
  <2> HIDE DEF g, fromEmpty, fromFull, lacks
  <2>3. i \in DOMAIN h.dir
    BY <1>2 DEF Kept, SameEntries
  <2>4. \A s, free, u : Kept(h, [g EXCEPT !.dir[i].size = s, !.freeBlocks = free,
                                         !.damage = @ \cup u])
    BY <1>2, <2>2, <2>3, EntrySet
  <2>5. g.damage \cup fromEmpty \cup fromFull = g.damage \cup (fromEmpty \cup fromFull)
    OBVIOUS
  <2>6. Kept(h, [g EXCEPT !.dir[i].size = g.dir[i].size + Len(bytes),
                          !.freeBlocks = g.freeBlocks - lacks,
                          !.damage = @ \cup (fromEmpty \cup fromFull)])
    BY <2>4
  <2>7. DOMAIN g = Fields /\ g.dir = h.dir
    BY <2>2 DEF Beside
  <2>8. [g EXCEPT !.dir[i].size = @ + Len(bytes), !.freeBlocks = @ - lacks,
                  !.damage = @ \cup fromEmpty \cup fromFull]
        = [g EXCEPT !.dir[i].size = g.dir[i].size + Len(bytes),
                    !.freeBlocks = g.freeBlocks - lacks,
                    !.damage = @ \cup (fromEmpty \cup fromFull)]
    BY <2>3, <2>5, <2>7 DEF Fields
  <2>9. Kept(h, WriteOn(h, i, bytes, last))
    BY <2>1, <2>6, <2>8
  <2> QED BY <1>2, <2>9 DEF Kept, SameEntries
<1>3. \A flags : LET h == [f EXCEPT !.damage = @ \cup flags] IN FsOK(h) /\ Kept(f, h)
  <2> TAKE flags
  <2>1. Beside(f, [f EXCEPT !.damage = @ \cup flags])
    BY DEF FsOK, Beside, Fields
  <2> QED BY <2>1, BesideKept, KeptOK DEF FsOK
<1>4. \A last : Kept(f, WriteOn(f, i, bytes, last))
  BY <1>1, <1>2
<1>5. \A flags : Kept(f, WriteOn([f EXCEPT !.damage = @ \cup flags], i, bytes, 0))
  BY <1>2, <1>3
<1> QED BY <1>1, <1>4, <1>5 DEF AppendTo, Done, Failed

\* A call of writeFileToFAT for a file that is there keeps names and addresses.
LEMMA ExistingKept ==
  ASSUME NEW f, FsOK(f), NEW name, Find(f, name) # 0,
         NEW bytes, NEW offset, NEW appending, NEW at
  PROVE  Kept(f, writeFileToFAT(f, name, bytes, offset, appending, at).fs)
<1> DEFINE i == Find(f, name)
<1>1. i \in DOMAIN f.dir
  BY FindFacts DEF FsOK
<1>2. Kept(f, f)
  BY BesideKept DEF Beside, FsOK
<1> HIDE DEF i
<1>3. /\ Kept(f, AppendTo(f, i, bytes).fs)
      /\ Kept(f, WriteAt(f, i, offset, bytes).fs)
      /\ Kept(f, Overwrite(f, i, bytes).fs)
  BY <1>1, AppendToKept, WriteAtKept, OverwriteKept
<1> QED BY <1>2, <1>3 DEF writeFileToFAT, Failed, i

\* Of a missing file it makes an entry, or it fails and changes nothing.
LEMMA MissingCreated ==
  ASSUME NEW f, FsOK(f), NEW name \in Name, Find(f, name) = 0, NEW at \in Addr,
         at \notin Ats(f.dir), NEW bytes, NEW offset, NEW appending
  PROVE  LET r == writeFileToFAT(f, name, bytes, offset, appending, at)
         IN  /\ ~r.ok => r.fs = f
             /\ r.ok => /\ FsOK(r.fs) /\ f.damage \subseteq r.fs.damage
                        /\ Ats(r.fs.dir) = Ats(f.dir) \cup {at}
                        /\ Find(r.fs, name) # 0 /\ r.fs.dir[Find(r.fs, name)].at = at
<1> DEFINE c == FirstFree(f.blocks, 1, 1)
           new == [name |-> name, size |-> Len(bytes), perm |-> {"r", "w"}, at |-> at,
                   firstBlock |-> IF bytes = <<>> THEN 0 ELSE c]
           needed == Needed(f, Len(bytes))
           g == Write(f, f.blocks, c, 0, bytes)
           h == [g EXCEPT !.dir = Append(@, new), !.freeBlocks = @ - needed]
<1>1. writeFileToFAT(f, name, bytes, offset, appending, at)
        = IF f.freeBlocks < needed THEN Failed(f) ELSE Done(h)
  BY DEF writeFileToFAT, Create
<1>2. IsEntry(new) /\ new.name = name /\ new.at = at
  <2> HIDE DEF c
  <2> QED BY DEF IsEntry
<1>3. Beside(f, g)
  BY WriteBeside DEF FsOK
<1> HIDE DEF new, needed, g
<1>4. /\ DOMAIN h = Fields /\ h.dir = Append(f.dir, new) /\ h.disk = f.disk
      /\ f.damage \subseteq h.damage
  BY <1>3 DEF Beside, Fields
<1> HIDE DEF h
<1>5. /\ DirOK(h.dir) /\ Ats(h.dir) = Ats(f.dir) \cup {at}
      /\ h.dir[Len(f.dir) + 1] = new /\ Len(h.dir) = Len(f.dir) + 1
  <2>1. \A i \in DOMAIN f.dir : f.dir[i].name # new.name
    BY <1>2, FindFacts DEF FsOK
  <2> QED BY <1>2, <1>4, <2>1, EntryAppended DEF FsOK
<1>6. FsOK(h)
  BY <1>4, <1>5 DEF FsOK
<1>7. Find(h, name) = Len(f.dir) + 1 /\ Len(f.dir) \in Nat
  <2>1. Len(f.dir) \in Nat /\ DOMAIN h.dir = 1..(Len(f.dir) + 1)
    BY <1>5, DirFacts DEF FsOK
  <2>2. Len(f.dir) + 1 \in DOMAIN h.dir
    BY <2>1
  <2> QED BY <1>2, <1>5, <2>1, <2>2, FindFacts
<1>8. /\ FsOK(h) /\ f.damage \subseteq h.damage /\ Ats(h.dir) = Ats(f.dir) \cup {at}
      /\ Find(h, name) # 0 /\ h.dir[Find(h, name)].at = at
  BY <1>2, <1>4, <1>5, <1>6, <1>7
<1>9. /\ Failed(f).fs = f /\ ~Failed(f).ok
      /\ Done(h).fs = h /\ Done(h).ok
  BY DEF Done, Failed
<1> QED BY <1>1, <1>8, <1>9

\* Another directory takes the place of that in memory.
LEMMA DirReplaced ==
  ASSUME NEW f, FsOK(f), NEW g, DOMAIN g = Fields, DirOK(g.dir), g.disk = f.disk
  PROVE  FsOK(g)
BY DEF FsOK

\* rm takes one entry away.
LEMMA DeleteOK ==
  ASSUME NEW f, FsOK(f), NEW i \in DOMAIN f.dir
  PROVE  FsOK(Delete(f, i)) /\ Delete(f, i).damage = f.damage
<1> DEFINE g == Delete(f, i)
<1>1. DOMAIN g = Fields /\ g.dir = RemoveAt(f.dir, i) /\ g.disk = f.disk
      /\ g.damage = f.damage
  BY DEF Delete, FsOK, Fields
<1> HIDE DEF g
<1>2. DirOK(g.dir)
  BY <1>1, EntryRemoved DEF FsOK, DirOK
<1> QED BY <1>1, <1>2, DirReplaced DEF g

\* deleteFileFromFAT keeps the directory sound.
LEMMA DeleteFileOK ==
  ASSUME NEW f, FsOK(f), NEW name
  PROVE  LET r == deleteFileFromFAT(f, name)
         IN  FsOK(r.fs) /\ f.damage \subseteq r.fs.damage
<1> DEFINE i == Find(f, name)
<1>1. i # 0 => i \in DOMAIN f.dir
  BY FindFacts DEF FsOK
<1> HIDE DEF i
<1>2. i # 0 => FsOK(Delete(f, i)) /\ Delete(f, i).damage = f.damage
  BY <1>1, DeleteOK
<1> QED BY <1>2 DEF deleteFileFromFAT, Done, Failed, i

\* So does renameFile, unless it leaves two entries of one name.
LEMMA RenameFileOK ==
  ASSUME NEW f, FsOK(f), NEW old, NEW new \in Name
  PROVE  LET r == renameFile(f, old, new)
         IN  /\ DOMAIN r.fs = Fields /\ f.damage \subseteq r.fs.damage
             /\ FsOK(r.fs) \/ "mv_over_readonly" \in r.fs.damage
<1> DEFINE i == Find(f, old)
           j == Find(f, new)
           d == f.dir
           e == [d[i] EXCEPT !.name = new]
           renamed == [f EXCEPT !.dir[i].name = new]
           gone == Delete(renamed, j)
           over == [gone EXCEPT !.damage = @ \cup Flag("mv_to_itself", i = j)]
           double == [renamed EXCEPT !.damage = @ \cup {"mv_over_readonly"}]
<1>1. renameFile(f, old, new)
        = IF i = 0 \/ "w" \notin f.dir[i].perm THEN Failed(f)
          ELSE IF j = 0 THEN Done(renamed)
          ELSE IF "w" \in f.dir[j].perm THEN Done(over) ELSE Done(double)
  BY DEF renameFile
<1>2. CASE i = 0 \/ "w" \notin f.dir[i].perm
  BY <1>1, <1>2 DEF Failed, FsOK
<1>3. CASE ~ (i = 0 \/ "w" \notin f.dir[i].perm)
  <2>1. DirOK(d) /\ DOMAIN f = Fields /\ i \in DOMAIN d /\ d[i].name = old
    BY <1>3, FindFacts DEF FsOK
  <2>2. /\ j = 0 => \A m \in DOMAIN d : d[m].name # new
        /\ j # 0 => j \in DOMAIN d /\ d[j].name = new
    BY FindFacts DEF FsOK
  <2>3. IsEntry(d[i])
    BY <2>1 DEF DirOK
  <2> HIDE DEF i, j
  <2>4. IsEntry(e) /\ e.name = new /\ e.at = d[i].at
    <3> HIDE DEF d
    <3> QED BY <2>3 DEF IsEntry
  <2>5. /\ DOMAIN renamed = Fields /\ renamed.dir = [d EXCEPT ![i] = e]
        /\ renamed.disk = f.disk /\ renamed.damage = f.damage
    BY <2>1 DEF Fields
  <2>6. /\ renamed.dir \in Seq(Range(renamed.dir)) /\ DOMAIN renamed.dir = DOMAIN d
        /\ \A m \in DOMAIN d : renamed.dir[m] = IF m = i THEN e ELSE d[m]
    <3> HIDE DEF renamed, e
    <3>1. Len(d) \in Nat /\ DOMAIN d = 1..Len(d)
      BY <2>1, DirFacts
    <3> HIDE DEF d
    <3>2. DOMAIN renamed.dir = 1..Len(d)
          /\ renamed.dir = [m \in 1..Len(d) |-> renamed.dir[m]]
      BY <2>5, <3>1
    <3>3. renamed.dir \in Seq(Range(renamed.dir))
      BY <3>1, <3>2, SequenceOfItself
    <3>4. \A m \in DOMAIN d : [d EXCEPT ![i] = e][m] = IF m = i THEN e ELSE d[m]
      OBVIOUS
    <3> QED BY <2>5, <3>1, <3>2, <3>3, <3>4
  <2> HIDE DEF renamed, e
  <2>7. \A m \in DOMAIN d : IsEntry(renamed.dir[m])
    BY <2>1, <2>4, <2>6 DEF DirOK
  <2>8. \A m, n \in DOMAIN d \ {j} :
           renamed.dir[m].name = renamed.dir[n].name \/ renamed.dir[m].at = renamed.dir[n].at
           => m = n
    BY <2>1, <2>2, <2>4, <2>6 DEF DirOK
  <2>9. j = 0 => FsOK(renamed)
    <3> HAVE j = 0
    <3>1. j \notin DOMAIN d
      BY <2>1, DirFacts
    <3>2. DirOK(renamed.dir)
      BY <2>6, <2>7, <2>8, <3>1 DEF DirOK
    <3> QED BY <2>5, <3>2, DirReplaced
  <2>10. j # 0 => FsOK(gone) /\ gone.damage = f.damage
    <3> HAVE j # 0
    <3>1. /\ DOMAIN gone = Fields /\ gone.dir = RemoveAt(renamed.dir, j)
          /\ gone.disk = f.disk /\ gone.damage = f.damage
      BY <2>5 DEF Delete, Fields
    <3>2. DirOK(RemoveAt(renamed.dir, j))
      BY <2>2, <2>6, <2>7, <2>8, EntryRemoved
    <3> HIDE DEF gone
    <3> QED BY <3>1, <3>2, DirReplaced
  <2> HIDE DEF gone
  <2>11. j # 0 => FsOK(over) /\ f.damage \subseteq over.damage
    <3> HAVE j # 0
    <3>1. /\ DOMAIN over = Fields /\ over.dir = gone.dir /\ over.disk = gone.disk
          /\ f.damage \subseteq over.damage
      BY <2>10 DEF FsOK, Fields
    <3> HIDE DEF over
    <3> QED BY <2>10, <3>1 DEF FsOK
  <2>12. /\ "mv_over_readonly" \in double.damage /\ f.damage \subseteq double.damage
         /\ DOMAIN double = Fields
    BY <2>5 DEF Fields
  <2> HIDE DEF over, double
  <2> QED BY <1>1, <1>3, <2>5, <2>9, <2>11, <2>12 DEF Done, FsOK
<1> QED BY <1>2, <1>3

\* chmodFile keeps names and addresses.
LEMMA ChmodFileOK ==
  ASSUME NEW f, FsOK(f), NEW name, NEW perm
  PROVE  LET r == chmodFile(f, name, perm)
         IN  FsOK(r.fs) /\ f.damage \subseteq r.fs.damage
<1> DEFINE i == Find(f, name)
           d == f.dir
           e == [d[i] EXCEPT !.perm = perm]
           g == [f EXCEPT !.dir[i].perm = perm]
<1>1. CASE i = 0
  BY <1>1 DEF chmodFile, Failed
<1>2. CASE i # 0
  <2>1. DirOK(d) /\ DOMAIN f = Fields /\ i \in DOMAIN d
    BY <1>2, FindFacts DEF FsOK
  <2>2. IsEntry(d[i])
    BY <2>1 DEF DirOK
  <2>3. chmodFile(f, name, perm) = Done(g)
    BY <1>2 DEF chmodFile
  <2> HIDE DEF i
  <2>4. IsEntry(e) /\ e.name = d[i].name /\ e.at = d[i].at
    <3> HIDE DEF d
    <3> QED BY <2>2 DEF IsEntry
  <2>5. /\ DOMAIN g = Fields /\ g.dir = [d EXCEPT ![i] = e]
        /\ g.disk = f.disk /\ g.damage = f.damage
    BY <2>1 DEF Fields
  <2> HIDE DEF g, e
  <2>6. SameEntries(d, g.dir)
    BY <2>1, <2>4, <2>5, EntryReplaced
  <2>7. FsOK(g)
    BY <2>1, <2>5, <2>6, SameEntriesOK, DirReplaced
  <2> QED BY <2>3, <2>5, <2>7 DEF Done
<1> QED BY <1>1, <1>2

\* saveFat takes no flag back.
LEMMA SaveFatGrows ==
  ASSUME NEW f, DOMAIN f = Fields
  PROVE  f.damage \subseteq saveFat(f).damage
<1> DEFINE h == [f EXCEPT !.disk = f.dir]
<1>1. \A t : [f EXCEPT !.blocks = t].damage = f.damage
  BY DEF Fields
<1>2. DOMAIN h = Fields /\ h.damage = f.damage
  BY DEF Fields
<1> HIDE DEF h
<1>3. \A g : Beside(h, Terminate(h, g))
  BY <1>2, TerminateBeside
<1> QED BY <1>1, <1>2, <1>3 DEF saveFat, Beside, h

\* saveFat leaves the directory alone and may put it on disk.
LEMMA SaveFatOK ==
  ASSUME NEW f, FsOK(f)
  PROVE  FsOK(saveFat(f)) /\ saveFat(f).dir = f.dir /\ f.damage \subseteq saveFat(f).damage
<1> DEFINE h == [f EXCEPT !.disk = f.dir]
<1>1. ASSUME NEW t
      PROVE  LET g == [f EXCEPT !.blocks = t]
             IN  FsOK(g) /\ g.dir = f.dir /\ g.damage = f.damage
  BY DEF FsOK, Fields
<1>2. FsOK(h) /\ h.dir = f.dir /\ h.damage = f.damage
  BY DEF FsOK, Fields
<1> HIDE DEF h
<1>3. \A g : Beside(h, Terminate(h, g))
  BY <1>2, TerminateBeside DEF FsOK
<1>4. \A g : FsOK(Terminate(h, g)) /\ Terminate(h, g).dir = f.dir
             /\ f.damage \subseteq Terminate(h, g).damage
  BY <1>2, <1>3 DEF Beside, FsOK
<1> QED BY <1>1, <1>4 DEF saveFat, h

\* What is done between two commands.
LEMMA SettledOK ==
  ASSUME NEW f, FsOK(f)
  PROVE  LET g == Settle(Unsaved(f))
         IN  FsOK(g) /\ g.dir = f.dir /\ g.damage = f.damage
<1> DEFINE h == Unsaved(f)
<1>1. FsOK(h) /\ h.dir = f.dir /\ h.damage = f.damage
  BY DEF Unsaved, FsOK, Fields
<1> HIDE DEF h
<1>2. ASSUME NEW S
      PROVE  LET g == [h EXCEPT !.data = Restrict(@, DOMAIN @ \cap S)]
             IN  FsOK(g) /\ g.dir = h.dir /\ g.damage = h.damage
  BY <1>1 DEF FsOK, Fields
<1> QED BY <1>1, <1>2 DEF Settle, h

\* A file system that is loaded again after the directory was given up.
LEMMA ReloadedOK ==
  ASSUME NEW f, FsOK(f), freeFat(f).damage \subseteq Situations
  PROVE  FsOK(Settle(loadFat(freeFat(f))))
<1> DEFINE g == freeFat(f)
           h == loadFat(g)
<1>1. /\ DOMAIN g = Fields /\ g.disk = f.disk
      /\ f.dir # f.disk => "load_unsaved" \in g.damage
  BY DEF freeFat, FsOK, Fields, Flag
<1>2. DirOK(f.disk)
  BY <1>1 DEF FsOK
<1> HIDE DEF g
<1>3. DOMAIN h = Fields /\ h.dir = f.disk /\ h.disk = f.disk
  BY <1>1 DEF loadFat, Fields
<1>4. FsOK(h)
  BY <1>2, <1>3 DEF FsOK
<1> HIDE DEF h
<1>5. ASSUME NEW S PROVE FsOK([h EXCEPT !.data = Restrict(@, DOMAIN @ \cap S)])
  BY <1>4 DEF FsOK, Fields
<1> QED BY <1>5 DEF Settle, h, g

\* The type of a file system, with names and addresses that lead to one entry.
LEMMA TypedOK ==
  ASSUME NEW f, IsFileSystem(f), f.disk = f.dir,
         \A i, j \in DOMAIN f.dir :
           f.dir[i].name = f.dir[j].name \/ f.dir[i].at = f.dir[j].at => i = j
  PROVE  FsOK(f)
<1>1. f.dir \in Seq(Entry) /\ DOMAIN f = Fields
  BY DEF IsFileSystem, Fields
<1>2. f.dir \in Seq(Range(f.dir)) /\ \A i \in DOMAIN f.dir : f.dir[i] \in Entry
  BY <1>1, SeqOfRange, LenProperties, ElementOfSeq
<1>3. \A e \in Entry : IsEntry(e)
  BY DEF Entry, IsEntry
<1> QED BY <1>1, <1>2, <1>3 DEF FsOK, DirOK
-----------------------------------------------------------------------------
(***************************************************************************)
(* Induction and recursion up to a number.                                 *)
(***************************************************************************)
\* What holds of 0, and of i + 1 if it holds of i, holds up to n.
LEMMA UpTo ==
  ASSUME NEW n \in Nat, NEW T, 0 \in T, \A i \in 0..(n - 1) : i \in T => i + 1 \in T
  PROVE  \A i \in 0..n : i \in T
<1> SUFFICES ASSUME NEW k \in 0..n, k \notin T PROVE FALSE
  OBVIOUS
<1> DEFINE U == {i \in 0..n : i \notin T}
<1>1. PICK m \in U : \A i \in U : m <= i
  <2>1. U \subseteq Nat /\ U # {}
    OBVIOUS
  <2> HIDE DEF U
  <2> QED BY <2>1, MinOfNaturals
<1>2. m \in 0..n /\ m \notin T /\ m # 0
  BY <1>1
<1>3. m - 1 \in 0..(n - 1) /\ m - 1 \notin U
  BY <1>1, <1>2
<1>4. m - 1 \in T /\ (m - 1) + 1 = m
  BY <1>2, <1>3
<1> QED BY <1>2, <1>3, <1>4

\* f takes one step after the other from base on.
StepsOf(f, n, S, base, step) ==
  /\ f \in [0..n -> S]
  /\ \A i \in 0..n : f[i] = IF i = 0 THEN base ELSE step[f[i - 1]]

\* A function on 0..n may be defined by what leads from one value to the next.
LEMMA Recursion ==
  ASSUME NEW n \in Nat, NEW S, NEW base \in S, NEW step \in [S -> S]
  PROVE  \E f : StepsOf(f, n, S, base, step)
<1> DEFINE T == {k \in 0..n : \E f : StepsOf(f, k, S, base, step)}
<1>1. 0 \in T
  <2>1. StepsOf([i \in 0..0 |-> base], 0, S, base, step)
    BY DEF StepsOf
  <2> QED BY <2>1
<1>2. ASSUME NEW k \in 0..(n - 1), k \in T PROVE k + 1 \in T
  <2>1. PICK f : StepsOf(f, k, S, base, step)
    BY <1>2
  <2> DEFINE g == [i \in 0..(k + 1) |-> IF i = k + 1 THEN step[f[k]] ELSE f[i]]
  <2>2. g \in [0..(k + 1) -> S]
    BY <2>1 DEF StepsOf
  <2>3. ASSUME NEW i \in 0..(k + 1) PROVE g[i] = IF i = 0 THEN base ELSE step[g[i - 1]]
    <3>1. CASE i = k + 1
      BY <3>1
    <3>2. CASE i # k + 1
      BY <2>1, <3>2 DEF StepsOf
    <3> QED BY <3>1, <3>2
  <2>4. StepsOf(g, k + 1, S, base, step)
    <3> HIDE DEF g
    <3> QED BY <2>2, <2>3 DEF StepsOf
  <2> QED BY <2>4
<1>3. n \in T
  <2> HIDE DEF T
  <2> QED BY <1>1, <1>2, UpTo
<1> QED BY <1>3

\* The tables: only entry 0 may hold the header.
Links ==
  {t \in [Index -> Index \cup {Eof, Header}] : \A b \in Index \ {0} : t[b] # Header}

\* p goes through n different blocks, each linked to the next.
IsPath(t, p, n) ==
  /\ p \in [1..n -> Index \ {0}]
  /\ \A i, j \in 1..n : p[i] = p[j] => i = j
  /\ \A j \in 1..(n - 1) : t[p[j]] = p[j + 1]

Through(p, n) == {p[j] : j \in 1..n}

\* The numbers up to n are n.
LEMMA UpToCounted ==
  ASSUME NEW n \in Nat
  PROVE  IsFiniteSet(1..n) /\ Cardinality(1..n) = n
<1>1. IsFiniteSet(1..n) /\ Cardinality(1..n) = IF 1 > n THEN 0 ELSE n - 1 + 1
  BY ONLY FS_Interval, n \in Nat
<1> QED BY <1>1

\* So are the members of a list of n that are all different.
LEMMA PathCounted ==
  ASSUME NEW n \in Nat, NEW S, NEW p \in [1..n -> S], \A i, j \in 1..n : p[i] = p[j] => i = j
  PROVE  IsFiniteSet(Through(p, n)) /\ Cardinality(Through(p, n)) = n
<1>1. p \in Bijection(1..n, Through(p, n))
  <2>1. p \in [1..n -> Through(p, n)]
    BY DEF Through
  <2>2. \A x \in Through(p, n) : \E i \in 1..n : p[i] = x
    BY DEF Through
  <2> QED BY <2>1, <2>2 DEF Bijection, Injection, Surjection, IsInjective
<1>2. ExistsBijection(1..n, Through(p, n))
  BY <1>1 DEF ExistsBijection
<1> QED BY <1>2, UpToCounted, FS_Bijection

\* How many entries the table has, and how many of them are data.
LEMMA BlocksCounted ==
  /\ IsFiniteSet(Index) /\ Cardinality(Index) = NumEntries
  /\ IsFiniteSet(Data) /\ Cardinality(Data) = NumEntries - 2
<1>1. PICK n \in Nat \ {0, 1} : n = NumEntries - 1
  BY FatAssumption
<1>2. IsFiniteSet(0..n) /\ Cardinality(0..n) = IF 0 > n THEN 0 ELSE n - 0 + 1
  BY ONLY FS_Interval, n \in Nat
<1>3. IsFiniteSet(2..n) /\ Cardinality(2..n) = IF 2 > n THEN 0 ELSE n - 2 + 1
  BY ONLY FS_Interval, n \in Nat
<1> QED BY <1>1, <1>2, <1>3, FatAssumption DEF Index, Data

\* The walk is the function by which it is defined.
LEMMA WalkIs ==
  ASSUME NEW t, NEW b \in Index
  PROVE  Walk(t, b) = [i \in 0..NumEntries |->
                         IF i = 0 THEN b
                         ELSE LET c == Walk(t, b)[i - 1]
                              IN  IF c = End \/ t[c] \notin Index \ {0} THEN End ELSE t[c]]
<1> DEFINE S == Index \cup {End}
           step == [c \in S |-> IF c = End \/ t[c] \notin Index \ {0} THEN End ELSE t[c]]
<1>1. PICK w : StepsOf(w, NumEntries, S, b, step)
  <2>1. step \in [S -> S] /\ b \in S /\ NumEntries \in Nat
    BY FatAssumption
  <2> HIDE DEF step, S
  <2> QED BY ONLY <2>1, Recursion
<1>2. w = [i \in 0..NumEntries |->
             IF i = 0 THEN b
             ELSE LET c == w[i - 1]
                  IN  IF c = End \/ t[c] \notin Index \ {0} THEN End ELSE t[c]]
  <2>1. \A i \in 0..NumEntries : i # 0 => w[i - 1] \in S
    BY <1>1, FatAssumption DEF StepsOf
  <2>2. \A i \in 0..NumEntries : i # 0 =>
           step[w[i - 1]] = LET c == w[i - 1]
                            IN  IF c = End \/ t[c] \notin Index \ {0} THEN End ELSE t[c]
    BY <2>1
  <2> HIDE DEF step
  <2> QED BY <1>1, <2>2 DEF StepsOf
<1> HIDE DEF S, step
<1> QED BY <1>2 DEF Walk

\* The walk along such a path, the last link of which leads nowhere.
LEMMA WalkAlong ==
  ASSUME NEW t, NEW n \in Nat \ {0}, NEW p, IsPath(t, p, n),
         t[p[n]] \notin Index \ {0}
  PROVE  /\ p[1] \in Index \ {0} /\ n <= NumEntries - 1
         /\ \A i \in 0..NumEntries : Walk(t, p[1])[i] = IF i < n THEN p[i + 1] ELSE End
         /\ Chain(t, p[1]) = Through(p, n)
<1>1. /\ p \in [1..n -> Index \ {0}] /\ \A i \in 1..n : p[i] \in Index \ {0} /\ p[i] # End
      /\ NumEntries \in Nat /\ NumEntries > 2
  BY FatAssumption DEF IsPath, Index, End
<1>2. n <= NumEntries - 1
  <2>1. IsFiniteSet(Index \ {0}) /\ Cardinality(Index \ {0}) = NumEntries - 1
    <3>1. 0 \in Index /\ IsFiniteSet(Index) /\ Cardinality(Index) = NumEntries
      BY BlocksCounted, FatAssumption DEF Index
    <3> QED BY <3>1, FS_RemoveElement
  <2>2. Through(p, n) \subseteq Index \ {0}
    BY <1>1 DEF Through
  <2>3. IsFiniteSet(Through(p, n)) /\ Cardinality(Through(p, n)) = n
    BY PathCounted DEF IsPath
  <2> QED BY <2>1, <2>2, <2>3, FS_Subset
<1> DEFINE w == Walk(t, p[1])
           Here(i) == w[i] = IF i < n THEN p[i + 1] ELSE End
<1>3. \A i \in 0..NumEntries : Here(i)
  <2> DEFINE T == {i \in 0..NumEntries : Here(i)}
  <2>1. \A i \in 0..NumEntries : w[i] =
               IF i = 0 THEN p[1]
               ELSE LET c == w[i - 1]
                    IN  IF c = End \/ t[c] \notin Index \ {0} THEN End ELSE t[c]
    <3>1. PICK b \in Index : b = p[1]
      BY <1>1
    <3>2. Walk(t, b) = [i \in 0..NumEntries |->
                         IF i = 0 THEN b
                         ELSE LET c == Walk(t, b)[i - 1]
                              IN  IF c = End \/ t[c] \notin Index \ {0} THEN End ELSE t[c]]
      BY WalkIs
    <3>3. w = Walk(t, b)
      BY <3>1
    <3> HIDE DEF w
    <3> QED BY ONLY <3>1, <3>2, <3>3
  <2> HIDE DEF w
  <2>2. 0 \in T
    BY <1>1, <2>1
  <2>3. ASSUME NEW i \in 0..(NumEntries - 1), i \in T PROVE i + 1 \in T
    <3>1. w[i + 1] = LET c == w[i]
                     IN  IF c = End \/ t[c] \notin Index \ {0} THEN End ELSE t[c]
      <4>1. i + 1 \in 0..NumEntries /\ i + 1 # 0 /\ (i + 1) - 1 = i
        BY <1>1
      <4> QED BY <2>1, <4>1
    <3>2. CASE i + 1 < n
      <4>1. i + 1 \in 1..(n - 1) /\ i + 2 \in 1..n
        BY <1>1, <3>2
      <4>2. w[i] = p[i + 1] /\ t[p[i + 1]] = p[i + 2] /\ p[i + 2] \in Index \ {0}
        BY <1>1, <2>3, <3>2, <4>1 DEF IsPath
      <4>3. p[i + 1] # End
        BY <1>1, <4>1
      <4> QED BY <1>1, <3>1, <3>2, <4>2, <4>3
    <3>3. CASE i + 1 = n
      <4>1. w[i] = p[n]
        BY <1>1, <2>3, <3>3
      <4> QED BY <1>1, <3>1, <3>3, <4>1
    <3>4. CASE i >= n
      <4>1. w[i] = End
        BY <1>1, <2>3, <3>4
      <4> QED BY <1>1, <3>1, <3>4, <4>1
    <3>5. i + 1 < n \/ i + 1 = n \/ i >= n
      BY <1>1
    <3> QED BY <3>2, <3>3, <3>4, <3>5
  <2>4. \A i \in 0..NumEntries : i \in T
    <3> HIDE DEF T
    <3> QED BY <1>1, <2>2, <2>3, UpTo
  <2> QED BY <2>4
<1> HIDE DEF w
<1>4. {w[i] : i \in 0..NumEntries} \ {End} = Through(p, n)
  <2>1. \A i \in 1..n : i - 1 \in 0..NumEntries /\ w[i - 1] = p[i] /\ p[i] # End
    <3> TAKE i \in 1..n
    <3>1. i - 1 \in 0..NumEntries /\ i - 1 < n /\ (i - 1) + 1 = i
      BY <1>1, <1>2
    <3> QED BY <1>1, <1>3, <3>1
  <2>2. \A i \in 0..NumEntries : w[i] # End => i + 1 \in 1..n /\ w[i] = p[i + 1]
    BY <1>1, <1>3
  <2>3. ASSUME NEW x \in Through(p, n) PROVE x \in {w[i] : i \in 0..NumEntries} \ {End}
    BY <2>1 DEF Through
  <2>4. ASSUME NEW x \in {w[i] : i \in 0..NumEntries} \ {End} PROVE x \in Through(p, n)
    BY <2>2 DEF Through
  <2> QED BY <2>3, <2>4
<1>5. Chain(t, p[1]) = Through(p, n)
  BY <1>4 DEF Chain, w
<1> QED BY <1>1, <1>2, <1>3, <1>5 DEF w

\* From block b a chain of n blocks, the last link of which is one of ends.
IsChain(t, b, n, ends) ==
  \E p : IsPath(t, p, n) /\ p[1] = b /\ t[p[n]] \in ends

\* A mark that ends a chain is no link.
EndLinks(E) == E \cap (Index \ {0}) = {}

\* A chain of n blocks has n members, and one of them its last link.
LEMMA ChainFacts ==
  ASSUME NEW t, NEW n \in Nat \ {0}, NEW b, NEW E, EndLinks(E), IsChain(t, b, n, E)
  PROVE  /\ b \in Chain(t, b) /\ Chain(t, b) \subseteq Index \ {0}
         /\ IsFiniteSet(Chain(t, b)) /\ Cardinality(Chain(t, b)) = n
         /\ \E c \in Chain(t, b) :
              t[c] \in E /\ \A d \in Chain(t, b) \ {c} : t[d] \in Chain(t, b)
<1>1. PICK p : IsPath(t, p, n) /\ p[1] = b /\ t[p[n]] \in E
  BY DEF IsChain
<1>2. Chain(t, b) = Through(p, n)
  BY <1>1, WalkAlong DEF EndLinks
<1>3. p \in [1..n -> Index \ {0}] /\ 1 \in 1..n /\ n \in 1..n
  BY <1>1 DEF IsPath
<1>4. Chain(t, b) \subseteq Index \ {0} /\ b \in Chain(t, b) /\ p[n] \in Chain(t, b)
  BY <1>1, <1>2, <1>3 DEF Through
<1>5. IsFiniteSet(Chain(t, b)) /\ Cardinality(Chain(t, b)) = n
  <2>1. IsPath(t, p, n)
    BY <1>1
  <2> QED BY <1>2, <2>1, PathCounted DEF IsPath
<1>6. ASSUME NEW d \in Chain(t, b) \ {p[n]} PROVE t[d] \in Chain(t, b)
  <2>1. PICK j \in 1..n : d = p[j] /\ j # n
    BY <1>2 DEF Through
  <2>2. j \in 1..(n - 1) /\ j + 1 \in 1..n
    BY <2>1
  <2> QED BY <1>1, <1>2, <2>1, <2>2 DEF IsPath, Through
<1> QED BY <1>1, <1>4, <1>5, <1>6

\* A chain stays as it is while its links do.
LEMMA ChainStays ==
  ASSUME NEW t, NEW u, NEW n \in Nat \ {0}, NEW b, NEW E, EndLinks(E),
         IsChain(t, b, n, E), \A c \in Chain(t, b) : u[c] = t[c]
  PROVE  IsChain(u, b, n, E) /\ Chain(u, b) = Chain(t, b)
<1>1. PICK p : IsPath(t, p, n) /\ p[1] = b /\ t[p[n]] \in E
  BY DEF IsChain
<1>2. Chain(t, b) = Through(p, n)
  BY <1>1, WalkAlong DEF EndLinks
<1>3. \A j \in 1..n : u[p[j]] = t[p[j]]
  BY <1>2 DEF Through
<1>4. IsPath(u, p, n) /\ u[p[n]] \in E
  <2>1. n \in 1..n /\ \A j \in 1..(n - 1) : j \in 1..n
    OBVIOUS
  <2> QED BY <1>1, <1>3, <2>1 DEF IsPath
<1>5. Chain(u, b) = Through(p, n)
  BY <1>1, <1>4, WalkAlong DEF EndLinks
<1> QED BY <1>1, <1>2, <1>4, <1>5 DEF IsChain

-----------------------------------------------------------------------------
\* The block to go on with.
LEMMA NextBlockFacts ==
  ASSUME NEW t, NEW c \in Index \ {0}
  PROVE  LET next == NextBlock(t, c)
         IN  /\ next \in Data
             /\ c + 1 < NumEntries => next > c
             /\ c + 1 >= NumEntries /\ t[next] = 0 => \A b \in Free(t) \ {1} : next <= b
<1> DEFINE m == IF c + 1 >= NumEntries THEN 2 ELSE c + 1
           found == {b \in Free(t) : b >= m}
<1>1. /\ c \in Nat /\ c # 0 /\ c < NumEntries /\ NumEntries \in Nat /\ NumEntries > 2
      /\ Free(t) \subseteq Nat
  BY FatAssumption DEF Index, Free
<1>2. m \in Data /\ (c + 1 < NumEntries => m > c) /\ (c + 1 >= NumEntries => m = 2)
  BY <1>1 DEF Data
<1>3. found \subseteq Nat /\ \A b \in found : b \in Data /\ b >= m
  BY <1>1, <1>2 DEF Free, Data, Index
<1>4. NextBlock(t, c) = IF found = {} THEN m ELSE Min(found)
  BY DEF NextBlock, FirstFree
<1>5. \A b \in Free(t) \ {1} : b >= 2
  BY <1>1 DEF Free, Index
<1>6. CASE found = {}
  <2>1. m \in Index \ {0} /\ ~ (m \in Free(t))
    BY <1>2, <1>6, FatAssumption DEF Data, Index
  <2>2. t[m] # 0
    BY <2>1 DEF Free
  <2> QED BY <1>2, <1>4, <1>6, <2>2
<1>7. CASE found # {}
  <2>1. Min(found) \in found /\ \A b \in found : Min(found) <= b
    BY <1>3, <1>7, MinOfNaturals
  <2>2. c + 1 >= NumEntries => \A b \in Free(t) \ {1} : b \in found
    BY <1>2, <1>5
  <2>3. Min(found) \in Data /\ Min(found) >= m
    BY <1>3, <2>1
  <2>4. c + 1 < NumEntries => Min(found) > c
    BY <1>1, <1>2, <2>3 DEF Data
  <2> HIDE DEF found, m
  <2> QED BY <1>4, <1>7, <2>1, <2>2, <2>3, <2>4
<1> QED BY <1>6, <1>7

\* The states of the loop and one turn of it.
LoopStates == [links: Links, at: Index \ {0}, host: Nat, clean: BOOLEAN]

Turn(g) ==
  LET next == NextBlock(g.links, g.at)
  IN  IF g.links[g.at] \notin {0, Eof}
        THEN [g EXCEPT !.at = g.links[g.at], !.host = @ + 1]
        ELSE [links |-> [g.links EXCEPT ![g.at] = next], at |-> next,
              host |-> next, clean |-> g.clean /\ g.links[next] = 0]

\* A turn of the loop leads from a state of it to another.
LEMMA TurnTyped ==
  ASSUME NEW g \in LoopStates
  PROVE  Turn(g) \in LoopStates
<1>1. g.links \in Links /\ g.at \in Index \ {0} /\ g.host \in Nat /\ g.clean \in BOOLEAN
  BY DEF LoopStates
<1> DEFINE next == NextBlock(g.links, g.at)
<1>2. next \in Data
  BY <1>1, NextBlockFacts
<1> HIDE DEF next
<1>3. next \in Index \ {0} /\ next \in Nat
  BY <1>2, FatAssumption DEF Index, Data
<1>4. CASE g.links[g.at] \notin {0, Eof}
  <2>1. g.links[g.at] \in Index \ {0}
    BY <1>1, <1>4 DEF Links
  <2>2. Turn(g) = [g EXCEPT !.at = g.links[g.at], !.host = @ + 1]
    BY <1>4 DEF Turn
  <2>3. Turn(g) = [links |-> g.links, at |-> g.links[g.at], host |-> g.host + 1,
                   clean |-> g.clean]
    BY <2>2 DEF LoopStates
  <2> QED BY <1>1, <2>1, <2>3 DEF LoopStates
<1>5. CASE ~ (g.links[g.at] \notin {0, Eof})
  <2>1. [g.links EXCEPT ![g.at] = next] \in Links
    BY <1>1, <1>3, FatAssumption DEF Links
  <2>2. Turn(g) = [links |-> [g.links EXCEPT ![g.at] = next], at |-> next,
                   host |-> next, clean |-> g.clean /\ g.links[next] = 0]
    BY <1>5 DEF Turn, next
  <2>3. (g.clean /\ g.links[next] = 0) \in BOOLEAN
    BY <1>1
  <2> QED BY <1>3, <2>1, <2>2, <2>3 DEF LoopStates
<1> QED BY <1>4, <1>5

\* The loop takes one turn after the other.
LEMMA GrowIs ==
  ASSUME NEW t \in Links, NEW c \in Index \ {0}, NEW n \in Nat
  PROVE  /\ Grow(t, c, n) \in [0..n -> LoopStates]
         /\ Grow(t, c, n)[0] = [links |-> t, at |-> c, host |-> c, clean |-> TRUE]
         /\ \A i \in 0..(n - 1) : Grow(t, c, n)[i + 1] = Turn(Grow(t, c, n)[i])
<1> DEFINE base == [links |-> t, at |-> c, host |-> c, clean |-> TRUE]
           step == [g \in LoopStates |-> Turn(g)]
<1>1. step \in [LoopStates -> LoopStates]
  BY TurnTyped
<1>2. base \in LoopStates
  BY FatAssumption DEF LoopStates, Index
<1>3. PICK f : StepsOf(f, n, LoopStates, base, step)
  <2> HIDE DEF step, base
  <2> QED BY ONLY <1>1, <1>2, n \in Nat, Recursion
<1>4. \A i \in 0..n : i # 0 => f[i - 1] \in LoopStates /\ step[f[i - 1]] = Turn(f[i - 1])
  BY <1>3 DEF StepsOf
<1> HIDE DEF step, base
<1>5. f = [i \in 0..n |-> IF i = 0 THEN base ELSE Turn(f[i - 1])]
  BY <1>3, <1>4 DEF StepsOf
<1>6. Grow(t, c, n) = CHOOSE h : h = [i \in 0..n |-> IF i = 0 THEN base ELSE Turn(h[i - 1])]
  BY DEF Grow, Turn, base
<1>7. PICK g : g = Grow(t, c, n)
  OBVIOUS
<1>8. g = [i \in 0..n |-> IF i = 0 THEN base ELSE Turn(g[i - 1])]
  BY <1>5, <1>6, <1>7
<1>9. g[0] = base /\ \A i \in 0..(n - 1) : g[i + 1] = Turn(g[i])
  <2>1. \A i \in 0..(n - 1) : i + 1 \in 0..n /\ i + 1 # 0 /\ (i + 1) - 1 = i
    OBVIOUS
  <2> QED BY <1>8, <2>1
<1>10. \A i \in 0..n : g[i] \in LoopStates
  <2> DEFINE T == {i \in 0..n : g[i] \in LoopStates}
  <2>1. 0 \in T
    BY <1>2, <1>9
  <2>2. \A i \in 0..(n - 1) : i \in T => i + 1 \in T
    BY <1>9, TurnTyped
  <2>3. \A i \in 0..n : i \in T
    <3> HIDE DEF T
    <3> QED BY <2>1, <2>2, UpTo
  <2> QED BY <2>3
<1>11. g \in [0..n -> LoopStates]
  BY <1>8, <1>10
<1> QED BY <1>7, <1>9, <1>11 DEF base

\* Loop state g has taken the blocks of s one after the other, of which all but
\* the first, c, were free in t.
Took(t, c, g, s, i) ==
  /\ g \in LoopStates
  /\ s \in [1..(i + 1) -> Index \ {0}] /\ s[1] = c
  /\ \A j, k \in 1..(i + 1) : s[j] = s[k] => j = k
  /\ \A j \in 2..(i + 1) : s[j] \in Free(t) \ {1, c}
  /\ g.at = s[i + 1] /\ g.host = s[i + 1] /\ g.links[s[i + 1]] \in {0, Eof}
  /\ \A j \in 1..i : g.links[s[j]] = s[j + 1]
  /\ \A x \in Index : (\A j \in 1..i : x # s[j]) => g.links[x] = t[x]

\* Path r begins with the n blocks of path s.
Begins(s, r, n) == \A j \in 1..n : r[j] = s[j]

\* A turn of the loop takes one more, if there are more.
LEMMA TurnTakes ==
  ASSUME NEW t, NEW c, NEW g, NEW s, NEW i \in Nat, Took(t, c, g, s, i),
         IsFiniteSet(Free(t) \ {1, c}), i < Cardinality(Free(t) \ {1, c}), Turn(g).clean
  PROVE  g.clean /\ \E r : Took(t, c, Turn(g), r, i + 1) /\ Begins(s, r, i + 1)
<1> DEFINE Rest == Free(t) \ {1, c}
<1>1. PICK u \in Links, at \in Index \ {0} : u = g.links /\ at = g.at
  BY DEF Took, LoopStates
<1>a. /\ at = s[i + 1] /\ u[at] \in {0, Eof}
      /\ \A j \in 1..(i + 1) : s[j] \in Index \ {0}
  BY <1>1 DEF Took
<1>b. PICK next \in Data : next = NextBlock(u, at)
  BY NextBlockFacts
<1>c. PICK h \in LoopStates : h = Turn(g)
  BY TurnTyped DEF Took
<1>2. h = [links |-> [u EXCEPT ![at] = next], at |-> next, host |-> next,
           clean |-> g.clean /\ u[next] = 0]
  BY <1>1, <1>a, <1>b, <1>c DEF Turn
<1>3. g.clean /\ u[next] = 0
  <2>1. h.clean = (g.clean /\ u[next] = 0)
    BY <1>2
  <2>2. h.clean
    BY <1>c
  <2> QED BY <2>1, <2>2
<1>4. /\ at + 1 < NumEntries => next > at
      /\ at + 1 >= NumEntries => \A b \in Free(u) \ {1} : next <= b
  BY <1>3, <1>b, NextBlockFacts
<1>5. /\ next \in Index \ {0, 1} /\ Data \subseteq Index \ {0, 1} /\ NumEntries \in Int
      /\ \A b \in Index : b \in Int /\ b < NumEntries
  BY FatAssumption DEF Data, Index
<1>7. next # at
  <2> SUFFICES ASSUME next = at PROVE FALSE
    OBVIOUS
  <2>1. at + 1 >= NumEntries /\ at = NumEntries - 1 /\ \A b \in Free(u) \ {1} : b = at
    <3>1. at \in Int /\ at < NumEntries /\ NumEntries \in Int
      BY <1>5
    <3>2. ~ (at + 1 < NumEntries)
      <4>1. ~ (at > at)
        BY <3>1
      <4> QED BY <1>4, <4>1
    <3>3. at + 1 >= NumEntries /\ at = NumEntries - 1
      BY ONLY <3>1, <3>2
    <3>4. ASSUME NEW b \in Free(u) \ {1} PROVE b = at
      <4>1. b \in Index
        BY DEF Free
      <4>2. at <= b /\ b < NumEntries /\ b \in Int
        BY <1>4, <1>5, <3>3, <4>1
      <4> QED BY ONLY <3>1, <3>3, <4>2
    <3> QED BY <3>3, <3>4
  <2>2. \A x \in Rest : \E j \in 2..(i + 1) : x = s[j]
    <3> TAKE x \in Rest
    <3>1. x \in Index /\ x # 0 /\ x # 1 /\ x # c /\ t[x] = 0
      BY DEF Free
    <3>2. CASE \E j \in 1..i : x = s[j]
      <4>1. PICK j \in 1..i : x = s[j]
        BY <3>2
      <4>2. j # 1
        BY <3>1, <4>1 DEF Took
      <4> QED BY <4>1, <4>2
    <3>3. CASE \A j \in 1..i : x # s[j]
      <4>1. u[x] = 0
        BY <1>1, <3>1, <3>3 DEF Took
      <4>2. x = at
        BY <2>1, <3>1, <4>1 DEF Free
      <4>3. x = s[i + 1] /\ i + 1 # 1
        BY <1>a, <3>1, <4>2 DEF Took
      <4> QED BY <4>3
    <3> QED BY <3>2, <3>3
  <2>3. PICK r : r = [j \in 1..i |-> s[j + 1]]
    OBVIOUS
  <2>4. \A j \in 1..i : j + 1 \in 1..(i + 1) /\ r[j] = s[j + 1]
    BY <2>3
  <2>5. r \in [1..i -> Index \ {0}] /\ \A j, k \in 1..i : r[j] = r[k] => j = k
    BY <1>a, <2>3, <2>4 DEF Took
  <2>6. IsFiniteSet(Through(r, i)) /\ Cardinality(Through(r, i)) = i
    BY ONLY <2>5, i \in Nat, PathCounted
  <2>7. ASSUME NEW x \in Rest PROVE x \in Through(r, i)
    <3>1. PICK j \in 2..(i + 1) : x = s[j]
      BY <2>2
    <3>2. j - 1 \in 1..i /\ r[j - 1] = x
      BY <2>3, <3>1
    <3> QED BY <3>2 DEF Through
  <2>8. Cardinality(Rest) \in Nat /\ Cardinality(Rest) <= i
    BY <2>6, <2>7, FS_Subset, FS_CardinalityType
  <2> QED BY <2>8
<1>8. \A j \in 1..(i + 1) : next # s[j]
  <2> TAKE j \in 1..(i + 1)
  <2>1. CASE j = i + 1
    BY <1>a, <1>7, <2>1
  <2>2. CASE j # i + 1
    <3>1. j \in 1..i /\ j + 1 \in 1..(i + 1)
      BY <2>2
    <3>2. u[s[j]] = s[j + 1] /\ s[j + 1] # 0
      BY <1>1, <1>a, <3>1 DEF Took
    <3> QED BY <1>3, <3>2
  <2> QED BY <2>1, <2>2
<1>9. t[next] = 0 /\ next # c
  <2>1. 1 \in 1..(i + 1) /\ \A j \in 1..i : j \in 1..(i + 1)
    OBVIOUS
  <2> QED BY <1>1, <1>3, <1>5, <1>8, <2>1 DEF Took
<1>10. PICK r : r = [j \in 1..(i + 2) |-> IF j = i + 2 THEN next ELSE s[j]]
  OBVIOUS
<1>11. r[i + 2] = next /\ \A j \in 1..(i + 1) : r[j] = s[j]
  BY <1>10
<1>12. /\ r \in [1..(i + 2) -> Index \ {0}] /\ r[1] = c
       /\ \A j, k \in 1..(i + 2) : r[j] = r[k] => j = k
       /\ \A j \in 2..(i + 2) : r[j] \in Free(t) \ {1, c}
  <2>1. r \in [1..(i + 2) -> Index \ {0}]
    BY <1>a, <1>5, <1>10
  <2>2. r[1] = c
    BY <1>11 DEF Took
  <2>3. ASSUME NEW j \in 1..(i + 2), NEW k \in 1..(i + 2), r[j] = r[k] PROVE j = k
    <3>1. CASE j = i + 2 /\ k = i + 2
      BY <3>1
    <3>2. CASE j = i + 2 /\ k # i + 2
      BY <1>8, <1>11, <2>3, <3>2
    <3>3. CASE j # i + 2 /\ k = i + 2
      BY <1>8, <1>11, <2>3, <3>3
    <3>4. CASE j # i + 2 /\ k # i + 2
      <4>1. j \in 1..(i + 1) /\ k \in 1..(i + 1)
        BY <3>4
      <4> QED BY <1>11, <2>3, <4>1 DEF Took
    <3> QED BY <3>1, <3>2, <3>3, <3>4
  <2>4. ASSUME NEW j \in 2..(i + 2) PROVE r[j] \in Free(t) \ {1, c}
    <3>1. CASE j = i + 2
      BY <1>5, <1>9, <1>11, <3>1 DEF Free
    <3>2. CASE j # i + 2
      <4>1. j \in 2..(i + 1) /\ j \in 1..(i + 1)
        BY <3>2
      <4> QED BY <1>11, <4>1 DEF Took
    <3> QED BY <3>1, <3>2
  <2> QED BY <2>1, <2>2, <2>3, <2>4
<1>13. h.at = r[i + 2] /\ h.host = r[i + 2] /\ h.links[r[i + 2]] = 0
  <2>1. h.links[next] = u[next]
    BY <1>a, <1>2, <1>5, <1>7 DEF Links
  <2> QED BY <1>2, <1>3, <1>11, <2>1
<1>14. ASSUME NEW j \in 1..(i + 1) PROVE h.links[r[j]] = r[j + 1]
  <2>1. j + 1 \in 1..(i + 2) /\ r[j] = s[j] /\ s[j] \in Index
    BY <1>a, <1>11
  <2>2. CASE j = i + 1
    BY <1>a, <1>2, <1>11, <2>1, <2>2 DEF Links
  <2>3. CASE j # i + 1
    <3>1. j \in 1..i /\ j + 1 \in 1..(i + 1)
      BY <2>3
    <3>2. s[j] # at
      BY <1>a, <2>3 DEF Took
    <3>3. u[s[j]] = s[j + 1]
      BY <1>1, <3>1 DEF Took
    <3>4. h.links[s[j]] = u[s[j]]
      BY <1>a, <1>2, <2>1, <3>2 DEF Links
    <3> QED BY <1>11, <2>1, <3>1, <3>3, <3>4
  <2> QED BY <2>2, <2>3
<1>15. ASSUME NEW x \in Index, \A j \in 1..(i + 1) : x # r[j] PROVE h.links[x] = t[x]
  <2>1. \A j \in 1..(i + 1) : x # s[j]
    BY <1>11, <1>15
  <2>2. x # at /\ \A j \in 1..i : x # s[j]
    BY <1>a, <2>1
  <2>3. u[x] = t[x]
    BY <1>1, <2>2 DEF Took
  <2> QED BY <1>a, <1>2, <2>2, <2>3 DEF Links
<1>16. (i + 1) + 1 = i + 2
  OBVIOUS
<1>17. Took(t, c, h, r, i + 1)
  BY <1>12, <1>13, <1>14, <1>15, <1>16 DEF Took
<1>18. Begins(s, r, i + 1)
  BY <1>11 DEF Begins
<1> QED BY <1>c, <1>3, <1>17, <1>18

\* What is free can be counted.
LEMMA FreeFinite ==
  ASSUME NEW t, NEW S
  PROVE  /\ IsFiniteSet(Free(t) \ S) /\ Cardinality(Free(t) \ S) \in Nat
         /\ Cardinality(Free(t) \ S) <= Cardinality(Free(t))
<1>1. Free(t) \subseteq Index
  BY DEF Free
<1>2. IsFiniteSet(Free(t))
  BY <1>1, BlocksCounted, FS_Subset
<1>3. Free(t) \ S \subseteq Free(t)
  OBVIOUS
<1> QED BY <1>2, <1>3, FS_Subset, FS_CardinalityType

\* The host file has been positioned at the blocks of s one after the other.
Visited(g, s, i) == \A j \in 0..i : g[j].host = s[j + 1]

\* The loop has met no block in use: every state is one that has taken blocks.
LEMMA GrowTakes ==
  ASSUME NEW t \in Links, NEW c \in Index \ {0}, t[c] \in {0, Eof}, NEW n \in Nat,
         n <= Cardinality(Free(t) \ {1, c}), Grow(t, c, n)[n].clean
  PROVE  \A i \in 0..n : \E s : Took(t, c, Grow(t, c, n)[i], s, i)
                               /\ Visited(Grow(t, c, n), s, i)
<1>1. PICK g : g = Grow(t, c, n)
  OBVIOUS
<1>2. /\ g \in [0..n -> LoopStates] /\ \A i \in 0..(n - 1) : g[i + 1] = Turn(g[i])
      /\ g[0] = [links |-> t, at |-> c, host |-> c, clean |-> TRUE] /\ g[n].clean
  BY <1>1, GrowIs
<1>3. \A i \in 0..n : g[i].clean
  <2> DEFINE T == {i \in 0..n : g[n - i].clean}
  <2>1. 0 \in T
    <3>1. n - 0 = n /\ 0 \in 0..n
      OBVIOUS
    <3> QED BY <1>2, <3>1
  <2>2. ASSUME NEW i \in 0..(n - 1), i \in T PROVE i + 1 \in T
    <3>1. n - (i + 1) \in 0..(n - 1) /\ (n - (i + 1)) + 1 = n - i /\ n - (i + 1) \in 0..n
      OBVIOUS
    <3>2. g[n - i] = Turn(g[n - (i + 1)])
      BY <1>2, <3>1
    <3>3. PICK h \in LoopStates : h = g[n - (i + 1)]
      BY <1>2, <3>1
    <3>4. Turn(h).clean
      BY <2>2, <3>2, <3>3
    <3>5. h.clean
      BY <3>4 DEF Turn, LoopStates
    <3> QED BY <3>3, <3>5
  <2>3. \A i \in 0..n : i \in T
    <3> HIDE DEF T
    <3> QED BY <2>1, <2>2, UpTo
  <2>4. \A i \in 0..n : n - i \in 0..n /\ n - (n - i) = i
    OBVIOUS
  <2> QED BY <2>3, <2>4
<1>4. \A i \in 0..n : \E s : Took(t, c, g[i], s, i) /\ Visited(g, s, i)
  <2> DEFINE T == {i \in 0..n : \E s : Took(t, c, g[i], s, i) /\ Visited(g, s, i)}
  <2>1. 0 \in T
    <3>1. PICK s : s = [j \in 1..1 |-> c]
      OBVIOUS
    <3>2. g[0] \in LoopStates
      <4>1. 0 \in 0..n
        OBVIOUS
      <4> QED BY <1>2, <4>1
    <3>3. 0 + 1 = 1 /\ 1..0 = {} /\ 2..(0 + 1) = {} /\ s[1] = c
          /\ \A j \in 1..(0 + 1) : j = 1
      BY <3>1
    <3>4. s \in [1..(0 + 1) -> Index \ {0}]
      BY <3>1
    <3>5. g[0].at = c /\ g[0].host = c /\ g[0].links = t
      BY <1>2
    <3>6. Took(t, c, g[0], s, 0)
      BY <3>2, <3>3, <3>4, <3>5 DEF Took
    <3>7. Visited(g, s, 0)
      BY <3>3, <3>5 DEF Visited
    <3> QED BY <3>6, <3>7
  <2>2. ASSUME NEW i \in 0..(n - 1), i \in T PROVE i + 1 \in T
    <3>1. PICK s : Took(t, c, g[i], s, i) /\ Visited(g, s, i)
      BY <2>2
    <3>2. i \in Nat /\ i < Cardinality(Free(t) \ {1, c}) /\ i + 1 \in 0..n
          /\ IsFiniteSet(Free(t) \ {1, c})
      <4>1. IsFiniteSet(Free(t) \ {1, c}) /\ Cardinality(Free(t) \ {1, c}) \in Nat
        BY FreeFinite
      <4> QED BY <4>1
    <3>3. g[i + 1] = Turn(g[i]) /\ Turn(g[i]).clean
      BY <1>2, <1>3, <3>2
    <3>4. PICK r : Took(t, c, Turn(g[i]), r, i + 1) /\ Begins(s, r, i + 1)
      BY <3>1, <3>2, <3>3, TurnTakes
    <3>5. Visited(g, r, i + 1)
      <4>1. ASSUME NEW j \in 0..(i + 1) PROVE g[j].host = r[j + 1]
        <5>1. CASE j = i + 1
          BY <3>3, <3>4, <5>1 DEF Took
        <5>2. CASE j # i + 1
          <6>1. j \in 0..i /\ j + 1 \in 1..(i + 1)
            BY <5>2
          <6> QED BY <3>1, <3>4, <6>1 DEF Visited, Begins
        <5> QED BY <5>1, <5>2
      <4> QED BY <4>1 DEF Visited
    <3> QED BY <3>2, <3>3, <3>4, <3>5
  <2>3. \A i \in 0..n : i \in T
    <3> HIDE DEF T
    <3> QED BY <2>1, <2>2, UpTo
  <2> QED BY <2>3
<1> QED BY <1>1, <1>4

\* The blocks the host file is positioned at are blocks of the table.
LEMMA HostsAreBlocks ==
  ASSUME NEW t \in Links, NEW c \in Index \ {0}, t[c] \in {0, Eof}, NEW n \in Nat,
         n <= Cardinality(Free(t) \ {1, c}), Grow(t, c, n)[n].clean
  PROVE  \A i \in 0..n : Grow(t, c, n)[i].host \in Index
<1> TAKE i \in 0..n
<1>1. PICK s : Took(t, c, Grow(t, c, n)[i], s, i)
  BY GrowTakes
<1>2. i + 1 \in 1..(i + 1)
  OBVIOUS
<1> QED BY <1>1, <1>2 DEF Took

\* The file ends where the loop has ended.
Ended(g) == [g.links EXCEPT ![g.at] = Eof]

\* The end mark is not a block: true unless the table has 65536 entries.
EofIsNoBlock == Eof \notin Index

\* Table u has a path s from c on through n blocks that were free in t.
IsTrail(t, u, c, n, s) ==
  /\ u \in Links
  /\ IsPath(u, s, n + 1) /\ s[1] = c /\ u[s[n + 1]] = Eof
  /\ \A j \in 2..(n + 1) : s[j] \in Free(t) \ {1, c}
  /\ \A x \in Index : (\A j \in 1..(n + 1) : x # s[j]) => u[x] = t[x]

\* It has such a path.
GoesOn(t, u, c, n) ==
  /\ u \in Links
  /\ \E s : /\ IsPath(u, s, n + 1) /\ s[1] = c /\ u[s[n + 1]] = Eof
            /\ \A j \in 2..(n + 1) : s[j] \in Free(t) \ {1, c}
            /\ \A x \in Index : (\A j \in 1..(n + 1) : x # s[j]) => u[x] = t[x]

\* What the loop leaves, and where the host file has been positioned.
LEMMA GrowTrail ==
  ASSUME EofIsNoBlock,
         NEW t \in Links, NEW c \in Index \ {0}, t[c] \in {0, Eof}, NEW n \in Nat,
         n <= Cardinality(Free(t) \ {1, c}), Grow(t, c, n)[n].clean
  PROVE  \E s : IsTrail(t, Ended(Grow(t, c, n)[n]), c, n, s) /\ Visited(Grow(t, c, n), s, n)
<1>1. PICK g : g = Grow(t, c, n)[n]
  OBVIOUS
<1>2. PICK s : Took(t, c, g, s, n) /\ Visited(Grow(t, c, n), s, n)
  <2>1. n \in 0..n
    OBVIOUS
  <2> QED BY <1>1, <2>1, GrowTakes
<1>3. PICK u : u = Ended(g)
  OBVIOUS
<1>4. /\ g.links \in Links /\ g.at \in Index \ {0} /\ g.at = s[n + 1]
      /\ \A j \in 1..(n + 1) : s[j] \in Index \ {0}
  BY <1>2 DEF Took, LoopStates
<1>5. u \in Links
  BY <1>3, <1>4, FatAssumption DEF Ended, Links
<1>6. u[g.at] = Eof /\ \A x \in Index : x # g.at => u[x] = g.links[x]
  BY <1>3, <1>4 DEF Ended, Links
<1>7. IsPath(u, s, n + 1)
  <2>1. ASSUME NEW j \in 1..n PROVE u[s[j]] = s[j + 1]
    <3>1. j \in 1..(n + 1) /\ j # n + 1 /\ n + 1 \in 1..(n + 1)
      OBVIOUS
    <3>2. s[j] # s[n + 1] /\ s[j] \in Index
      BY <1>4, <3>1, <1>2 DEF Took
    <3> QED BY <1>2, <1>4, <1>6, <3>2 DEF Took
  <2>2. (n + 1) - 1 = n
    OBVIOUS
  <2> QED BY <1>2, <2>1, <2>2 DEF IsPath, Took
<1>8. ASSUME NEW x \in Index, \A j \in 1..(n + 1) : x # s[j] PROVE u[x] = t[x]
  <2>1. n + 1 \in 1..(n + 1) /\ \A j \in 1..n : j \in 1..(n + 1)
    OBVIOUS
  <2> QED BY <1>2, <1>4, <1>6, <1>8, <2>1 DEF Took
<1>9. s[1] = c /\ u[s[n + 1]] = Eof /\ \A j \in 2..(n + 1) : s[j] \in Free(t) \ {1, c}
  BY <1>2, <1>4, <1>6 DEF Took
<1>10. IsTrail(t, u, c, n, s)
  BY <1>5, <1>7, <1>8, <1>9 DEF IsTrail
<1> QED BY <1>1, <1>2, <1>3, <1>10

\* The same without the trail.
LEMMA GrowPath ==
  ASSUME EofIsNoBlock,
         NEW t \in Links, NEW c \in Index \ {0}, t[c] \in {0, Eof}, NEW n \in Nat,
         n <= Cardinality(Free(t) \ {1, c}), Grow(t, c, n)[n].clean
  PROVE  GoesOn(t, Ended(Grow(t, c, n)[n]), c, n)
<1>1. PICK u : u = Ended(Grow(t, c, n)[n])
  OBVIOUS
<1>2. PICK s : IsTrail(t, u, c, n, s)
  BY <1>1, GrowTrail
<1>3. GoesOn(t, u, c, n)
  BY <1>2 DEF IsTrail, GoesOn
<1> QED BY <1>1, <1>3

\* r is path p followed by path q.
IsJoin(u, r, p, m, q, k) ==
  /\ IsPath(u, r, m + k) /\ r[1] = p[1]
  /\ r[m + k] = IF k = 0 THEN p[m] ELSE q[k]
  /\ Through(r, m + k) = Through(p, m) \cup Through(q, k)
  /\ \A j \in 1..m : r[j] = p[j]
  /\ \A j \in 1..k : r[m + j] = q[j]

\* Two paths, the second of which goes on where the first ends.
LEMMA Joined ==
  ASSUME NEW u, NEW m \in Nat \ {0}, NEW k \in Nat, NEW p, NEW q,
         IsPath(u, p, m), IsPath(u, q, k), k > 0 => u[p[m]] = q[1],
         \A i \in 1..m, j \in 1..k : p[i] # q[j]
  PROVE  \E r : IsJoin(u, r, p, m, q, k)
<1>1. PICK r : r = [j \in 1..(m + k) |-> IF j <= m THEN p[j] ELSE q[j - m]]
  OBVIOUS
<1>2. /\ \A j \in 1..m : r[j] = p[j] /\ p[j] \in Index \ {0}
      /\ \A j \in (m + 1)..(m + k) :
           r[j] = q[j - m] /\ j - m \in 1..k /\ q[j - m] \in Index \ {0}
      /\ 1 \in 1..m /\ m \in 1..m
  BY <1>1 DEF IsPath
<1>3. r \in [1..(m + k) -> Index \ {0}]
  <2>1. \A j \in 1..(m + k) : j \in 1..m \/ j \in (m + 1)..(m + k)
    OBVIOUS
  <2> QED BY <1>1, <1>2, <2>1
<1>4. ASSUME NEW i \in 1..(m + k), NEW j \in 1..(m + k), r[i] = r[j] PROVE i = j
  <2>1. CASE i \in 1..m /\ j \in 1..m
    BY <1>2, <1>4, <2>1 DEF IsPath
  <2>2. CASE i \in (m + 1)..(m + k) /\ j \in (m + 1)..(m + k)
    <3>1. i - m = j - m
      BY <1>2, <1>4, <2>2 DEF IsPath
    <3> QED BY <3>1
  <2>3. CASE i \in 1..m /\ j \in (m + 1)..(m + k)
    BY <1>2, <1>4, <2>3
  <2>4. CASE i \in (m + 1)..(m + k) /\ j \in 1..m
    BY <1>2, <1>4, <2>4
  <2> QED BY <2>1, <2>2, <2>3, <2>4
<1>5. ASSUME NEW j \in 1..(m + k - 1) PROVE u[r[j]] = r[j + 1]
  <2>1. CASE j < m
    <3>1. j \in 1..(m - 1) /\ j \in 1..m /\ j + 1 \in 1..m
      BY <2>1
    <3> QED BY <1>2, <3>1 DEF IsPath
  <2>2. CASE j = m
    <3>1. k > 0 /\ j + 1 \in (m + 1)..(m + k) /\ (j + 1) - m = 1
      BY <2>2
    <3> QED BY <1>2, <2>2, <3>1
  <2>3. CASE j > m
    <3>1. j \in (m + 1)..(m + k) /\ j + 1 \in (m + 1)..(m + k) /\ j - m \in 1..(k - 1)
          /\ (j + 1) - m = (j - m) + 1
      BY <2>3
    <3> QED BY <1>2, <3>1 DEF IsPath
  <2> QED BY <2>1, <2>2, <2>3
<1>6. IsPath(u, r, m + k)
  BY <1>3, <1>4, <1>5 DEF IsPath
<1>7. r[1] = p[1] /\ r[m + k] = IF k = 0 THEN p[m] ELSE q[k]
  <2>1. k # 0 => m + k \in (m + 1)..(m + k) /\ (m + k) - m = k
    OBVIOUS
  <2>2. k = 0 => m + k = m
    OBVIOUS
  <2> QED BY <1>2, <2>1, <2>2
<1>8. Through(r, m + k) = Through(p, m) \cup Through(q, k)
  <2>1. ASSUME NEW x \in Through(r, m + k) PROVE x \in Through(p, m) \cup Through(q, k)
    <3>1. PICK j \in 1..(m + k) : x = r[j]
      BY DEF Through
    <3>2. j \in 1..m \/ j \in (m + 1)..(m + k)
      OBVIOUS
    <3> QED BY <1>2, <3>1, <3>2 DEF Through
  <2>2. ASSUME NEW x \in Through(p, m) PROVE x \in Through(r, m + k)
    <3>1. PICK j \in 1..m : x = p[j]
      BY DEF Through
    <3>2. j \in 1..(m + k)
      OBVIOUS
    <3> QED BY <1>2, <3>1, <3>2 DEF Through
  <2>3. ASSUME NEW x \in Through(q, k) PROVE x \in Through(r, m + k)
    <3>1. PICK j \in 1..k : x = q[j]
      BY DEF Through
    <3>2. m + j \in 1..(m + k) /\ m + j \in (m + 1)..(m + k) /\ (m + j) - m = j
      OBVIOUS
    <3> QED BY <1>2, <3>1, <3>2 DEF Through
  <2> QED BY <2>1, <2>2, <2>3
<1>9. ASSUME NEW j \in 1..k PROVE r[m + j] = q[j]
  <2>1. m + j \in (m + 1)..(m + k) /\ (m + j) - m = j
    OBVIOUS
  <2> QED BY <1>2, <2>1
<1> QED BY <1>2, <1>6, <1>7, <1>8, <1>9 DEF IsJoin

\* Table u is t, but for a chain of m blocks that were free.
TakesOver(t, u, b, m) ==
  /\ u \in Links /\ IsChain(u, b, m, {Eof})
  /\ Chain(u, b) \subseteq Free(t) \ {1}
  /\ \A x \in Index \ Chain(u, b) : u[x] = t[x]

\* The links when the blocks in S have been given back.
Cleared(t, S) == [c \in Index |-> IF c \in S THEN 0 ELSE t[c]]

\* The end mark ends chains.
LEMMA EofEnds ==
  ASSUME EofIsNoBlock
  PROVE  EndLinks({Eof}) /\ EndLinks({0, Eof}) /\ Eof # 0 /\ Eof # Header /\ 0 \in Index
BY FatAssumption DEF EofIsNoBlock, EndLinks, Index

\* Block c taken, one less is free.
LEMMA OneTaken ==
  ASSUME NEW t, NEW c \in Free(t) \ {1}
  PROVE  Cardinality(Free(t) \ {1, c}) = Cardinality(Free(t) \ {1}) - 1
<1>1. IsFiniteSet(Free(t) \ {1}) /\ Free(t) \ {1, c} = (Free(t) \ {1}) \ {c}
  BY FreeFinite
<1> QED BY <1>1, FS_RemoveElement

\* A new file.
LEMMA FreshChain ==
  ASSUME EofIsNoBlock, NEW t \in Links, NEW c \in Free(t) \ {1}, NEW n \in Nat,
         n + 1 <= Cardinality(Free(t) \ {1}), Grow(t, c, n)[n].clean
  PROVE  TakesOver(t, Ended(Grow(t, c, n)[n]), c, n + 1)
<1>1. c \in Index \ {0} /\ t[c] = 0
  BY DEF Free
<1>2. n <= Cardinality(Free(t) \ {1, c})
  <2>1. Cardinality(Free(t) \ {1, c}) = Cardinality(Free(t) \ {1}) - 1
    BY OneTaken
  <2>2. Cardinality(Free(t) \ {1}) \in Nat
    BY FreeFinite
  <2> QED BY ONLY <2>1, <2>2, n \in Nat, n + 1 <= Cardinality(Free(t) \ {1})
<1>3. PICK u : u = Ended(Grow(t, c, n)[n])
  OBVIOUS
<1>4. PICK s : /\ u \in Links
               /\ IsPath(u, s, n + 1) /\ s[1] = c /\ u[s[n + 1]] = Eof
               /\ \A j \in 2..(n + 1) : s[j] \in Free(t) \ {1, c}
               /\ \A x \in Index : (\A j \in 1..(n + 1) : x # s[j]) => u[x] = t[x]
  <2>1. GoesOn(t, u, c, n)
    BY <1>1, <1>2, <1>3, GrowPath
  <2> QED BY <2>1 DEF GoesOn
<1>5. Chain(u, c) = Through(s, n + 1)
  BY <1>4, EofEnds, WalkAlong DEF EndLinks
<1>6. IsChain(u, c, n + 1, {Eof})
  BY <1>4 DEF IsChain
<1>7. Chain(u, c) \subseteq Free(t) \ {1}
  <2>1. \A j \in 1..(n + 1) : j = 1 \/ j \in 2..(n + 1)
    OBVIOUS
  <2> QED BY <1>4, <1>5, <2>1 DEF Through
<1>8. \A x \in Index \ Chain(u, c) : u[x] = t[x]
  BY <1>4, <1>5 DEF Through
<1> QED BY <1>3, <1>4, <1>6, <1>7, <1>8 DEF TakesOver

\* Table u is t, but for a chain of m blocks from block 1 on.
TakesDirectory(t, u, m) ==
  /\ u \in Links /\ IsChain(u, 1, m, {Eof})
  /\ Chain(u, 1) \subseteq Free(t)
  /\ \A x \in Index \ Chain(u, 1) : u[x] = t[x]

\* The chain of the directory.
LEMMA DirectoryChain ==
  ASSUME EofIsNoBlock, NEW t \in Links, t[1] = 0, NEW n \in Nat,
         n <= Cardinality(Free(t) \ {1}), Grow(t, 1, n)[n].clean
  PROVE  TakesDirectory(t, Ended(Grow(t, 1, n)[n]), n + 1)
<1>1. 1 \in Index \ {0} /\ Free(t) \ {1, 1} = Free(t) \ {1}
  BY FatAssumption DEF Index
<1>2. PICK u : u = Ended(Grow(t, 1, n)[n])
  OBVIOUS
<1>3. PICK s : /\ u \in Links
               /\ IsPath(u, s, n + 1) /\ s[1] = 1 /\ u[s[n + 1]] = Eof
               /\ \A j \in 2..(n + 1) : s[j] \in Free(t) \ {1, 1}
               /\ \A x \in Index : (\A j \in 1..(n + 1) : x # s[j]) => u[x] = t[x]
  <2>1. GoesOn(t, u, 1, n)
    BY <1>1, <1>2, GrowPath, t[1] \in {0, Eof}
  <2> QED BY <2>1 DEF GoesOn
<1>4. Chain(u, 1) = Through(s, n + 1)
  BY <1>3, EofEnds, WalkAlong DEF EndLinks
<1>5. Chain(u, 1) \subseteq Free(t)
  <2>1. \A j \in 1..(n + 1) : j = 1 \/ j \in 2..(n + 1)
    OBVIOUS
  <2>2. 1 \in Free(t)
    BY <1>1 DEF Free
  <2> QED BY <1>3, <1>4, <2>1, <2>2 DEF Through
<1>6. IsChain(u, 1, n + 1, {Eof})
  BY <1>3 DEF IsChain
<1>7. \A x \in Index \ Chain(u, 1) : u[x] = t[x]
  BY <1>3, <1>4 DEF Through
<1> QED BY <1>2, <1>3, <1>5, <1>6, <1>7 DEF TakesDirectory

\* p is the chain from b to last.
IsWay(t, p, m, b, last) ==
  /\ IsPath(t, p, m) /\ p[1] = b /\ p[m] = last
  /\ Chain(t, b) = Through(p, m)
  /\ \A j \in 1..m : p[j] \in Index \ {0} /\ t[p[j]] # 0

\* The end of a chain.
LEMMA LastOfChain ==
  ASSUME EofIsNoBlock, NEW t, NEW m \in Nat \ {0}, NEW b, IsChain(t, b, m, {Eof}),
         NEW last \in Chain(t, b), t[last] = Eof
  PROVE  \E p : IsWay(t, p, m, b, last)
<1>1. PICK p : IsPath(t, p, m) /\ p[1] = b /\ t[p[m]] = Eof
  BY DEF IsChain
<1>2. Chain(t, b) = Through(p, m)
  BY <1>1, EofEnds, WalkAlong DEF EndLinks
<1>3. PICK k \in 1..m : last = p[k]
  BY <1>2 DEF Through
<1>4. k = m
  <2> SUFFICES ASSUME k # m PROVE FALSE
    OBVIOUS
  <2>1. k \in 1..(m - 1) /\ k + 1 \in 1..m
    OBVIOUS
  <2>2. t[last] = p[k + 1] /\ p[k + 1] \in Index
    BY <1>1, <1>3, <2>1 DEF IsPath
  <2> QED BY <2>2 DEF EofIsNoBlock
<1>5. ASSUME NEW j \in 1..m PROVE p[j] \in Index \ {0} /\ t[p[j]] # 0
  <2>1. p[j] \in Index \ {0}
    BY <1>1 DEF IsPath
  <2>2. CASE j = m
    BY <1>1, <2>1, <2>2, EofEnds
  <2>3. CASE j # m
    <3>1. j \in 1..(m - 1) /\ j + 1 \in 1..m
      BY <2>3
    <3> QED BY <1>1, <2>1, <3>1 DEF IsPath
  <2> QED BY <2>2, <2>3
<1> QED BY <1>1, <1>2, <1>3, <1>4, <1>5 DEF IsWay

\* r is path p followed by trail s, the first of it being number k + 1 of r.
IsContinued(u, r, p, m, s, n, k) ==
  /\ IsPath(u, r, k + (n + 1)) /\ r[1] = p[1] /\ r[k + (n + 1)] = s[n + 1]
  /\ Through(r, k + (n + 1)) = Through(p, m) \cup Through(s, n + 1)
  /\ Begins(p, r, m) /\ \A j \in 1..(n + 1) : r[k + j] = s[j]

\* A trail that begins with the last block of a chain ...
LEMMA WayExtended ==
  ASSUME NEW t, NEW m \in Nat \ {0}, NEW b, NEW last, NEW p, IsWay(t, p, m, b, last),
         NEW u, NEW n \in Nat, NEW s, IsTrail(t, u, last, n, s)
  PROVE  \E r : IsContinued(u, r, p, m, s, n, m - 1)
<1>1. /\ IsPath(t, p, m) /\ p[1] = b /\ p[m] = last
      /\ \A j \in 1..m : p[j] \in Index \ {0} /\ t[p[j]] # 0
  BY DEF IsWay
<1>2. m \in 1..m /\ 1 \in 1..m
  OBVIOUS
<1>4. /\ IsPath(u, s, n + 1) /\ s[1] = last /\ u[s[n + 1]] = Eof
      /\ \A j \in 2..(n + 1) : s[j] \in Free(t) \ {1, last}
      /\ \A x \in Index : (\A j \in 1..(n + 1) : x # s[j]) => u[x] = t[x]
  BY DEF IsTrail
<1>5. PICK q : q = [j \in 1..n |-> s[j + 1]]
  OBVIOUS
<1>6. \A j \in 1..n : q[j] = s[j + 1] /\ j + 1 \in 1..(n + 1) /\ j + 1 \in 2..(n + 1)
  BY <1>5
<1>7. IsPath(u, q, n)
  <2>1. q \in [1..n -> Index \ {0}]
    BY <1>4, <1>5, <1>6 DEF IsPath
  <2>2. ASSUME NEW i \in 1..n, NEW j \in 1..n, q[i] = q[j] PROVE i = j
    <3>1. i + 1 = j + 1
      BY <1>4, <1>6, <2>2 DEF IsPath
    <3> QED BY <3>1
  <2>3. ASSUME NEW j \in 1..(n - 1) PROVE u[q[j]] = q[j + 1]
    <3>1. j \in 1..n /\ j + 1 \in 1..n /\ j + 1 \in 1..((n + 1) - 1)
      OBVIOUS
    <3> QED BY <1>4, <1>6, <3>1 DEF IsPath
  <2> QED BY <2>1, <2>2, <2>3 DEF IsPath
<1>8. \A i \in 1..m, j \in 1..n : p[i] # q[j]
  BY <1>1, <1>4, <1>6 DEF Free
<1>9. IsPath(u, p, m)
  <2>1. ASSUME NEW j \in 1..(m - 1) PROVE u[p[j]] = p[j + 1]
    <3>1. j \in 1..m /\ j # m
      OBVIOUS
    <3>2. p[j] # last
      BY <1>1, <1>2, <3>1 DEF IsPath
    <3>3. \A k \in 1..(n + 1) : k = 1 \/ k \in 2..(n + 1)
      OBVIOUS
    <3>4. \A k \in 1..(n + 1) : p[j] # s[k]
      BY <1>1, <1>4, <3>1, <3>2, <3>3 DEF Free
    <3> QED BY <1>1, <1>4, <3>1, <3>4 DEF IsPath
  <2> QED BY <1>1, <2>1 DEF IsPath
<1>10. n > 0 => u[p[m]] = q[1]
  <2> HAVE n > 0
  <2>1. 1 \in 1..n /\ 1 \in 1..((n + 1) - 1)
    OBVIOUS
  <2> QED BY <1>1, <1>4, <1>6, <2>1 DEF IsPath
<1>11. PICK r : /\ IsPath(u, r, m + n) /\ r[1] = p[1]
                /\ r[m + n] = IF n = 0 THEN p[m] ELSE q[n]
                /\ Through(r, m + n) = Through(p, m) \cup Through(q, n)
                /\ \A j \in 1..m : r[j] = p[j]
                /\ \A j \in 1..n : r[m + j] = q[j]
  <2>1. \E r : IsJoin(u, r, p, m, q, n)
    BY <1>7, <1>8, <1>9, <1>10, Joined
  <2> QED BY <2>1 DEF IsJoin
<1>12. r[m + n] = s[n + 1]
  <2>1. n # 0 => n \in 1..n
    OBVIOUS
  <2>2. n = 0 => n + 1 = 1
    OBVIOUS
  <2> QED BY <1>1, <1>4, <1>6, <1>11, <2>1, <2>2
<1>13. ASSUME NEW j \in 1..(n + 1) PROVE r[(m - 1) + j] = s[j]
  <2>1. CASE j = 1
    <3>1. (m - 1) + j = m
      BY <2>1
    <3> QED BY <1>1, <1>2, <1>4, <1>11, <2>1, <3>1
  <2>2. CASE j # 1
    <3>1. PICK i \in 1..n : i = j - 1 /\ i + 1 = j /\ (m - 1) + j = m + i
      BY <2>2
    <3> QED BY <1>6, <1>11, <3>1
  <2> QED BY <2>1, <2>2
<1>14. Through(p, m) \cup Through(q, n) = Through(p, m) \cup Through(s, n + 1)
  <2>1. ASSUME NEW x \in Through(q, n) PROVE x \in Through(s, n + 1)
    BY <1>6 DEF Through
  <2>2. ASSUME NEW x \in Through(s, n + 1) PROVE x \in Through(p, m) \cup Through(q, n)
    <3>1. PICK j \in 1..(n + 1) : x = s[j]
      BY DEF Through
    <3>2. CASE j = 1
      BY <1>1, <1>2, <1>4, <3>1, <3>2 DEF Through
    <3>3. CASE j # 1
      <4>1. PICK i \in 1..n : i + 1 = j
        BY <3>3, j - 1 \in 1..n
      <4> QED BY <1>6, <3>1, <4>1 DEF Through
    <3> QED BY <3>2, <3>3
  <2> QED BY <2>1, <2>2
<1>15. (m - 1) + (n + 1) = m + n
  OBVIOUS
<1>16. Begins(p, r, m)
  BY <1>11 DEF Begins
<1>17. IsContinued(u, r, p, m, s, n, m - 1)
  BY <1>11, <1>12, <1>13, <1>14, <1>15, <1>16 DEF IsContinued
<1> QED BY <1>17

\* Links l are t, but for the one from block last to block c.
LinkedTo(t, l, last, c) == l[last] = c /\ \A x \in Index \ {last} : l[x] = t[x]

\* The blocks of s were free in t.
WereFree(t, s, n) == \A j \in 1..(n + 1) : s[j] \in Free(t) \ {1}

\* ... or to which it has been linked.
LEMMA WayLengthened ==
  ASSUME NEW t, NEW m \in Nat \ {0}, NEW b, NEW last, NEW p, IsWay(t, p, m, b, last),
         NEW l, NEW c \in Free(t) \ {1}, LinkedTo(t, l, last, c),
         NEW u, NEW n \in Nat, NEW s, IsTrail(l, u, c, n, s)
  PROVE  WereFree(t, s, n) /\ \E r : IsContinued(u, r, p, m, s, n, m)
<1>1. /\ IsPath(t, p, m) /\ p[1] = b /\ p[m] = last
      /\ \A j \in 1..m : p[j] \in Index \ {0} /\ t[p[j]] # 0
  BY DEF IsWay
<1>2. m \in 1..m /\ 1 \in 1..m /\ l[last] = c /\ \A x \in Index \ {last} : l[x] = t[x]
  BY DEF LinkedTo
<1>3. Free(l) \subseteq Free(t)
  <2>1. c # 0
    BY DEF Free
  <2> QED BY <1>2, <2>1 DEF Free
<1>8. /\ IsPath(u, s, n + 1) /\ s[1] = c /\ u[s[n + 1]] = Eof
      /\ \A j \in 2..(n + 1) : s[j] \in Free(l) \ {1, c}
      /\ \A x \in Index : (\A j \in 1..(n + 1) : x # s[j]) => u[x] = l[x]
  BY DEF IsTrail
<1>9. \A j \in 1..(n + 1) : s[j] \in Free(t) \ {1}
  <2>1. \A j \in 1..(n + 1) : j = 1 \/ j \in 2..(n + 1)
    OBVIOUS
  <2> QED BY <1>3, <1>8, <2>1
<1>10. \A i \in 1..m, j \in 1..(n + 1) : p[i] # s[j]
  BY <1>1, <1>9 DEF Free
<1>11. IsPath(u, p, m) /\ u[p[m]] = s[1]
  <2>1. ASSUME NEW j \in 1..(m - 1) PROVE u[p[j]] = p[j + 1]
    <3>1. j \in 1..m /\ j # m
      OBVIOUS
    <3>2. p[j] # last
      BY <1>1, <1>2, <3>1 DEF IsPath
    <3> QED BY <1>1, <1>2, <1>8, <1>10, <3>1, <3>2 DEF IsPath
  <2>2. u[p[m]] = s[1]
    BY <1>1, <1>2, <1>8, <1>10
  <2> QED BY <1>1, <2>1, <2>2 DEF IsPath
<1>12. PICK k \in Nat \ {0} : k = n + 1
  OBVIOUS
<1>13. /\ IsPath(u, s, k) /\ IsPath(u, p, m) /\ (k > 0 => u[p[m]] = s[1])
       /\ \A i \in 1..m, j \in 1..k : p[i] # s[j]
  BY <1>8, <1>10, <1>11, <1>12
<1>14. PICK r : IsJoin(u, r, p, m, s, k)
  BY <1>13, Joined
<1>15. IsContinued(u, r, p, m, s, n, m)
  BY <1>12, <1>14 DEF IsJoin, IsContinued, Begins
<1> QED BY <1>9, <1>15 DEF WereFree

\* A file the last block of which has room goes on from there ...
LEMMA ChainExtended ==
  ASSUME EofIsNoBlock, NEW t \in Links, NEW m \in Nat \ {0}, NEW b,
         IsChain(t, b, m, {Eof}), Chain(t, b) \subseteq Data,
         NEW last \in Chain(t, b), t[last] = Eof, NEW n \in Nat,
         n <= Cardinality(Free(t) \ {1}), Grow(t, last, n)[n].clean
  PROVE  TakesOver(Cleared(t, Chain(t, b)), Ended(Grow(t, last, n)[n]), b, m + n)
<1>1. PICK p : IsWay(t, p, m, b, last)
  BY LastOfChain
<1>2. /\ p[1] = b /\ p[m] = last /\ Chain(t, b) = Through(p, m)
      /\ last \in Index \ {0} /\ Free(t) \ {1, last} = Free(t) \ {1}
  <2>1. m \in 1..m
    OBVIOUS
  <2>2. t[last] # 0
    BY EofEnds
  <2> QED BY <1>1, <2>1, <2>2 DEF Free, IsWay
<1>3. PICK u : u = Ended(Grow(t, last, n)[n])
  OBVIOUS
<1>4. PICK s : IsTrail(t, u, last, n, s)
  BY <1>2, <1>3, GrowTrail, t[last] \in {0, Eof}
<1>5. /\ u \in Links /\ s[1] = last /\ u[s[n + 1]] = Eof
      /\ \A j \in 2..(n + 1) : s[j] \in Free(t) \ {1}
      /\ \A x \in Index : (\A j \in 1..(n + 1) : x # s[j]) => u[x] = t[x]
  BY <1>4 DEF IsTrail
<1>6. PICK r : IsContinued(u, r, p, m, s, n, m - 1)
  BY <1>1, <1>4, WayExtended
<1>7. /\ IsPath(u, r, m + n) /\ r[1] = b /\ u[r[m + n]] = Eof /\ m + n \in Nat \ {0}
      /\ Through(r, m + n) = Through(p, m) \cup Through(s, n + 1)
  <2>1. (m - 1) + (n + 1) = m + n
    OBVIOUS
  <2> QED BY <1>2, <1>5, <1>6, <2>1 DEF IsContinued
<1>13. IsChain(u, b, m + n, {Eof})
  BY <1>7 DEF IsChain
<1>14. Chain(u, b) = Chain(t, b) \cup Through(s, n + 1)
  BY <1>2, <1>7, EofEnds, WalkAlong DEF EndLinks
<1>15. PICK v : v = Cleared(t, Chain(t, b))
  OBVIOUS
<1>16. /\ \A x \in Index \ Chain(t, b) : v[x] = t[x]
       /\ \A x \in Index \cap Chain(t, b) : v[x] = 0
  BY <1>15 DEF Cleared
<1>17. Chain(u, b) \subseteq Free(v) \ {1}
  <2>1. Chain(t, b) \subseteq Free(v) \ {1}
    <3>1. 1 \notin Data /\ Data \subseteq Index \ {0}
      BY FatAssumption DEF Data, Index
    <3> QED BY <1>16, <3>1 DEF Free
  <2>2. Through(s, n + 1) \subseteq (Free(t) \ {1}) \cup Chain(t, b)
    <3>1. \A j \in 1..(n + 1) : j = 1 \/ j \in 2..(n + 1)
      OBVIOUS
    <3> QED BY <1>5, <3>1 DEF Through
  <2>3. Free(t) \subseteq Free(v)
    BY <1>16 DEF Free
  <2> QED BY <1>14, <2>1, <2>2, <2>3
<1>18. ASSUME NEW x \in Index \ Chain(u, b) PROVE u[x] = v[x]
  <2>1. \A j \in 1..(n + 1) : x # s[j]
    BY <1>14 DEF Through
  <2> QED BY <1>5, <1>14, <1>16, <2>1
<1> QED BY <1>3, <1>5, <1>13, <1>15, <1>17, <1>18 DEF TakesOver

\* ... and one the last block of which is full from the next that is free.
LEMMA ChainLengthened ==
  ASSUME EofIsNoBlock, NEW t \in Links, NEW m \in Nat \ {0}, NEW b,
         IsChain(t, b, m, {Eof}), Chain(t, b) \subseteq Data,
         NEW last \in Chain(t, b), t[last] = Eof, NEW c \in Free(t) \ {1}, NEW n \in Nat,
         n + 1 <= Cardinality(Free(t) \ {1}),
         Grow([t EXCEPT ![last] = c], c, n)[n].clean
  PROVE  /\ [t EXCEPT ![last] = c] \in Links
         /\ TakesOver(Cleared(t, Chain(t, b)), Ended(Grow([t EXCEPT ![last] = c], c, n)[n]),
                      b, m + (n + 1))
<1>1. PICK p : IsWay(t, p, m, b, last)
  BY LastOfChain
<1>2. PICK l : l = [t EXCEPT ![last] = c]
  OBVIOUS
<1>3. /\ p[1] = b /\ p[m] = last /\ Chain(t, b) = Through(p, m)
      /\ last \in Index \ {0} /\ c \in Index \ {0} /\ t[c] = 0
      /\ t[last] # 0 /\ last # c
  <2>1. m \in 1..m
    OBVIOUS
  <2> QED BY <1>1, <2>1, EofEnds DEF Free, IsWay
<1>4. l \in Links /\ l[last] = c /\ \A x \in Index \ {last} : l[x] = t[x]
  BY <1>2, <1>3, FatAssumption DEF Links
<1>5. Free(l) = Free(t)
  BY <1>3, <1>4 DEF Free
<1>6. PICK u : u = Ended(Grow(l, c, n)[n])
  OBVIOUS
<1>7. l[c] = 0 /\ n <= Cardinality(Free(l) \ {1, c})
  <2>1. Cardinality(Free(t) \ {1, c}) = Cardinality(Free(t) \ {1}) - 1
    BY OneTaken
  <2>2. Cardinality(Free(t) \ {1}) \in Nat
    BY FreeFinite
  <2>3. n <= Cardinality(Free(t) \ {1, c})
    BY ONLY <2>1, <2>2, n \in Nat, n + 1 <= Cardinality(Free(t) \ {1})
  <2> QED BY <1>3, <1>4, <1>5, <2>3
<1>8. PICK s : IsTrail(l, u, c, n, s)
  BY <1>2, <1>3, <1>4, <1>6, <1>7, GrowTrail, l[c] \in {0, Eof}
<1>9. /\ u \in Links /\ u[s[n + 1]] = Eof
      /\ \A x \in Index : (\A j \in 1..(n + 1) : x # s[j]) => u[x] = l[x]
  BY <1>8 DEF IsTrail
<1>10. LinkedTo(t, l, last, c)
  BY <1>4 DEF LinkedTo
<1>11. WereFree(t, s, n) /\ \E r : IsContinued(u, r, p, m, s, n, m)
  BY <1>1, <1>8, <1>10, WayLengthened
<1>13. PICK r : IsContinued(u, r, p, m, s, n, m)
  BY <1>11
<1>12. /\ IsPath(u, r, m + (n + 1)) /\ r[1] = b /\ u[r[m + (n + 1)]] = Eof
       /\ m + (n + 1) \in Nat \ {0}
       /\ Through(r, m + (n + 1)) = Through(p, m) \cup Through(s, n + 1)
  BY <1>3, <1>9, <1>13 DEF IsContinued
<1>14. IsChain(u, b, m + (n + 1), {Eof})
  BY <1>12 DEF IsChain
<1>15. Chain(u, b) = Chain(t, b) \cup Through(s, n + 1)
  BY <1>3, <1>12, EofEnds, WalkAlong DEF EndLinks
<1>16. PICK v : v = Cleared(t, Chain(t, b))
  OBVIOUS
<1>17. /\ \A x \in Index \ Chain(t, b) : v[x] = t[x]
       /\ \A x \in Index \cap Chain(t, b) : v[x] = 0
  BY <1>16 DEF Cleared
<1>18. Chain(u, b) \subseteq Free(v) \ {1}
  <2>1. Chain(t, b) \subseteq Free(v) \ {1}
    <3>1. 1 \notin Data /\ Data \subseteq Index \ {0}
      BY FatAssumption DEF Data, Index
    <3> QED BY <1>17, <3>1 DEF Free
  <2>2. Through(s, n + 1) \subseteq Free(t) \ {1}
    BY <1>11 DEF Through, WereFree
  <2>3. Free(t) \subseteq Free(v)
    BY <1>17 DEF Free
  <2> QED BY <1>15, <2>1, <2>2, <2>3
<1>19. ASSUME NEW x \in Index \ Chain(u, b) PROVE u[x] = v[x]
  <2>1. \A j \in 1..(n + 1) : x # s[j]
    BY <1>15 DEF Through
  <2>2. x # last
    BY <1>15
  <2> QED BY <1>4, <1>9, <1>15, <1>17, <2>1, <2>2
<1> QED BY <1>2, <1>4, <1>6, <1>9, <1>14, <1>16, <1>18, <1>19 DEF TakesOver

-----------------------------------------------------------------------------
(***************************************************************************)
(* What belongs to whom.                                                   *)
(***************************************************************************)
\* The blocks of entry e in table t.
BlocksOf(t, e) == IF e.size = 0 THEN {} ELSE Chain(t, e.firstBlock)

\* The chain of entry e, if it is to have one, is whole.
FileSound(t, e) ==
  /\ e.size \in Nat
  /\ e.size # 0 => /\ IsChain(t, e.firstBlock, bytesToBlocks(e.size), {Eof})
                   /\ Chain(t, e.firstBlock) \subseteq Data

\* The table belongs to the directory, which has k blocks, and to the files of d.
Layout(t, d, k) ==
  /\ t \in Links
  /\ k \in Nat \ {0} /\ IsChain(t, 1, k, {0, Eof})
  /\ \A b \in Chain(t, 1) \ {1} : t[b] # 0
  /\ \A i \in DOMAIN d : FileSound(t, d[i]) /\ BlocksOf(t, d[i]) \cap Chain(t, 1) = {}
  /\ \A i, j \in DOMAIN d : i # j => BlocksOf(t, d[i]) \cap BlocksOf(t, d[j]) = {}
  /\ \A b \in Data : t[b] # 0 =>
       b \in Chain(t, 1) \/ \E i \in DOMAIN d : b \in BlocksOf(t, d[i])

\* Two sets that have nothing in common.
LEMMA DisjointUnion ==
  ASSUME NEW S, NEW T, IsFiniteSet(S), IsFiniteSet(T), S \cap T = {}
  PROVE  IsFiniteSet(S \cup T) /\ Cardinality(S \cup T) = Cardinality(S) + Cardinality(T)
<1>1. Cardinality(S) \in Nat /\ Cardinality(T) \in Nat
  BY FS_CardinalityType
<1>2. Cardinality(S \cap T) = 0
  BY FS_EmptySet
<1>3. /\ IsFiniteSet(S \cup T)
      /\ Cardinality(S \cup T) = Cardinality(S) + Cardinality(T) - Cardinality(S \cap T)
  BY FS_Union
<1> QED BY <1>1, <1>2, <1>3

\* Whatever has a size has blocks.
LEMMA BlocksPositive ==
  ASSUME NEW n \in Nat
  PROVE  bytesToBlocks(n) \in Nat /\ (n = 0 <=> bytesToBlocks(n) = 0)
<1>1. PICK b \in Nat \ {0} : b = BlockSize
  BY FatAssumption
<1>2. n > 0 => (n + b - 1) \div b \in Nat \ {0}
  <2> SUFFICES ASSUME n > 0 PROVE (n + b - 1) \div b \in Nat \ {0}
    OBVIOUS
  <2>1. n + b - 1 \in Nat /\ n + b - 1 >= b
    OBVIOUS
  <2>2. PICK a \in Nat : a = n + b - 1 /\ a >= b
    BY <2>1
  <2>3. a \div b \in Nat /\ a = b * (a \div b) + (a % b) /\ a % b \in 0..(b - 1)
    BY <1>1
  <2>4. a \div b # 0
    BY <2>2, <2>3
  <2> QED BY <2>2, <2>3, <2>4
<1> QED BY <1>1, <1>2 DEF bytesToBlocks

\* The blocks of a file.
LEMMA FileBlocks ==
  ASSUME EofIsNoBlock, NEW t, NEW e, FileSound(t, e)
  PROVE  /\ BlocksOf(t, e) \subseteq Data /\ IsFiniteSet(BlocksOf(t, e))
         /\ Cardinality(BlocksOf(t, e)) = bytesToBlocks(e.size)
         /\ \A b \in BlocksOf(t, e) : t[b] # 0
         /\ BlocksOf(t, e) # {} => \E b \in BlocksOf(t, e) : t[b] = Eof
<1>1. CASE e.size = 0
  BY <1>1, BlocksPositive, FS_EmptySet DEF BlocksOf
<1>2. CASE e.size # 0
  <2>1. PICK n \in Nat \ {0} : n = bytesToBlocks(e.size)
    BY <1>2, BlocksPositive DEF FileSound
  <2>2. IsChain(t, e.firstBlock, n, {Eof}) /\ Chain(t, e.firstBlock) \subseteq Data
    BY <1>2, <2>1 DEF FileSound
  <2>3. /\ Chain(t, e.firstBlock) \subseteq Index \ {0}
        /\ IsFiniteSet(Chain(t, e.firstBlock)) /\ Cardinality(Chain(t, e.firstBlock)) = n
        /\ \E c \in Chain(t, e.firstBlock) :
             t[c] = Eof /\ \A x \in Chain(t, e.firstBlock) \ {c} : t[x] \in Chain(t, e.firstBlock)
    BY <2>2, EofEnds, ChainFacts
  <2>4. BlocksOf(t, e) = Chain(t, e.firstBlock)
    BY <1>2 DEF BlocksOf
  <2>5. \A b \in Chain(t, e.firstBlock) : t[b] # 0
    BY <2>3, EofEnds
  <2> QED BY <2>1, <2>2, <2>3, <2>4, <2>5
<1> QED BY <1>1, <1>2

\* A file stays as it is while its links do.
LEMMA FileStays ==
  ASSUME EofIsNoBlock, NEW t, NEW u, NEW e, FileSound(t, e),
         \A b \in BlocksOf(t, e) : u[b] = t[b],
         NEW f, f.size = e.size, f.firstBlock = e.firstBlock
  PROVE  FileSound(u, f) /\ BlocksOf(u, f) = BlocksOf(t, e)
<1>1. CASE e.size = 0
  BY <1>1 DEF FileSound, BlocksOf
<1>2. CASE e.size # 0
  <2>1. PICK n \in Nat \ {0} : n = bytesToBlocks(e.size)
    BY <1>2, BlocksPositive DEF FileSound
  <2>2. IsChain(t, e.firstBlock, n, {Eof}) /\ \A b \in Chain(t, e.firstBlock) : u[b] = t[b]
    BY <1>2, <2>1 DEF FileSound, BlocksOf
  <2>3. IsChain(u, e.firstBlock, n, {Eof}) /\ Chain(u, e.firstBlock) = Chain(t, e.firstBlock)
    BY <2>2, EofEnds, ChainStays
  <2> QED BY <1>2, <2>1, <2>3 DEF FileSound, BlocksOf
<1> QED BY <1>1, <1>2

\* The blocks of the directory.
LEMMA DirectoryBlocks ==
  ASSUME EofIsNoBlock, NEW t, NEW d, NEW k, Layout(t, d, k)
  PROVE  /\ 1 \in Chain(t, 1) /\ Chain(t, 1) \subseteq Index \ {0}
         /\ IsFiniteSet(Chain(t, 1)) /\ Cardinality(Chain(t, 1)) = k
         /\ \A b \in Data : t[b] = 0 => b \notin Chain(t, 1)
<1>1. k \in Nat \ {0} /\ IsChain(t, 1, k, {0, Eof})
  BY DEF Layout
<1>2. /\ 1 \in Chain(t, 1) /\ Chain(t, 1) \subseteq Index \ {0}
      /\ IsFiniteSet(Chain(t, 1)) /\ Cardinality(Chain(t, 1)) = k
  BY <1>1, EofEnds, ChainFacts
<1>3. 1 \notin Data
  BY DEF Data
<1> QED BY <1>2, <1>3 DEF Layout

\* Directory d but for entry i.
Without(d, i) == [j \in DOMAIN d \ {i} |-> d[j]]

\* In table u entry i of d has no blocks any more.
IsReleased(t, u, d, i, k) ==
  /\ Layout(u, Without(d, i), k)
  /\ Cardinality(Free(u) \ {1}) = Cardinality(Free(t) \ {1}) + bytesToBlocks(d[i].size)
  /\ Chain(u, 1) = Chain(t, 1) /\ u[1] = t[1]

\* A file is given back.
LEMMA FileReleased ==
  ASSUME EofIsNoBlock, NEW t, NEW d, NEW k, Layout(t, d, k), NEW i \in DOMAIN d
  PROVE  IsReleased(t, Cleared(t, BlocksOf(t, d[i])), d, i, k)
<1>1. PICK S : S = BlocksOf(t, d[i])
  OBVIOUS
<1>2. PICK u : u = Cleared(t, S)
  OBVIOUS
<1>3. PICK e : e = Without(d, i)
  OBVIOUS
<1>4. /\ S \subseteq Data /\ IsFiniteSet(S) /\ Cardinality(S) = bytesToBlocks(d[i].size)
      /\ (\A b \in S : t[b] # 0) /\ S \cap Chain(t, 1) = {}
  BY <1>1, FileBlocks DEF Layout
<1>5. /\ \A b \in Index \cap S : u[b] = 0
      /\ \A b \in Index \ S : u[b] = t[b]
      /\ Data \subseteq Index \ {0, 1} /\ 1 \in Index /\ 0 \in Index
  BY <1>2, FatAssumption DEF Cleared, Data, Index
<1>6. u \in Links
  BY <1>2, <1>5, FatAssumption DEF Links, Cleared, Layout
<1>7. /\ 1 \in Chain(t, 1) /\ Chain(t, 1) \subseteq Index \ {0}
  BY DirectoryBlocks
<1>8. \A b \in Chain(t, 1) : u[b] = t[b]
  BY <1>4, <1>5, <1>7
<1>9. IsChain(u, 1, k, {0, Eof}) /\ Chain(u, 1) = Chain(t, 1)
  <2>1. k \in Nat \ {0} /\ IsChain(t, 1, k, {0, Eof})
    BY DEF Layout
  <2> QED BY <1>8, <2>1, EofEnds, ChainStays
<1>10. ASSUME NEW j \in DOMAIN e
       PROVE  /\ j \in DOMAIN d /\ j # i /\ e[j] = d[j]
              /\ FileSound(u, e[j]) /\ BlocksOf(u, e[j]) = BlocksOf(t, d[j])
  <2>1. j \in DOMAIN d /\ j # i /\ e[j] = d[j]
    BY <1>3 DEF Without
  <2>2. FileSound(t, d[j]) /\ BlocksOf(t, d[j]) \cap S = {} /\ BlocksOf(t, d[j]) \subseteq Data
    BY <1>1, <2>1, FileBlocks DEF Layout
  <2>3. \A b \in BlocksOf(t, d[j]) : u[b] = t[b]
    BY <1>5, <2>2
  <2> QED BY <2>1, <2>2, <2>3, FileStays
<1>11. ASSUME NEW b \in Data, u[b] # 0
       PROVE  b \in Chain(u, 1) \/ \E j \in DOMAIN e : b \in BlocksOf(u, e[j])
  <2>1. b \notin S /\ t[b] # 0
    BY <1>5, <1>11
  <2>2. CASE b \in Chain(t, 1)
    BY <1>9, <2>2
  <2>3. CASE \E j \in DOMAIN d : b \in BlocksOf(t, d[j])
    <3>1. PICK j \in DOMAIN d : b \in BlocksOf(t, d[j])
      BY <2>3
    <3>2. j \in DOMAIN e
      BY <1>1, <1>3, <2>1, <3>1 DEF Without
    <3> QED BY <1>10, <3>1, <3>2
  <2> QED BY <2>1, <2>2, <2>3 DEF Layout
<1>12. Layout(u, e, k)
  <2>1. k \in Nat \ {0} /\ \A b \in Chain(u, 1) \ {1} : u[b] # 0
    BY <1>8, <1>9 DEF Layout
  <2>2. \A j \in DOMAIN e : FileSound(u, e[j]) /\ BlocksOf(u, e[j]) \cap Chain(u, 1) = {}
    BY <1>9, <1>10 DEF Layout
  <2>3. \A j, m \in DOMAIN e : j # m => BlocksOf(u, e[j]) \cap BlocksOf(u, e[m]) = {}
    BY <1>10 DEF Layout
  <2> QED BY <1>6, <1>9, <1>11, <2>1, <2>2, <2>3 DEF Layout
<1>13. Free(u) \ {1} = (Free(t) \ {1}) \cup S /\ (Free(t) \ {1}) \cap S = {}
  BY <1>4, <1>5 DEF Free
<1>14. Cardinality(Free(u) \ {1}) = Cardinality(Free(t) \ {1}) + Cardinality(S)
  BY <1>4, <1>13, FreeFinite, DisjointUnion
<1> QED BY <1>1, <1>2, <1>3, <1>4, <1>5, <1>9, <1>12, <1>14 DEF IsReleased

\* Entries that differ in nothing that concerns the table.
LEMMA LayoutKept ==
  ASSUME EofIsNoBlock, NEW t, NEW d, NEW k, Layout(t, d, k), NEW e, DOMAIN e = DOMAIN d,
         \A i \in DOMAIN d : e[i].size = d[i].size /\ e[i].firstBlock = d[i].firstBlock
  PROVE  Layout(t, e, k)
<1>1. \A i \in DOMAIN d : FileSound(t, e[i]) /\ BlocksOf(t, e[i]) = BlocksOf(t, d[i])
  BY DEF FileSound, BlocksOf, Layout
<1> QED BY <1>1 DEF Layout

\* The same entries in other places.
LEMMA LayoutMoved ==
  ASSUME EofIsNoBlock, NEW t, NEW d, NEW k, Layout(t, d, k), NEW e,
         NEW h \in [DOMAIN e -> DOMAIN d], \A i \in DOMAIN e : e[i] = d[h[i]],
         \A i, j \in DOMAIN e : h[i] = h[j] => i = j,
         \A j \in DOMAIN d : \E i \in DOMAIN e : h[i] = j
  PROVE  Layout(t, e, k)
<1>1. \A i \in DOMAIN e : FileSound(t, e[i]) /\ BlocksOf(t, e[i]) \cap Chain(t, 1) = {}
  BY DEF Layout
<1>2. ASSUME NEW i \in DOMAIN e, NEW j \in DOMAIN e, i # j
      PROVE  BlocksOf(t, e[i]) \cap BlocksOf(t, e[j]) = {}
  <2>1. h[i] # h[j] /\ h[i] \in DOMAIN d /\ h[j] \in DOMAIN d
    BY <1>2
  <2> QED BY <2>1 DEF Layout
<1>3. ASSUME NEW b \in Data, t[b] # 0
      PROVE  b \in Chain(t, 1) \/ \E i \in DOMAIN e : b \in BlocksOf(t, e[i])
  <2>1. CASE \E j \in DOMAIN d : b \in BlocksOf(t, d[j])
    <3>1. PICK j \in DOMAIN d : b \in BlocksOf(t, d[j])
      BY <2>1
    <3>2. PICK i \in DOMAIN e : h[i] = j
      OBVIOUS
    <3> QED BY <3>1, <3>2
  <2> QED BY <1>3, <2>1 DEF Layout
<1> QED BY <1>1, <1>2, <1>3 DEF Layout

\* A file without blocks is added.
LEMMA EmptyFileAdded ==
  ASSUME EofIsNoBlock, NEW t, NEW d, NEW k, Layout(t, d, k), NEW i, i \notin DOMAIN d,
         NEW e, DOMAIN e = DOMAIN d \cup {i}, e[i].size = 0,
         \A j \in DOMAIN d : e[j].size = d[j].size /\ e[j].firstBlock = d[j].firstBlock
  PROVE  Layout(t, e, k)
<1>1. \A j \in DOMAIN d : FileSound(t, e[j]) /\ BlocksOf(t, e[j]) = BlocksOf(t, d[j])
  BY DEF FileSound, BlocksOf, Layout
<1>2. FileSound(t, e[i]) /\ BlocksOf(t, e[i]) = {}
  BY DEF FileSound, BlocksOf
<1> QED BY <1>1, <1>2 DEF Layout

\* Directory e is d with a file i of m blocks, the first of them b.
Adds(d, i, b, m, e) ==
  /\ i \notin DOMAIN d /\ DOMAIN e = DOMAIN d \cup {i}
  /\ m \in Nat \ {0} /\ e[i].size \in Nat \ {0}
  /\ e[i].firstBlock = b /\ bytesToBlocks(e[i].size) = m
  /\ \A j \in DOMAIN d : e[j].size = d[j].size /\ e[j].firstBlock = d[j].firstBlock

\* A file is added that has taken blocks that were free.
LEMMA FileAdded ==
  ASSUME EofIsNoBlock, NEW t, NEW d, NEW k, Layout(t, d, k), NEW i, NEW b, NEW m, NEW e,
         Adds(d, i, b, m, e), NEW u, TakesOver(t, u, b, m)
  PROVE  /\ Layout(u, e, k)
         /\ Cardinality(Free(u) \ {1}) = Cardinality(Free(t) \ {1}) - m
         /\ Chain(u, 1) = Chain(t, 1)
<1> USE DEF Adds
<1>1. PICK S : S = Chain(u, b)
  OBVIOUS
<1>2. /\ u \in Links /\ IsChain(u, b, m, {Eof}) /\ S \subseteq Free(t) \ {1}
      /\ \A x \in Index \ S : u[x] = t[x]
  BY <1>1 DEF TakesOver
<1>3. /\ IsFiniteSet(S) /\ Cardinality(S) = m
      /\ \E c \in S : u[c] = Eof /\ \A x \in S \ {c} : u[x] \in S
      /\ S \subseteq Index \ {0}
  BY <1>1, <1>2, EofEnds, ChainFacts
<1>4. S \subseteq Data /\ (\A x \in S : t[x] = 0 /\ u[x] # 0)
      /\ Data \subseteq Index \ {0, 1} /\ 1 \in Index /\ 0 \in Index
  <2>1. Index \ {0, 1} = Data /\ 1 \in Index /\ 0 \in Index
    BY FatAssumption DEF Data, Index
  <2> QED BY <1>2, <1>3, <2>1, EofEnds DEF Free
<1>5. 1 \in Chain(t, 1) /\ Chain(t, 1) \subseteq Index \ {0} /\ S \cap Chain(t, 1) = {}
  BY <1>4, DirectoryBlocks
<1>6. IsChain(u, 1, k, {0, Eof}) /\ Chain(u, 1) = Chain(t, 1)
  <2>1. k \in Nat \ {0} /\ IsChain(t, 1, k, {0, Eof})
    BY DEF Layout
  <2>2. \A x \in Chain(t, 1) : u[x] = t[x]
    BY <1>2, <1>5
  <2> QED BY <2>1, <2>2, EofEnds, ChainStays
<1>7. FileSound(u, e[i]) /\ BlocksOf(u, e[i]) = S
  BY <1>1, <1>2, <1>4 DEF FileSound, BlocksOf
<1>8. ASSUME NEW j \in DOMAIN d
      PROVE  /\ FileSound(u, e[j]) /\ BlocksOf(u, e[j]) = BlocksOf(t, d[j])
             /\ BlocksOf(t, d[j]) \cap S = {}
  <2>1. FileSound(t, d[j])
    BY DEF Layout
  <2>2. BlocksOf(t, d[j]) \subseteq Data /\ \A x \in BlocksOf(t, d[j]) : t[x] # 0
    BY <2>1, FileBlocks
  <2>3. BlocksOf(t, d[j]) \cap S = {} /\ \A x \in BlocksOf(t, d[j]) : u[x] = t[x]
    BY <1>2, <1>4, <2>2
  <2>4. e[j].size = d[j].size /\ e[j].firstBlock = d[j].firstBlock
    OBVIOUS
  <2> QED BY <2>1, <2>3, <2>4, FileStays
<1>9. ASSUME NEW x \in Data, u[x] # 0
      PROVE  x \in Chain(u, 1) \/ \E j \in DOMAIN e : x \in BlocksOf(u, e[j])
  <2>1. CASE x \in S
    BY <1>7, <2>1
  <2>2. CASE x \notin S
    <3>1. t[x] # 0
      BY <1>2, <1>4, <1>9, <2>2
    <3> QED BY <1>6, <1>8, <3>1 DEF Layout
  <2> QED BY <2>1, <2>2
<1>10. Layout(u, e, k)
  <2>1. k \in Nat \ {0} /\ \A x \in Chain(u, 1) \ {1} : u[x] # 0
    BY <1>2, <1>5, <1>6 DEF Layout
  <2>2. ASSUME NEW j \in DOMAIN e
        PROVE  FileSound(u, e[j]) /\ BlocksOf(u, e[j]) \cap Chain(u, 1) = {}
    BY <1>5, <1>6, <1>7, <1>8 DEF Layout
  <2>3. ASSUME NEW j \in DOMAIN e, NEW l \in DOMAIN e, j # l
        PROVE  BlocksOf(u, e[j]) \cap BlocksOf(u, e[l]) = {}
    <3>1. CASE j = i
      BY <1>7, <1>8, <2>3, <3>1
    <3>2. CASE l = i
      BY <1>7, <1>8, <2>3, <3>2
    <3>3. CASE j # i /\ l # i
      BY <1>8, <2>3, <3>3 DEF Layout
    <3> QED BY <3>1, <3>2, <3>3
  <2> QED BY <1>2, <1>6, <1>9, <2>1, <2>2, <2>3 DEF Layout
<1>11. Free(t) \ {1} = (Free(u) \ {1}) \cup S /\ (Free(u) \ {1}) \cap S = {}
  BY <1>2, <1>4 DEF Free
<1>12. Cardinality(Free(t) \ {1}) = Cardinality(Free(u) \ {1}) + Cardinality(S)
  BY <1>3, <1>11, FreeFinite, DisjointUnion
<1>13. Cardinality(Free(u) \ {1}) \in Nat /\ Cardinality(Free(t) \ {1}) \in Nat
  BY FreeFinite
<1> QED BY <1>3, <1>6, <1>10, <1>12, <1>13

\* The directory is given back: block 1, where it begins, is all it has.
LEMMA DirectoryReleased ==
  ASSUME EofIsNoBlock, NEW t, NEW d, NEW k, Layout(t, d, k)
  PROVE  LET u == Cleared(t, Chain(t, 1))
         IN  /\ Layout(u, d, 1) /\ u[1] = 0
             /\ Cardinality(Free(u) \ {1}) = Cardinality(Free(t) \ {1}) + (k - 1)
<1>1. PICK S : S = Chain(t, 1)
  OBVIOUS
<1>2. PICK u : u = Cleared(t, S)
  OBVIOUS
<1>3. /\ 1 \in S /\ S \subseteq Index \ {0} /\ IsFiniteSet(S) /\ Cardinality(S) = k
      /\ \A b \in Data : t[b] = 0 => b \notin S
  BY <1>1, DirectoryBlocks
<1>4. /\ \A b \in Index \cap S : u[b] = 0
      /\ \A b \in Index \ S : u[b] = t[b]
      /\ Data = Index \ {0, 1} /\ 1 \in Index /\ 0 \in Index
  BY <1>2, FatAssumption DEF Cleared, Data, Index
<1>5. u \in Links /\ u[1] = 0
  BY <1>2, <1>3, <1>4, FatAssumption DEF Links, Cleared, Layout
<1>6. PICK p : p = [j \in 1..1 |-> 1]
  OBVIOUS
<1>7. IsPath(u, p, 1) /\ p[1] = 1 /\ Through(p, 1) = {1}
  BY <1>4, <1>6 DEF IsPath, Through
<1>8. IsChain(u, 1, 1, {0, Eof}) /\ Chain(u, 1) = {1}
  BY <1>5, <1>7, WalkAlong DEF IsChain
<1>9. ASSUME NEW i \in DOMAIN d
      PROVE  /\ FileSound(u, d[i]) /\ BlocksOf(u, d[i]) = BlocksOf(t, d[i])
             /\ BlocksOf(t, d[i]) \subseteq Data
  <2>1. FileSound(t, d[i]) /\ BlocksOf(t, d[i]) \cap S = {} /\ BlocksOf(t, d[i]) \subseteq Data
    BY <1>1, FileBlocks DEF Layout
  <2>2. \A b \in BlocksOf(t, d[i]) : u[b] = t[b]
    BY <1>4, <2>1
  <2> QED BY <2>1, <2>2, FileStays
<1>10. ASSUME NEW b \in Data, u[b] # 0
       PROVE  b \in Chain(u, 1) \/ \E i \in DOMAIN d : b \in BlocksOf(u, d[i])
  <2>1. b \notin S /\ t[b] # 0
    BY <1>4, <1>10
  <2> QED BY <1>1, <1>9, <2>1 DEF Layout
<1>11. Layout(u, d, 1)
  <2>1. \A i \in DOMAIN d : FileSound(u, d[i]) /\ BlocksOf(u, d[i]) \cap Chain(u, 1) = {}
    BY <1>4, <1>8, <1>9
  <2>2. \A i, j \in DOMAIN d : i # j => BlocksOf(u, d[i]) \cap BlocksOf(u, d[j]) = {}
    BY <1>9 DEF Layout
  <2>3. 1 \in Nat \ {0} /\ \A b \in Chain(u, 1) \ {1} : u[b] # 0
    BY <1>8
  <2> QED BY <1>5, <1>8, <1>10, <2>1, <2>2, <2>3 DEF Layout
<1>12. Free(u) \ {1} = (Free(t) \ {1}) \cup (S \ {1}) /\ (Free(t) \ {1}) \cap (S \ {1}) = {}
  BY <1>3, <1>4 DEF Free
<1>13. IsFiniteSet(S \ {1}) /\ Cardinality(S \ {1}) = k - 1
  BY <1>3, FS_RemoveElement
<1>14. Cardinality(Free(u) \ {1}) = Cardinality(Free(t) \ {1}) + (k - 1)
  BY <1>12, <1>13, FreeFinite, DisjointUnion
<1> QED BY <1>1, <1>2, <1>5, <1>11, <1>14

\* The directory takes blocks that were free.
LEMMA DirectoryTaken ==
  ASSUME EofIsNoBlock, NEW t, NEW d, Layout(t, d, 1), t[1] = 0, NEW m \in Nat \ {0},
         NEW u, TakesDirectory(t, u, m)
  PROVE  /\ Layout(u, d, m)
         /\ Cardinality(Free(u) \ {1}) = Cardinality(Free(t) \ {1}) - (m - 1)
<1> USE DEF TakesDirectory
<1>1. PICK S : S = Chain(u, 1)
  OBVIOUS
<1>2. /\ 1 \in S /\ IsFiniteSet(S) /\ Cardinality(S) = m
      /\ \E c \in S : u[c] = Eof /\ \A x \in S \ {c} : u[x] \in S
      /\ S \subseteq Index \ {0}
  BY <1>1, EofEnds, ChainFacts
<1>3. /\ \A x \in S : t[x] = 0 /\ u[x] # 0
      /\ \A x \in Index \ S : u[x] = t[x]
      /\ Data = Index \ {0, 1} /\ 1 \in Index /\ 0 \in Index
  <2>1. Index \ {0, 1} = Data /\ 1 \in Index /\ 0 \in Index
    BY FatAssumption DEF Data, Index
  <2> QED BY <1>1, <1>2, <2>1, EofEnds DEF Free
<1>4. Chain(t, 1) = {1}
  <2>1. PICK p : p = [j \in 1..1 |-> 1]
    OBVIOUS
  <2>2. IsPath(t, p, 1) /\ p[1] = 1 /\ Through(p, 1) = {1}
    BY <1>3, <2>1 DEF IsPath, Through
  <2> QED BY <2>2, WalkAlong
<1>5. ASSUME NEW i \in DOMAIN d
      PROVE  /\ FileSound(u, d[i]) /\ BlocksOf(u, d[i]) = BlocksOf(t, d[i])
             /\ BlocksOf(t, d[i]) \subseteq Data /\ BlocksOf(t, d[i]) \cap S = {}
  <2>1. FileSound(t, d[i]) /\ BlocksOf(t, d[i]) \subseteq Data
        /\ \A x \in BlocksOf(t, d[i]) : t[x] # 0
    BY FileBlocks DEF Layout
  <2>2. BlocksOf(t, d[i]) \cap S = {} /\ \A b \in BlocksOf(t, d[i]) : u[b] = t[b]
    BY <1>3, <2>1
  <2> QED BY <2>1, <2>2, FileStays
<1>6. ASSUME NEW b \in Data, u[b] # 0
      PROVE  b \in Chain(u, 1) \/ \E i \in DOMAIN d : b \in BlocksOf(u, d[i])
  <2>1. CASE b \in S
    BY <1>1, <2>1
  <2>2. CASE b \notin S
    <3>1. t[b] # 0 /\ b \notin Chain(t, 1)
      BY <1>3, <1>4, <1>6, <2>2
    <3> QED BY <1>5, <3>1 DEF Layout
  <2> QED BY <2>1, <2>2
<1>7. IsChain(u, 1, m, {0, Eof})
  BY DEF IsChain
<1>8. Layout(u, d, m)
  <2>1. \A i \in DOMAIN d : FileSound(u, d[i]) /\ BlocksOf(u, d[i]) \cap Chain(u, 1) = {}
    BY <1>1, <1>5
  <2>2. \A i, j \in DOMAIN d : i # j => BlocksOf(u, d[i]) \cap BlocksOf(u, d[j]) = {}
    BY <1>5 DEF Layout
  <2>3. \A b \in Chain(u, 1) \ {1} : u[b] # 0
    BY <1>1, <1>3
  <2> QED BY <1>6, <1>7, <2>1, <2>2, <2>3 DEF Layout
<1>9. Free(t) \ {1} = (Free(u) \ {1}) \cup (S \ {1}) /\ (Free(u) \ {1}) \cap (S \ {1}) = {}
  BY <1>1, <1>3, <1>2 DEF Free
<1>10. IsFiniteSet(S \ {1}) /\ Cardinality(S \ {1}) = m - 1
  BY <1>2, FS_RemoveElement
<1>11. Cardinality(Free(t) \ {1}) = Cardinality(Free(u) \ {1}) + (m - 1)
  <2>1. IsFiniteSet(Free(u) \ {1})
    BY FreeFinite
  <2>2. Cardinality((Free(u) \ {1}) \cup (S \ {1})) =
          Cardinality(Free(u) \ {1}) + Cardinality(S \ {1})
    BY <1>9, <1>10, <2>1, DisjointUnion
  <2> QED BY <1>9, <1>10, <2>2
<1>12. Cardinality(Free(u) \ {1}) \in Nat /\ Cardinality(Free(t) \ {1}) \in Nat
  BY FreeFinite
<1> QED BY <1>8, <1>11, <1>12

\* A mount marks the end of a directory that was never written.
LEMMA DirectoryMarked ==
  ASSUME EofIsNoBlock, NEW t, NEW d, NEW k, Layout(t, d, k), t[1] = 0
  PROVE  /\ Layout([t EXCEPT ![1] = Eof], d, k)
         /\ Free([t EXCEPT ![1] = Eof]) \ {1} = Free(t) \ {1}
<1>1. PICK u : u = [t EXCEPT ![1] = Eof]
  OBVIOUS
<1>2. t \in Links /\ 1 \in Index /\ Data = Index \ {0, 1} /\ 0 \in Index
  BY FatAssumption DEF Layout, Data, Index
<1>3. u \in Links /\ u[1] = Eof /\ \A x \in Index \ {1} : u[x] = t[x]
  BY <1>1, <1>2, FatAssumption DEF Links
<1>4. PICK p : IsPath(t, p, k) /\ p[1] = 1 /\ t[p[k]] \in {0, Eof}
  BY DEF IsChain, Layout
<1>5. k \in Nat \ {0}
  BY DEF Layout
<1>6. k = 1
  <2> SUFFICES ASSUME k # 1 PROVE FALSE
    OBVIOUS
  <2>1. 1 \in 1..(k - 1) /\ 2 \in 1..k
    BY <1>5
  <2>2. t[p[1]] = p[2] /\ p[2] \in Index \ {0}
    BY <1>4, <2>1 DEF IsPath
  <2> QED BY <1>4, <2>2
<1>7. IsPath(u, p, 1) /\ Through(p, 1) = {1}
  BY <1>4, <1>6 DEF IsPath, Through
<1>8. IsChain(u, 1, k, {0, Eof}) /\ Chain(u, 1) = {1} /\ Chain(t, 1) = {1}
  <2>1. Chain(u, 1) = {1}
    BY <1>3, <1>4, <1>7, EofEnds, WalkAlong DEF EndLinks
  <2>2. Chain(t, 1) = {1}
    BY <1>4, <1>6, <1>7, EofEnds, WalkAlong DEF EndLinks
  <2>3. IsChain(u, 1, k, {0, Eof})
    BY <1>3, <1>4, <1>6, <1>7 DEF IsChain
  <2> QED BY <2>1, <2>2, <2>3
<1>9. \A i \in DOMAIN d : FileSound(u, d[i]) /\ BlocksOf(u, d[i]) = BlocksOf(t, d[i])
  <2> TAKE i \in DOMAIN d
  <2>1. FileSound(t, d[i]) /\ BlocksOf(t, d[i]) \subseteq Data
    BY FileBlocks DEF Layout
  <2>2. \A b \in BlocksOf(t, d[i]) : u[b] = t[b]
    BY <1>2, <1>3, <2>1
  <2> QED BY <2>1, <2>2, FileStays
<1>10. Layout(u, d, k)
  <2>1. \A i \in DOMAIN d : FileSound(u, d[i]) /\ BlocksOf(u, d[i]) \cap Chain(u, 1) = {}
    BY <1>8, <1>9 DEF Layout
  <2>2. \A i, j \in DOMAIN d : i # j => BlocksOf(u, d[i]) \cap BlocksOf(u, d[j]) = {}
    BY <1>9 DEF Layout
  <2>3. \A b \in Data : u[b] # 0 =>
          b \in Chain(u, 1) \/ \E i \in DOMAIN d : b \in BlocksOf(u, d[i])
    BY <1>2, <1>3, <1>8, <1>9 DEF Layout
  <2>4. \A b \in Chain(u, 1) \ {1} : u[b] # 0
    BY <1>8
  <2> QED BY <1>3, <1>5, <1>8, <2>1, <2>2, <2>3, <2>4 DEF Layout
<1>11. Free(u) \ {1} = Free(t) \ {1}
  BY <1>3 DEF Free
<1> QED BY <1>1, <1>10, <1>11

-----------------------------------------------------------------------------
(***************************************************************************)
(* Numbers of blocks.                                                      *)
(***************************************************************************)
\* Quotient and remainder.
LEMMA Division ==
  ASSUME NEW a \in Nat, NEW b \in Nat \ {0}
  PROVE  \E q \in Nat, r \in 0..(b - 1) :
           a = b * q + r /\ a \div b = q /\ a % b = r
<1>1. a = b * (a \div b) + (a % b) /\ a \div b \in Nat /\ a % b \in 0..(b - 1)
  OBVIOUS
<1> QED BY <1>1

\* What is a quotient and a remainder is the quotient and the remainder.
LEMMA DivisionIs ==
  ASSUME NEW a \in Nat, NEW b \in Nat \ {0}, NEW q \in Nat, NEW r \in 0..(b - 1),
         a = b * q + r
  PROVE  a \div b = q /\ a % b = r
<1>1. (b * q + r) \div b = q /\ (b * q + r) % b = r
  OBVIOUS
<1> QED BY <1>1

\* The number of blocks is the least that is enough ...
LEMMA Ceiling ==
  ASSUME NEW n \in Nat \ {0}
  PROVE  \E q \in Nat \ {0}, x \in Nat :
           /\ bytesToBlocks(n) = q /\ x = BlockSize * q
           /\ x - BlockSize < n /\ n <= x
<1>1. PICK b \in Nat \ {0} : b = BlockSize
  BY FatAssumption
<1>2. PICK a \in Nat : a = n + b - 1 /\ a >= b
  OBVIOUS
<1>3. PICK q \in Nat, r \in 0..(b - 1) : a = b * q + r /\ a \div b = q
  BY Division
<1>4. PICK x \in Nat : x = b * q
  OBVIOUS
<1>5. x - b < n /\ n <= x
  BY ONLY <1>2, <1>3, <1>4, n \in Nat, b \in Nat
<1>6. q # 0
  BY ONLY <1>2, <1>3, <1>4
<1>7. bytesToBlocks(n) = q
  BY <1>1, <1>2, <1>3 DEF bytesToBlocks
<1> QED BY <1>1, <1>4, <1>5, <1>6, <1>7

\* ... and any number that is so is the number of blocks.
LEMMA CeilingIs ==
  ASSUME NEW n \in Nat \ {0}, NEW q \in Nat, NEW x \in Nat, x = BlockSize * q,
         x - BlockSize < n, n <= x
  PROVE  bytesToBlocks(n) = q
<1>1. PICK b \in Nat \ {0} : b = BlockSize
  BY FatAssumption
<1>2. PICK a \in Nat : a = n + b - 1
  OBVIOUS
<1>3. PICK r \in 0..(b - 1) : a = x + r
  BY <1>1, <1>2
<1>4. a = b * q + r
  BY <1>1, <1>3
<1>5. a \div b = q
  BY <1>4, DivisionIs
<1> QED BY <1>1, <1>2, <1>5 DEF bytesToBlocks

\* Multiples of the block size add up.
LEMMA Multiples ==
  ASSUME NEW q \in Nat, NEW s \in Nat
  PROVE  /\ BlockSize * q \in Nat /\ BlockSize * s \in Nat /\ BlockSize \in Nat \ {0}
         /\ BlockSize * (q + s) = BlockSize * q + BlockSize * s
         /\ BlockSize * (q + 1) = BlockSize * q + BlockSize
         /\ BlockSize * 1 = BlockSize /\ BlockSize * 0 = 0
<1>1. PICK b \in Nat \ {0} : b = BlockSize
  BY FatAssumption
<1>2. b * q \in Nat /\ b * s \in Nat /\ b * (q + s) = b * q + b * s
      /\ b * (q + 1) = b * q + b /\ b * 1 = b /\ b * 0 = 0
  OBVIOUS
<1> QED BY <1>1, <1>2

\* What a file lacks is what it has less than it is to have.
LEMMA LacksFacts ==
  ASSUME NEW size \in Nat, NEW n \in Nat
  PROVE  /\ Lacks(size, n) \in Nat
         /\ bytesToBlocks(size + n) = bytesToBlocks(size) + Lacks(size, n)
         /\ size % BlockSize = 0 => Lacks(size, n) = bytesToBlocks(n)
         /\ size % BlockSize # 0 /\ n # 0 =>
              bytesToBlocks((size % BlockSize) + n) = Lacks(size, n) + 1
         /\ n = 0 => Lacks(size, n) = 0
         /\ size % BlockSize \in 0..(BlockSize - 1)
<1>1. PICK b \in Nat \ {0} : b = BlockSize
  BY FatAssumption
<1>2. PICK s \in Nat, w \in 0..(b - 1) : size = b * s + w /\ size % b = w
  BY Division
<1>3. PICK x \in Nat : x = b * s /\ size = x + w
  BY <1>2
<1>4. \A q \in Nat : b * (q + 1) = b * q + b /\ b * q \in Nat
  OBVIOUS
<1>5. CASE w = 0
  <2>1. Lacks(size, n) = bytesToBlocks(n) /\ bytesToBlocks(n) \in Nat
    BY <1>1, <1>2, <1>5, BlocksPositive DEF Lacks
  <2>2. bytesToBlocks(size) = s
    <3>1. CASE s = 0
      <4>1. size = 0
        BY <1>2, <1>5, <3>1
      <4> QED BY <3>1, <4>1, BlocksPositive
    <3>2. CASE s # 0
      <4>1. size # 0
        BY <1>2, <1>5, <3>2
      <4> QED BY <1>1, <1>3, <1>5, <4>1, CeilingIs
    <3> QED BY <3>1, <3>2
  <2>3. CASE n = 0
    BY <1>1, <1>2, <1>5, <2>1, <2>2, <2>3, BlocksPositive
  <2>4. CASE n # 0
    <3>1. PICK q \in Nat \ {0}, y \in Nat :
            bytesToBlocks(n) = q /\ y = b * q /\ y - b < n /\ n <= y
      BY <1>1, <2>4, Ceiling
    <3>2. PICK z \in Nat : z = x + y
      OBVIOUS
    <3>3. z = b * (s + q)
      <4>1. b * (s + q) = b * s + b * q
        BY b \in Nat, s \in Nat, q \in Nat
      <4> QED BY <1>3, <3>1, <3>2, <4>1
    <3>4. z - b < size + n /\ size + n <= z /\ size + n \in Nat \ {0}
      BY <1>3, <1>5, <2>4, <3>1, <3>2
    <3>5. bytesToBlocks(size + n) = s + q
      BY <1>1, <3>3, <3>4, CeilingIs
    <3> QED BY <1>1, <1>2, <1>5, <2>1, <2>2, <2>4, <3>1, <3>5
  <2> QED BY <2>3, <2>4
<1>6. CASE w # 0
  <2>1. b * (s + 1) = x + b /\ size # 0
    BY <1>3, <1>4, <1>6
  <2>2. bytesToBlocks(size) = s + 1
    BY <1>1, <1>3, <1>6, <2>1, CeilingIs
  <2>3. PICK d \in Int : d = n - (b - w)
    OBVIOUS
  <2>4. Lacks(size, n) = bytesToBlocks(d)
    BY <1>1, <1>2, <1>6, <2>3 DEF Lacks
  <2>5. CASE d <= 0
    <3>1. Lacks(size, n) = 0
      BY <2>4, <2>5 DEF bytesToBlocks
    <3>2. bytesToBlocks(size + n) = s + 1
      <4>1. size + n \in Nat \ {0} /\ (x + b) - b < size + n /\ size + n <= x + b
            /\ x + b \in Nat /\ s + 1 \in Nat
        BY <1>3, <1>6, <2>3, <2>5
      <4> QED BY <1>1, <2>1, <4>1, CeilingIs
    <3>3. n # 0 => bytesToBlocks(w + n) = 1
      <4>1. HAVE n # 0
      <4>2. w + n \in Nat \ {0} /\ b - b < w + n /\ w + n <= b /\ b = b * 1
        BY <1>6, <2>3, <2>5
      <4> QED BY <1>1, <4>2, CeilingIs
    <3> QED BY <1>1, <1>2, <1>6, <2>2, <3>1, <3>2, <3>3
  <2>6. CASE d > 0
    <3>1. PICK q \in Nat \ {0}, y \in Nat :
            bytesToBlocks(d) = q /\ y = b * q /\ y - b < d /\ d <= y
      BY <1>1, <2>6, Ceiling
    <3>2. bytesToBlocks(size + n) = s + 1 + q
      <4>1. b * ((s + 1) + q) = b * (s + 1) + b * q
        BY b \in Nat, s \in Nat, q \in Nat
      <4>2. PICK z \in Nat : z = x + b + y
        OBVIOUS
      <4>3. z = b * (s + 1 + q)
        BY <2>1, <3>1, <4>1, <4>2
      <4>4. size + n \in Nat \ {0} /\ z - b < size + n /\ size + n <= z /\ s + 1 + q \in Nat
        BY <1>3, <1>6, <2>3, <2>6, <3>1, <4>2
      <4> QED BY <1>1, <4>3, <4>4, CeilingIs
    <3>3. bytesToBlocks(w + n) = 1 + q
      <4>1. b * (q + 1) = y + b
        BY <1>4, <3>1
      <4>2. w + n \in Nat \ {0} /\ (y + b) - b < w + n /\ w + n <= y + b /\ y + b \in Nat
        BY <1>6, <2>3, <2>6, <3>1
      <4> QED BY <1>1, <4>1, <4>2, CeilingIs
    <3>4. n # 0 /\ Lacks(size, n) = q
      BY <2>3, <2>4, <2>6, <3>1
    <3> QED BY <1>1, <1>2, <1>6, <2>2, <3>1, <3>2, <3>3, <3>4
  <2> QED BY <2>5, <2>6
<1> QED BY <1>5, <1>6

\* A byte lies in one of the blocks of its file.
LEMMA BlockOfByte ==
  ASSUME NEW n \in Nat \ {0}, NEW k \in 0..(n - 1)
  PROVE  k \div BlockSize \in 0..(bytesToBlocks(n) - 1) /\ k % BlockSize \in 0..(BlockSize - 1)
<1>1. PICK b \in Nat \ {0} : b = BlockSize
  BY FatAssumption
<1>2. PICK q \in Nat \ {0}, x \in Nat :
        bytesToBlocks(n) = q /\ x = b * q /\ x - b < n /\ n <= x
  BY <1>1, Ceiling
<1>3. PICK p \in Nat, r \in 0..(b - 1) : k = b * p + r /\ k \div b = p /\ k % b = r
  BY Division
<1>4. p < q
  <2> SUFFICES ASSUME p >= q PROVE FALSE
    OBVIOUS
  <2>1. PICK d \in Nat : p = q + d
    OBVIOUS
  <2>2. b * (q + d) = b * q + b * d /\ b * d \in Nat
    BY b \in Nat, q \in Nat, d \in Nat
  <2>3. b * p >= x
    BY <1>2, <2>1, <2>2
  <2> QED BY <1>2, <1>3, <2>3
<1> QED BY <1>1, <1>2, <1>3, <1>4

\* The blocks of the directory.
LEMMA DirBlocksFacts ==
  ASSUME NEW n \in Nat
  PROVE  /\ DirBlocks(n) \in Nat /\ (n = 0 <=> DirBlocks(n) = 0)
         /\ DirBlocks(n + 1) = DirBlocks(n) + (IF n % PerBlock = 0 THEN 1 ELSE 0)
         /\ n <= PerBlock => DirBlocks(n) <= 1
<1>1. PICK b \in Nat \ {0} : b = PerBlock
  BY FatAssumption
<1>2. PICK s \in Nat, w \in 0..(b - 1) : n = b * s + w /\ n % b = w
  BY Division
<1>3. PICK x \in Nat : x = b * s /\ n = x + w
  BY <1>2
<1>4. b * (s + 1) = x + b
  BY <1>3
<1>5. (s >= 1 => x >= b) /\ (s >= 2 => x >= b + b) /\ (s = 0 => x = 0)
  <2>1. CASE s = 0
    BY <1>3, <2>1
  <2>2. CASE s = 1
    BY <1>3, <2>2
  <2>3. CASE s >= 2
    <3>1. PICK d \in Nat : s = d + 2
      BY <2>3
    <3>2. b * (d + 2) = b * d + b + b /\ b * d \in Nat
      BY b \in Nat, d \in Nat
    <3> QED BY <1>3, <3>1, <3>2
  <2> QED BY <2>1, <2>2, <2>3
<1>6. PICK a \in Nat, c \in Nat : a = n + b - 1 /\ c = (n + 1) + b - 1
  OBVIOUS
<1>7. DirBlocks(n) = a \div b /\ DirBlocks(n + 1) = c \div b
  BY <1>1, <1>6 DEF DirBlocks
<1>8. c \div b = s + 1
  <2>1. c = b * (s + 1) + w
    BY <1>3, <1>4, <1>6
  <2> QED BY <2>1, DivisionIs, s + 1 \in Nat
<1>9. CASE w = 0
  <2>1. a = b * s + (b - 1) /\ b - 1 \in 0..(b - 1)
    BY <1>3, <1>6, <1>9
  <2>2. a \div b = s
    BY <2>1, DivisionIs
  <2>3. n = 0 <=> s = 0
    BY <1>3, <1>5, <1>9
  <2>4. n <= b => s <= 1
    BY <1>3, <1>5, <1>9
  <2> QED BY <1>1, <1>2, <1>7, <1>8, <1>9, <2>2, <2>3, <2>4
<1>10. CASE w # 0
  <2>1. a = b * (s + 1) + (w - 1) /\ w - 1 \in 0..(b - 1)
    BY <1>3, <1>4, <1>6, <1>10
  <2>2. a \div b = s + 1
    BY <2>1, DivisionIs, s + 1 \in Nat
  <2>3. n # 0
    BY <1>3, <1>10
  <2>4. n <= b => s = 0
    BY <1>3, <1>5, <1>10
  <2> QED BY <1>1, <1>2, <1>7, <1>8, <1>10, <2>2, <2>3, <2>4
<1> QED BY <1>9, <1>10

-----------------------------------------------------------------------------
(***************************************************************************)
(* Writing.                                                                *)
(***************************************************************************)
\* What is read from a cell.
Content == Byte \cup {Junk}

\* The bytes in the blocks, as they should be.
DataOK(data) == DOMAIN data \subseteq Cell /\ Range(data) \subseteq Content

\* A nonempty set of numbers up to n has a greatest.
LEMMA MaxOfNaturals ==
  ASSUME NEW n \in Nat, NEW T, T \subseteq 1..n, T # {}
  PROVE  Max(T) \in T
<1> DEFINE U == {n - j : j \in T}
<1>1. U \subseteq Nat /\ U # {}
  <2>1. \A j \in T : j \in 1..n /\ n - j \in Nat
    BY SMT
  <2> QED BY <2>1
<1>2. Min(U) \in U /\ \A y \in U : Min(U) <= y
  <2> HIDE DEF U
  <2> QED BY <1>1, MinOfNaturals
<1>3. PICK m \in T : Min(U) = n - m
  BY <1>2
<1>4. ASSUME NEW j \in T PROVE m >= j
  <2>1. n - j \in U
    OBVIOUS
  <2>2. n - m <= n - j /\ m \in 1..n /\ j \in 1..n
    BY <1>2, <1>3, <2>1
  <2> QED BY <2>2
<1>5. \E x \in T : \A y \in T : x >= y
  BY <1>4
<1> QED BY <1>5 DEF Max

\* What is written are bytes in cells.
LEMMA WrittenOK ==
  ASSUME NEW bytes \in Seq(Content), NEW cell, DOMAIN cell = DOMAIN bytes,
         \A j \in DOMAIN bytes : cell[j] \in Cell
  PROVE  DataOK(Written(cell, bytes))
<1>1. Len(bytes) \in Nat /\ DOMAIN bytes = 1..Len(bytes) /\ \A j \in DOMAIN bytes : bytes[j] \in Content
  BY LenProperties, ElementOfSeq
<1> DEFINE w == Written(cell, bytes)
<1>2. DOMAIN w = Range(cell)
  BY DEF Written
<1>3. ASSUME NEW x \in Range(cell) PROVE x \in Cell /\ w[x] \in Content
  <2>1. PICK k \in DOMAIN bytes : cell[k] = x
    BY DEF Range
  <2> DEFINE T == {j \in DOMAIN bytes : cell[j] = x}
  <2>2. T \subseteq 1..Len(bytes) /\ T # {}
    BY <1>1, <2>1
  <2>3. Max(T) \in T
    <3> HIDE DEF T
    <3> QED BY <1>1, <2>2, MaxOfNaturals
  <2>4. w[x] = bytes[Max(T)]
    BY DEF Written
  <2> HIDE DEF w
  <2> QED BY <1>1, <2>1, <2>3, <2>4
<1> HIDE DEF w
<1>4. Range(w) \subseteq Content
  BY <1>2, <1>3 DEF Range
<1> QED BY <1>2, <1>3, <1>4 DEF DataOK, w

\* ... and go before what was there.
LEMMA DataMerged ==
  ASSUME NEW d, DataOK(d), NEW e, DataOK(e)
  PROVE  DataOK(Over(d, e))
BY DEF DataOK, Range, Over

\* h has come from f by writes alone.
Wrote(f, h) ==
  /\ DOMAIN h = Fields /\ f.damage \subseteq h.damage
  /\ h.dir = f.dir /\ h.disk = f.disk /\ h.freeBlocks = f.freeBlocks

\* The cells along loop g that they are written to, from offset on.
CellsAlong(g, offset, bytes) ==
  [j \in DOMAIN bytes |-> <<g[(offset + j - 1) \div BlockSize].host,
                            (offset + j - 1) % BlockSize>>]

\* Bytes are written along the loop.
LEMMA WriteAlongFacts ==
  ASSUME NEW f, DOMAIN f = Fields, NEW g, NEW n, NEW offset, NEW bytes
  PROVE  LET h == WriteAlong(f, g, n, offset, bytes)
         IN  /\ Wrote(f, h) /\ h.blocks = Ended(g[n])
             /\ ~g[n].clean => "no_room_behind" \in h.damage
             /\ g[0].at = 1 => "block_1_taken" \in h.damage
             /\ h.data = Over(Written(CellsAlong(g, offset, bytes), bytes), f.data)
<1> DEFINE w == Written(CellsAlong(g, offset, bytes), bytes)
           a == Flag("no_room_behind", ~g[n].clean)
           b == Flag("block_1_taken", g[0].at = 1)
           t == Terminate(f, g[n])
           h == WriteAlong(f, g, n, offset, bytes)
<1>1. /\ DOMAIN t = Fields /\ t.blocks = Ended(g[n]) /\ t.damage = f.damage \cup a
      /\ t.dir = f.dir /\ t.disk = f.disk /\ t.freeBlocks = f.freeBlocks /\ t.data = f.data
  BY DEF Terminate, Ended, Fields
<1>2. h = [t EXCEPT !.data = Over(w, @), !.damage = @ \cup b]
  BY DEF WriteAlong, CellsAlong
<1> HIDE DEF w, a, b, t, h
<1>3. /\ DOMAIN h = Fields /\ h.blocks = t.blocks /\ h.damage = t.damage \cup b
      /\ h.dir = t.dir /\ h.disk = t.disk /\ h.freeBlocks = t.freeBlocks
      /\ h.data = Over(w, t.data)
  BY <1>1, <1>2 DEF Fields
<1>4. /\ ~g[n].clean => "no_room_behind" \in a
      /\ g[0].at = 1 => "block_1_taken" \in b
  BY DEF a, b, Flag
<1> QED BY <1>1, <1>3, <1>4 DEF Wrote, w, h

\* h is what Write makes of f when it takes n blocks behind block c of table t.
Outcome(f, h, t, c, n) ==
  /\ n \in Nat /\ Wrote(f, h) /\ h.blocks = Ended(Grow(t, c, n)[n])
  /\ "no_room_behind" \notin h.damage => Grow(t, c, n)[n].clean
  /\ "block_1_taken" \notin h.damage => c # 1
  /\ /\ DataOK(f.data) /\ Grow(t, c, n)[n].clean
     /\ t[c] \in {0, Eof} /\ n <= Cardinality(Free(t) \ {1, c})
     => DataOK(h.data)

\* Write does what Outcome says of its result.
LEMMA WriteFacts ==
  ASSUME NEW f, DOMAIN f = Fields, NEW t \in Links, NEW c \in Index \ {0},
         NEW offset \in 0..(BlockSize - 1), NEW bytes \in Seq(Content), bytes # <<>>
  PROVE  Outcome(f, Write(f, t, c, offset, bytes), t, c,
                 bytesToBlocks(offset + Len(bytes)) - 1)
<1>0. BlockSize \in Nat \ {0}
  BY FatAssumption
<1> DEFINE N == offset + Len(bytes)
           n == bytesToBlocks(N) - 1
           g == Grow(t, c, n)
           h == Write(f, t, c, offset, bytes)
           cell == CellsAlong(g, offset, bytes)
<1>1. Len(bytes) \in Nat \ {0} /\ DOMAIN bytes = 1..Len(bytes)
  BY EmptySeq, LenProperties
<1>2. N \in Nat \ {0} /\ bytesToBlocks(N) \in Nat \ {0}
  <2>1. offset \in Nat
    BY <1>0
  <2>2. N \in Nat \ {0}
    BY <1>1, <2>1
  <2> HIDE DEF N
  <2> QED BY <2>2, BlocksPositive
<1>3. n \in Nat
  BY <1>2
<1>4. h = WriteAlong(f, g, n, offset, bytes)
  BY DEF Write
<1>5. g[0].at = c
  <2> HIDE DEF n
  <2>1. g[0] = [links |-> t, at |-> c, host |-> c, clean |-> TRUE]
    BY <1>3, GrowIs
  <2> QED BY <2>1
<1> HIDE DEF n
<1>6. /\ Wrote(f, h) /\ h.blocks = Ended(g[n])
      /\ ~g[n].clean => "no_room_behind" \in h.damage
      /\ g[0].at = 1 => "block_1_taken" \in h.damage
      /\ h.data = Over(Written(cell, bytes), f.data)
  <2> HIDE DEF g, h
  <2> QED BY <1>4, WriteAlongFacts
<1> HIDE DEF h
<1>7. ASSUME DataOK(f.data), g[n].clean, t[c] \in {0, Eof},
             n <= Cardinality(Free(t) \ {1, c})
      PROVE  DataOK(h.data)
  <2>1. \A i \in 0..n : g[i].host \in Index
    BY <1>3, <1>7, HostsAreBlocks
  <2> HIDE DEF g
  <2>2. ASSUME NEW j \in DOMAIN bytes PROVE cell[j] \in Cell
    <3>1. /\ j \in 1..Len(bytes) /\ offset \in Nat
          /\ offset + j - 1 \in 0..(N - 1)
      BY <1>0, <1>1
    <3> DEFINE k == offset + j - 1
    <3>2. cell[j] = <<g[k \div BlockSize].host, k % BlockSize>>
      BY DEF CellsAlong
    <3> HIDE DEF k, cell, N
    <3>3. k \div BlockSize \in 0..(bytesToBlocks(N) - 1) /\ k % BlockSize \in 0..(BlockSize - 1)
      BY <1>2, <3>1, BlockOfByte DEF k
    <3>4. k \div BlockSize \in 0..n
      BY <3>3 DEF n
    <3> QED BY <2>1, <3>2, <3>3, <3>4 DEF Cell
  <2>3. DOMAIN cell = DOMAIN bytes
    BY DEF CellsAlong
  <2> HIDE DEF cell
  <2>4. DataOK(Written(cell, bytes))
    BY <2>2, <2>3, WrittenOK
  <2> QED BY <1>6, <1>7, <2>4, DataMerged
<1> HIDE DEF g
<1> QED BY <1>3, <1>5, <1>6, <1>7 DEF Outcome, g, h, n, N

-----------------------------------------------------------------------------
(***************************************************************************)
(* Sound file systems.                                                     *)
(***************************************************************************)
\* Blocks that a directory d of k blocks is still to get.
Lacking(d, k) == IF DirBlocks(Len(d)) > k THEN DirBlocks(Len(d)) - k ELSE 0

\* A file system the directory of which has k blocks.
Sound(f, k) ==
  /\ DOMAIN f = Fields /\ DataOK(f.data)
  /\ f.dir \in Seq(Entry) /\ f.disk \in Seq(Entry) \cup {Outdated}
  /\ Layout(f.blocks, f.dir, k)
  /\ f.freeBlocks \in Nat
  /\ f.freeBlocks + Lacking(f.dir, k) <= Cardinality(Free(f.blocks) \ {1})

\* The situations in which file.c damages table or directory.
Forbidden ==
  {"no_room_behind", "append_to_empty", "touch_full_block", "block_1_taken",
   "load_unsaved", "load_long_directory"}

Innocent(f) == f.damage \cap Forbidden = {}

\* h has come from f by functions that leave the directory on disk alone.
Grows(f, h) == DOMAIN h = Fields /\ f.damage \subseteq h.damage /\ h.disk = f.disk

\* ... and, if nothing was damaged, keep a file system sound.
Keeps(f, h, k) == Grows(f, h) /\ (Sound(f, k) /\ Innocent(h) => Sound(h, k))

\* What does nothing keeps a file system sound.
LEMMA KeepsStill == ASSUME NEW f, DOMAIN f = Fields, NEW k PROVE Keeps(f, f, k)
BY DEF Keeps, Grows

\* What keeps it sound may be done in turn.
LEMMA KeepsOn ==
  ASSUME NEW f, NEW g, NEW h, NEW k, Keeps(f, g, k), Keeps(g, h, k)
  PROVE  Keeps(f, h, k)
BY DEF Keeps, Grows, Innocent

\* The places and the entries of a directory.
LEMMA Places ==
  ASSUME NEW d \in Seq(Entry)
  PROVE  /\ Len(d) \in Nat /\ DOMAIN d = 1..Len(d)
         /\ \A i \in DOMAIN d :
              /\ d[i] \in Entry
              /\ d[i].name \in Name /\ d[i].size \in Nat /\ d[i].firstBlock \in Index
              /\ d[i].perm \in Perms /\ d[i].at \in Addr
              /\ DOMAIN d[i] = {"name", "size", "firstBlock", "perm", "at"}
<1>1. Len(d) \in Nat /\ DOMAIN d = 1..Len(d) /\ \A i \in DOMAIN d : d[i] \in Entry
  BY LenProperties, ElementOfSeq
<1> QED BY <1>1 DEF Entry

\* The directory needs no more blocks than it has and lacks.
LEMMA LackingIs ==
  ASSUME NEW d \in Seq(Entry), NEW k \in Nat
  PROVE  /\ Lacking(d, k) \in Nat /\ DirBlocks(Len(d)) \in Nat
         /\ DirBlocks(Len(d)) <= k + Lacking(d, k)
<1>1. PICK n : n = DirBlocks(Len(d))
  OBVIOUS
<1>2. n \in Nat
  BY <1>1, Places, DirBlocksFacts
<1> QED BY <1>1, <1>2 DEF Lacking

\* Another entry in one of the places.
IsReplaced(d, i, e, x) ==
  /\ x \in Seq(Entry) /\ Len(x) = Len(d) /\ DOMAIN x = DOMAIN d
  /\ x[i] = e /\ \A j \in DOMAIN d \ {i} : x[j] = d[j]

\* EXCEPT puts the entry there and leaves the others.
LEMMA Replaced ==
  ASSUME NEW d \in Seq(Entry), NEW i \in DOMAIN d, NEW e \in Entry
  PROVE  IsReplaced(d, i, e, [d EXCEPT ![i] = e])
<1>1. /\ Len(d) \in Nat /\ DOMAIN d = 1..Len(d) /\ \A j \in DOMAIN d : d[j] \in Entry
  BY Places
<1> DEFINE x == [d EXCEPT ![i] = e]
<1>2. d \in [1..Len(d) -> Entry]
  BY <1>1
<1>3. x \in [1..Len(d) -> Entry]
  BY <1>1, <1>2
<1>4. x \in Seq(Entry) /\ Len(x) = Len(d)
  <2> HIDE DEF x
  <2> QED BY <1>1, <1>3, SeqDef, LenProperties
<1> QED BY <1>1, <1>2, <1>4 DEF IsReplaced

\* What deleteFileHelper gives back.
LEMMA ReleasedIs ==
  ASSUME NEW f, f.blocks \in Links, NEW i
  PROVE  Released(f, i) = Cleared(f.blocks, BlocksOf(f.blocks, f.dir[i]))
<1> DEFINE t == f.blocks
           e == f.dir[i]
<1>1. CASE e.size = 0
  <2>1. Cleared(t, {}) = t
    BY DEF Cleared, Links
  <2> QED BY <1>1, <2>1 DEF Released, deleteFileHelper, BlocksOf
<1>2. CASE e.size # 0
  BY <1>2 DEF Released, deleteFileHelper, BlocksOf, Cleared
<1> QED BY <1>1, <1>2

\* A search for a free block that has found one.
LEMMA FoundFree ==
  ASSUME NEW t, NEW default
  PROVE  LET c == FirstFree(t, 1, default)
         IN  /\ Free(t) # {} => c \in Free(t)
             /\ Free(t) = {} => c = default
<1>1. \A b \in Free(t) : b \in Nat /\ b >= 1
  BY FatAssumption DEF Free, Index
<1>2. {b \in Free(t) : b >= 1} = Free(t)
  BY <1>1
<1>3. Free(t) # {} => Min(Free(t)) \in Free(t)
  BY <1>1, MinOfNaturals
<1> QED BY <1>2, <1>3 DEF FirstFree

\* The blocks of file i have become others.
LEMMA FileTaken ==
  ASSUME EofIsNoBlock, NEW f, NEW k, Sound(f, k), NEW i \in DOMAIN f.dir,
         NEW e \in Entry, NEW h, DOMAIN h = Fields, DataOK(h.data), h.disk = f.disk,
         h.dir = [f.dir EXCEPT ![i] = e],
         h.freeBlocks = f.freeBlocks + bytesToBlocks(f.dir[i].size) - bytesToBlocks(e.size),
         h.freeBlocks >= 0,
         e.size = 0 => h.blocks = Cleared(f.blocks, BlocksOf(f.blocks, f.dir[i])),
         e.size # 0 => TakesOver(Cleared(f.blocks, BlocksOf(f.blocks, f.dir[i])), h.blocks,
                                 e.firstBlock, bytesToBlocks(e.size))
  PROVE  Sound(h, k)
<1> DEFINE d == f.dir
           t == f.blocks
           u == Cleared(t, BlocksOf(t, d[i]))
           rest == Without(d, i)
           m == bytesToBlocks(d[i].size)
           n == bytesToBlocks(e.size)
<1>1. /\ d \in Seq(Entry) /\ f.disk \in Seq(Entry) \cup {Outdated}
      /\ Layout(t, d, k) /\ f.freeBlocks \in Nat
      /\ f.freeBlocks + Lacking(d, k) <= Cardinality(Free(t) \ {1})
  BY DEF Sound
<1>2. /\ Layout(u, rest, k)
      /\ Cardinality(Free(u) \ {1}) = Cardinality(Free(t) \ {1}) + m
  <2>1. Layout(t, d, k) /\ i \in DOMAIN d
    BY <1>1
  <2> HIDE DEF d, t
  <2>2. IsReleased(t, u, d, i, k)
    BY <2>1, FileReleased
  <2> QED BY <2>2 DEF IsReleased
<1>3. /\ h.dir \in Seq(Entry) /\ Len(h.dir) = Len(d) /\ DOMAIN h.dir = DOMAIN d
      /\ h.dir[i] = e /\ \A j \in DOMAIN d \ {i} : h.dir[j] = d[j]
  <2> HIDE DEF d
  <2>1. i \in DOMAIN d /\ h.dir = [d EXCEPT ![i] = e]
    BY DEF d
  <2>2. IsReplaced(d, i, e, [d EXCEPT ![i] = e])
    BY <1>1, <2>1, Replaced
  <2> QED BY <2>1, <2>2 DEF IsReplaced
<1>4. /\ DOMAIN rest = DOMAIN d \ {i}
      /\ i \notin DOMAIN rest /\ DOMAIN h.dir = DOMAIN rest \cup {i}
      /\ \A j \in DOMAIN rest : h.dir[j] = rest[j]
  BY <1>3 DEF Without
<1>5. e.size \in Nat /\ d[i].size \in Nat
  BY <1>1, Places DEF Entry
<1>6. m \in Nat /\ n \in Nat /\ (e.size = 0 <=> n = 0)
  <2> HIDE DEF d
  <2> QED BY <1>5, BlocksPositive
<1>7. h.freeBlocks = f.freeBlocks + m - n
  OBVIOUS
<1>8. /\ Layout(h.blocks, h.dir, k)
      /\ Cardinality(Free(h.blocks) \ {1}) = Cardinality(Free(u) \ {1}) - n
  <2>1. CASE e.size = 0
    <3>1. h.blocks = u
      BY <2>1
    <3> HIDE DEF rest, u, n
    <3>2. Layout(u, h.dir, k)
      BY <1>2, <1>3, <1>4, <2>1, EmptyFileAdded
    <3>3. Cardinality(Free(u) \ {1}) \in Nat
      BY FreeFinite
    <3> QED BY <1>6, <2>1, <3>1, <3>2, <3>3
  <2>2. CASE e.size # 0
    <3>1. TakesOver(u, h.blocks, e.firstBlock, n)
      BY <2>2
    <3>2. n \in Nat \ {0} /\ e.size \in Nat \ {0} /\ bytesToBlocks(e.size) = n
      BY <1>5, <1>6, <2>2
    <3> HIDE DEF rest, u, n
    <3>3. Adds(rest, i, e.firstBlock, n, h.dir)
      BY <1>3, <1>4, <3>2 DEF Adds
    <3> QED BY <1>2, <3>1, <3>3, FileAdded
  <2> QED BY <2>1, <2>2
<1>9. Lacking(h.dir, k) = Lacking(d, k)
  BY <1>3 DEF Lacking
<1>10. k \in Nat /\ DirBlocks(Len(d)) \in Nat
  BY <1>1, Places, DirBlocksFacts DEF Layout
<1>11. Lacking(d, k) \in Nat
  BY <1>10 DEF Lacking
<1>12. Cardinality(Free(t) \ {1}) \in Nat
  BY FreeFinite
<1> HIDE DEF d, t, u, rest, m, n
<1>13. h.freeBlocks \in Nat
  BY <1>1, <1>6, <1>7
<1>14. h.freeBlocks + Lacking(h.dir, k) <= Cardinality(Free(h.blocks) \ {1})
  BY <1>1, <1>2, <1>6, <1>7, <1>8, <1>9, <1>11, <1>12
<1> QED BY <1>1, <1>3, <1>8, <1>13, <1>14 DEF Sound

\* Nothing is written.
LEMMA NothingWritten ==
  ASSUME NEW f, DOMAIN f = Fields, NEW t, NEW c, NEW offset
  PROVE  LET w == Write(f, t, c, offset, <<>>)
         IN  /\ DOMAIN w = Fields /\ w.blocks = t /\ w.data = f.data /\ w.dir = f.dir
             /\ w.disk = f.disk /\ w.freeBlocks = f.freeBlocks /\ w.damage = f.damage
BY DEF Write, Fields

\* An entry with another size and first block.
Resized(e, size, first) == [e EXCEPT !.size = size, !.firstBlock = first]

\* It is an entry.
LEMMA ResizedIs ==
  ASSUME NEW e \in Entry, NEW size \in Nat, NEW first \in Index
  PROVE  /\ Resized(e, size, first) \in Entry
         /\ Resized(e, size, first).size = size
         /\ Resized(e, size, first).firstBlock = first
BY DEF Resized, Entry

\* From free block c of t on a file has been written to w, the bytes at offset.
LEMMA FileWrittenAt ==
  ASSUME EofIsNoBlock, NEW f, DOMAIN f = Fields, DataOK(f.data), NEW t \in Links,
         NEW bytes \in Seq(Content), bytes # <<>>, NEW offset \in 0..(BlockSize - 1),
         NEW c \in Free(t) \ {1},
         bytesToBlocks(offset + Len(bytes)) <= Cardinality(Free(t) \ {1}),
         NEW w, w = Write(f, t, c, offset, bytes), "no_room_behind" \notin w.damage
  PROVE  /\ Wrote(f, w) /\ DataOK(w.data)
         /\ TakesOver(t, w.blocks, c, bytesToBlocks(offset + Len(bytes)))
<1>1. Len(bytes) \in Nat \ {0} /\ offset \in Nat
  BY EmptySeq, LenProperties, FatAssumption
<1>2. PICK m : m = bytesToBlocks(offset + Len(bytes))
  OBVIOUS
<1>3. m \in Nat \ {0}
  <2>1. offset + Len(bytes) \in Nat /\ offset + Len(bytes) # 0
    BY <1>1
  <2> QED BY <1>2, <2>1, BlocksPositive
<1>4. PICK n : n = m - 1
  OBVIOUS
<1>5. n \in Nat /\ n + 1 = m
  BY <1>3, <1>4
<1>6. c \in Index \ {0}
  BY DEF Free
<1>7. Outcome(f, w, t, c, n)
  BY <1>2, <1>4, <1>6, WriteFacts
<1>8. Grow(t, c, n)[n].clean
  BY <1>7 DEF Outcome
<1>9. t[c] \in {0, Eof} /\ n <= Cardinality(Free(t) \ {1, c})
  <2>1. t[c] = 0
    BY DEF Free
  <2>2. Cardinality(Free(t) \ {1, c}) = Cardinality(Free(t) \ {1}) - 1
    BY OneTaken
  <2>3. Cardinality(Free(t) \ {1}) \in Nat
    BY FreeFinite
  <2> QED BY <1>2, <1>5, <2>1, <2>2, <2>3
<1>10. TakesOver(t, Ended(Grow(t, c, n)[n]), c, n + 1)
  BY <1>2, <1>5, <1>8, FreshChain
<1> QED BY <1>2, <1>5, <1>7, <1>8, <1>9, <1>10 DEF Outcome

\* A new file in t, which has been written to w.
LEMMA FileWritten ==
  ASSUME EofIsNoBlock, NEW f, DOMAIN f = Fields, DataOK(f.data), NEW t \in Links,
         NEW bytes \in Seq(Content), bytes # <<>>, NEW c, c = FirstFree(t, 1, 1),
         bytesToBlocks(Len(bytes)) <= Cardinality(Free(t) \ {1}),
         NEW w, w = Write(f, t, c, 0, bytes), Innocent(w)
  PROVE  /\ c \in Index \ {0} /\ Wrote(f, w) /\ DataOK(w.data)
         /\ TakesOver(t, w.blocks, c, bytesToBlocks(Len(bytes)))
<1>1. Free(t) \subseteq Index \ {0} /\ 1 \in Index \ {0}
  BY FatAssumption DEF Free, Index
<1>2. c \in Index \ {0} /\ (c # 1 => c \in Free(t))
  BY <1>1, FoundFree
<1>3. 0 \in 0..(BlockSize - 1) /\ 0 + Len(bytes) = Len(bytes)
  BY FatAssumption, LenProperties
<1>4. Outcome(f, w, t, c, bytesToBlocks(0 + Len(bytes)) - 1)
  BY <1>2, <1>3, WriteFacts
<1>5. "no_room_behind" \notin w.damage /\ "block_1_taken" \notin w.damage
  BY DEF Innocent, Forbidden
<1>6. c \in Free(t) \ {1}
  BY <1>2, <1>4, <1>5 DEF Outcome
<1>7. /\ Wrote(f, w) /\ DataOK(w.data)
      /\ TakesOver(t, w.blocks, c, bytesToBlocks(0 + Len(bytes)))
  BY <1>3, <1>5, <1>6, FileWrittenAt
<1> QED BY <1>2, <1>3, <1>7

\* An existing file is written from its beginning.
LEMMA OverwriteKeeps ==
  ASSUME EofIsNoBlock, NEW f, DOMAIN f = Fields, NEW k, NEW i,
         Sound(f, k) => i \in DOMAIN f.dir, NEW bytes \in Seq(Content)
  PROVE  Keeps(f, Overwrite(f, i, bytes).fs, k)
<1> DEFINE t == Released(f, i)
           c == FirstFree(t, 1, 1)
           first == IF bytes = <<>> THEN 0 ELSE c
           w == Write(f, t, c, 0, bytes)
           h == WriteAnew(f, i, bytes, t, c)
           e == Resized(f.dir[i], Len(bytes), first)
<1>1. \/ Overwrite(f, i, bytes).fs = f
      \/ ~(f.freeBlocks + Change(f, i, Len(bytes)) < 0) /\ Overwrite(f, i, bytes).fs = h
  BY DEF Overwrite, Done, Failed
<1>2. Beside(f, w)
  BY WriteBeside
<1>3. h = [w EXCEPT !.dir[i].size = Len(bytes), !.dir[i].firstBlock = first,
                    !.freeBlocks = @ + Change(f, i, Len(bytes))]
  BY DEF WriteAnew
<1> HIDE DEF t, c, w, h
<1>4. /\ DOMAIN h = Fields /\ h.damage = w.damage /\ h.disk = w.disk /\ h.data = w.data
      /\ h.blocks = w.blocks /\ h.freeBlocks = w.freeBlocks + Change(f, i, Len(bytes))
      /\ i \in DOMAIN w.dir =>
           h.dir = [w.dir EXCEPT ![i] = Resized(w.dir[i], Len(bytes), first)]
  <2> HIDE DEF first
  <2>1. DOMAIN w = Fields
    BY <1>2 DEF Beside
  <2> QED BY <1>3, <2>1 DEF Fields, Resized
<1>5. Grows(f, h)
  BY <1>2, <1>4 DEF Grows, Beside
<1>6. ASSUME Sound(f, k), Innocent(h), ~(f.freeBlocks + Change(f, i, Len(bytes)) < 0)
      PROVE  Sound(h, k)
  <2>1. /\ i \in DOMAIN f.dir
        /\ DataOK(f.data) /\ f.dir \in Seq(Entry) /\ Layout(f.blocks, f.dir, k)
        /\ f.freeBlocks \in Nat
        /\ f.freeBlocks + Lacking(f.dir, k) <= Cardinality(Free(f.blocks) \ {1})
    BY <1>6 DEF Sound
  <2>2. f.dir[i] \in Entry /\ f.dir[i].size \in Nat /\ Len(bytes) \in Nat
    BY <2>1, Places, LenProperties
  <2>3. PICK m : m = bytesToBlocks(f.dir[i].size)
    OBVIOUS
  <2>4. PICK q : q = bytesToBlocks(Len(bytes))
    OBVIOUS
  <2>5. m \in Nat /\ q \in Nat /\ (Len(bytes) = 0 <=> q = 0)
    BY <2>2, <2>3, <2>4, BlocksPositive
  <2>6. f.blocks \in Links /\ k \in Nat
    BY <2>1 DEF Layout
  <2>7. t = Cleared(f.blocks, BlocksOf(f.blocks, f.dir[i]))
    BY <2>6, ReleasedIs DEF t
  <2>8. t \in Links /\ Cardinality(Free(t) \ {1}) = Cardinality(Free(f.blocks) \ {1}) + m
    <3>1. /\ Layout(t, Without(f.dir, i), k)
          /\ Cardinality(Free(t) \ {1}) = Cardinality(Free(f.blocks) \ {1}) + m
      <4>1. IsReleased(f.blocks, t, f.dir, i, k)
        BY <2>1, <2>7, FileReleased
      <4> QED BY <2>3, <4>1 DEF IsReleased
    <3> QED BY <3>1 DEF Layout
  <2>9. Lacking(f.dir, k) \in Nat /\ Cardinality(Free(f.blocks) \ {1}) \in Nat
    BY <2>1, <2>6, LackingIs, FreeFinite
  <2>10. Change(f, i, Len(bytes)) = m - q /\ f.freeBlocks + (m - q) >= 0
    BY <1>6, <2>1, <2>3, <2>4, <2>5 DEF Change
  <2>11. q <= Cardinality(Free(t) \ {1})
    BY <2>1, <2>5, <2>8, <2>9, <2>10
  <2>12. Innocent(w)
    BY <1>4, <1>6 DEF Innocent
  <2>13. /\ first \in Index /\ w.freeBlocks = f.freeBlocks /\ DataOK(w.data)
         /\ Len(bytes) = 0 => w.blocks = t
         /\ Len(bytes) # 0 => TakesOver(t, w.blocks, first, q)
    <3>1. CASE bytes = <<>>
      <4>1. 0 \in Index /\ Len(bytes) = 0
        BY <3>1, FatAssumption DEF Index
      <4> QED BY <2>1, <3>1, <4>1, NothingWritten DEF w
    <3>2. CASE bytes # <<>>
      <4>1. /\ c \in Index \ {0} /\ Wrote(f, w) /\ DataOK(w.data)
            /\ TakesOver(t, w.blocks, c, q)
        BY <2>1, <2>4, <2>8, <2>11, <2>12, <3>2, FileWritten DEF c, w
      <4>2. Len(bytes) # 0
        BY <3>2, EmptySeq
      <4> QED BY <3>2, <4>1, <4>2 DEF Wrote
    <3> QED BY <3>1, <3>2
  <2> HIDE DEF first
  <2>14. e \in Entry /\ e.size = Len(bytes) /\ e.firstBlock = first
    BY <2>2, <2>13, ResizedIs
  <2> HIDE DEF e
  <2>15. h.dir = [f.dir EXCEPT ![i] = e] /\ h.disk = f.disk
    BY <1>2, <1>4, <1>6 DEF Beside, e
  <2>16. h.freeBlocks = f.freeBlocks + m - q /\ h.freeBlocks >= 0
    BY <1>4, <2>1, <2>5, <2>10, <2>13
  <2>17. /\ e.size = 0 => h.blocks = Cleared(f.blocks, BlocksOf(f.blocks, f.dir[i]))
         /\ e.size # 0 => TakesOver(Cleared(f.blocks, BlocksOf(f.blocks, f.dir[i])), h.blocks,
                                    e.firstBlock, bytesToBlocks(e.size))
    BY <1>4, <2>4, <2>7, <2>13, <2>14
  <2> QED BY <1>4, <1>6, <2>1, <2>3, <2>4, <2>13, <2>14, <2>15, <2>16, <2>17, FileTaken
<1>7. CASE Overwrite(f, i, bytes).fs = f
  BY <1>7, KeepsStill
<1>8. CASE Overwrite(f, i, bytes).fs # f
  <2>1. ~(f.freeBlocks + Change(f, i, Len(bytes)) < 0) /\ Overwrite(f, i, bytes).fs = h
    BY <1>1, <1>8
  <2> QED BY <1>5, <1>6, <2>1 DEF Keeps
<1> QED BY <1>7, <1>8

\* The situations in which a write from an offset on damages the table.
Misplaced ==
  {"offset_in_later_block", "offset_in_full_block", "offset_past_end", "offset_shortens"}

\* A write from an offset on stays within the first block, and the file gets longer.
IsPlaced(f, i, offset, bytes) ==
  /\ offset \in 0..(BlockSize - 1) /\ bytes # <<>>
  /\ f.dir[i].size # 0 /\ f.dir[i].size % BlockSize # 0
  /\ f.dir[i].size < offset + Len(bytes)

\* File i has been written from offset on, in links t.
Placed(f, i, offset, bytes, t, flags) ==
  [Write([f EXCEPT !.damage = @ \cup flags], t, f.dir[i].firstBlock, offset, bytes) EXCEPT
     !.dir[i].firstBlock = f.dir[i].firstBlock,
     !.dir[i].size = offset + Len(bytes),
     !.freeBlocks = @ + Change(f, i, offset + Len(bytes))]

\* A write that is not misplaced is of this kind.
LEMMA PlacedIs ==
  ASSUME NEW f, DOMAIN f = Fields, NEW i, f.dir[i].size \in Nat, NEW offset \in Nat \ {0},
         offset <= f.dir[i].size, NEW bytes \in Seq(Content), NEW t, NEW next,
         WriteBehind(f, i, offset, bytes, t, next).damage \cap Misplaced = {}
  PROVE  /\ IsPlaced(f, i, offset, bytes)
         /\ f.dir[i].firstBlock # 0 =>
              \E flags : WriteBehind(f, i, offset, bytes, t, next)
                           = Placed(f, i, offset, bytes, t, flags)
<1> DEFINE size == f.dir[i].size
           length == Len(bytes)
           later == offset >= BlockSize
           at == IF later THEN 0 ELSE f.dir[i].firstBlock
           full == size % BlockSize = 0
           c == IF full THEN next ELSE at
           within == offset % BlockSize
           outside == offset >= 2 * BlockSize \/ (c = 0 /\ within + length > BlockSize)
           found == [f EXCEPT !.damage = @ \cup Flag("offset_in_later_block", later)
                                            \cup Flag("link_outside", outside)
                                            \cup Flag("offset_in_full_block", full /\ ~later)
                                            \cup Flag("offset_shortens", offset + length <= size)]
           w == Write(found, IF full THEN [t EXCEPT ![at] = next] ELSE t, c, within, bytes)
           h == WriteBehind(f, i, offset, bytes, t, next)
<1>1. h = IF outside THEN found
          ELSE [w EXCEPT !.dir[i].firstBlock = IF length = 0 THEN 0 ELSE c,
                         !.dir[i].size = IF offset + length > size THEN offset + length ELSE length,
                         !.freeBlocks = @ + Change(f, i, offset + length)]
  BY DEF WriteBehind
<1>2. /\ DOMAIN found = Fields
      /\ later => "offset_in_later_block" \in found.damage
      /\ full /\ ~later => "offset_in_full_block" \in found.damage
      /\ offset + length <= size => "offset_shortens" \in found.damage
  <2> HIDE DEF later, full, outside, length, size
  <2> QED BY DEF Flag, Fields
<1>3. \E flags : found = [f EXCEPT !.damage = @ \cup flags]
  <2> HIDE DEF later, full, outside, length, size
  <2>1. found = [f EXCEPT !.damage = @ \cup (Flag("offset_in_later_block", later)
                                             \cup Flag("link_outside", outside)
                                             \cup Flag("offset_in_full_block", full /\ ~later)
                                             \cup Flag("offset_shortens", offset + length <= size))]
    BY DEF Fields
  <2> QED BY <2>1
<1>4. Beside(found, w)
  <2> HIDE DEF found
  <2> QED BY <1>2, WriteBeside
<1>5. found.damage \subseteq h.damage
  <2> HIDE DEF found, w, h, outside, c, length, size
  <2> QED BY <1>1, <1>2, <1>4 DEF Beside, Fields
<1>6. ~later /\ ~full /\ ~(offset + length <= size)
  <2> HIDE DEF found, h, later, full, length, size
  <2>1. found.damage \cap Misplaced = {}
    BY <1>5 DEF h
  <2> QED BY <1>2, <2>1 DEF Misplaced
<1>7. BlockSize \in Nat \ {0} /\ length \in Nat
  BY FatAssumption, LenProperties
<1>8. /\ offset \in 0..(BlockSize - 1) /\ within = offset
      /\ length # 0 /\ size # 0 /\ size < offset + length
  <2>1. PICK b \in Nat \ {0} : b = BlockSize
    BY <1>7
  <2>2. offset < b
    BY <1>6, <2>1
  <2>3. offset % b = offset
    BY <2>2
  <2> HIDE DEF length, size
  <2>4. length # 0 /\ size < offset + length
    BY <1>6, <1>7 DEF size
  <2>5. size # 0
    BY DEF size
  <2> QED BY <2>1, <2>2, <2>3, <2>4, <2>5
<1>9. IsPlaced(f, i, offset, bytes)
  BY <1>6, <1>8, EmptySeq DEF IsPlaced
<1>10. ASSUME f.dir[i].firstBlock # 0
       PROVE  \E flags : h = Placed(f, i, offset, bytes, t, flags)
  <2>1. PICK flags : found = [f EXCEPT !.damage = @ \cup flags]
    BY <1>3
  <2> HIDE DEF found, h
  <2>2. c = f.dir[i].firstBlock /\ at = f.dir[i].firstBlock
    BY <1>6
  <2>3. ~outside
    <3> HIDE DEF c, at
    <3>1. ~(offset >= 2 * BlockSize)
      BY <1>7, <1>8
    <3> QED BY <1>10, <2>2, <3>1
  <2>4. w = Write(found, t, f.dir[i].firstBlock, offset, bytes)
    <3> HIDE DEF c, at, full, within
    <3> QED BY <1>6, <1>8, <2>2
  <2> HIDE DEF w, outside
  <2>5. h = [w EXCEPT !.dir[i].firstBlock = IF length = 0 THEN 0 ELSE c,
                      !.dir[i].size = IF offset + length > size THEN offset + length ELSE length,
                      !.freeBlocks = @ + Change(f, i, offset + length)]
    BY <1>1, <2>3
  <2>6. (IF length = 0 THEN 0 ELSE c) = f.dir[i].firstBlock
    BY <1>8, <2>2
  <2>7. (IF offset + length > size THEN offset + length ELSE length) = offset + length
    <3> HIDE DEF length, size
    <3> QED BY <1>7, <1>8
  <2>8. h = [w EXCEPT !.dir[i].firstBlock = f.dir[i].firstBlock, !.dir[i].size = offset + length,
                      !.freeBlocks = @ + Change(f, i, offset + length)]
    <3> HIDE DEF length, size, c
    <3> QED BY <2>5, <2>6, <2>7
  <2>9. h = Placed(f, i, offset, bytes, t, flags)
    BY <2>1, <2>4, <2>8 DEF Placed
  <2> QED BY <2>9
<1> QED BY <1>9, <1>10

\* An existing file is written from an offset on.
LEMMA WriteAtKeeps ==
  ASSUME EofIsNoBlock, NEW f, FsOK(f), NEW k, NEW i \in DOMAIN f.dir,
         NEW offset \in Nat \ {0},
         NEW bytes \in Seq(Content), WriteAt(f, i, offset, bytes).fs.damage \cap Misplaced = {}
  PROVE  Keeps(f, WriteAt(f, i, offset, bytes).fs, k)
<1> DEFINE t == Released(f, i)
           h == WriteBehind(f, i, offset, bytes, t, FirstFree(t, 1, 0))
           total == offset + Len(bytes)
<1>0. DOMAIN f = Fields
  BY DEF FsOK
<1>1. \/ WriteAt(f, i, offset, bytes).fs = f
      \/ WriteAt(f, i, offset, bytes).fs
           = [f EXCEPT !.blocks = t, !.damage = @ \cup {"offset_past_end"}]
      \/ /\ ~(f.freeBlocks + Change(f, i, total) < 0) /\ ~(offset > f.dir[i].size)
         /\ WriteAt(f, i, offset, bytes).fs = h
  BY DEF WriteAt, Done, Failed
<1> HIDE DEF t, h, total
<1>2. CASE WriteAt(f, i, offset, bytes).fs = f
  BY <1>0, <1>2, KeepsStill
<1>3. CASE WriteAt(f, i, offset, bytes).fs
             = [f EXCEPT !.blocks = t, !.damage = @ \cup {"offset_past_end"}]
  <2>1. "offset_past_end" \in WriteAt(f, i, offset, bytes).fs.damage
    BY <1>0, <1>3 DEF Fields
  <2> QED BY <2>1 DEF Misplaced
<1>4. CASE /\ ~(f.freeBlocks + Change(f, i, total) < 0) /\ ~(offset > f.dir[i].size)
           /\ WriteAt(f, i, offset, bytes).fs = h
  <2>1. Grows(f, h)
    BY <1>4, WriteAtKept DEF Kept, Grows
  <2>2. ASSUME Sound(f, k), Innocent(h) PROVE Sound(h, k)
    <3>1. /\ i \in DOMAIN f.dir
          /\ DataOK(f.data) /\ f.dir \in Seq(Entry) /\ Layout(f.blocks, f.dir, k)
          /\ f.freeBlocks \in Nat
          /\ f.freeBlocks + Lacking(f.dir, k) <= Cardinality(Free(f.blocks) \ {1})
      BY <2>2 DEF Sound
    <3>2. PICK e : e = f.dir[i]
      OBVIOUS
    <3>3. e \in Entry /\ e.size \in Nat /\ Len(bytes) \in Nat /\ e.firstBlock \in Index
      BY <3>1, <3>2, Places, LenProperties DEF Entry
    <3>4. /\ IsPlaced(f, i, offset, bytes)
          /\ e.firstBlock # 0 => \E flags : h = Placed(f, i, offset, bytes, t, flags)
      BY <1>0, <1>4, <3>2, <3>3, PlacedIs DEF h
    <3>5. f.blocks \in Links /\ k \in Nat /\ FileSound(f.blocks, e)
      BY <3>1, <3>2 DEF Layout
    <3>6. PICK u : u = Cleared(f.blocks, BlocksOf(f.blocks, e)) /\ u = t
      BY <3>2, <3>5, ReleasedIs DEF t
    <3>7. /\ e.size # 0 /\ offset \in 0..(BlockSize - 1) /\ bytes # <<>>
          /\ e.size < total /\ total \in Nat \ {0}
      BY <3>2, <3>3, <3>4 DEF IsPlaced, total
    <3>8. PICK m : m = bytesToBlocks(e.size)
      OBVIOUS
    <3>9. PICK q : q = bytesToBlocks(total)
      OBVIOUS
    <3>10. m \in Nat \ {0} /\ q \in Nat \ {0}
      BY <3>3, <3>7, <3>8, <3>9, BlocksPositive
    <3>11. e.firstBlock \in BlocksOf(f.blocks, e) /\ BlocksOf(f.blocks, e) \subseteq Data
      <4>1. EndLinks({Eof})
        BY DEF EndLinks, EofIsNoBlock
      <4>2. IsChain(f.blocks, e.firstBlock, m, {Eof})
        BY <3>5, <3>7, <3>8 DEF FileSound
      <4>3. e.firstBlock \in Chain(f.blocks, e.firstBlock)
        BY <3>10, <4>1, <4>2, ChainFacts
      <4> QED BY <3>5, <3>7, <4>3, FileBlocks DEF BlocksOf
    <3>12. e.firstBlock \in Free(u) \ {1} /\ e.firstBlock # 0
      BY <3>3, <3>6, <3>11, FatAssumption DEF Free, Cleared, Data, Index
    <3>13. u \in Links /\ Cardinality(Free(u) \ {1}) = Cardinality(Free(f.blocks) \ {1}) + m
      <4>1. IsReleased(f.blocks, u, f.dir, i, k)
        BY <3>1, <3>2, <3>6, FileReleased
      <4> QED BY <3>2, <3>8, <4>1 DEF IsReleased, Layout
    <3>14. Lacking(f.dir, k) \in Nat /\ Cardinality(Free(f.blocks) \ {1}) \in Nat
      BY <3>1, <3>5, LackingIs, FreeFinite
    <3>15. Change(f, i, total) = m - q /\ f.freeBlocks + (m - q) >= 0
      BY <1>4, <3>1, <3>2, <3>8, <3>9, <3>10 DEF Change
    <3>16. q <= Cardinality(Free(u) \ {1})
      BY <3>1, <3>10, <3>13, <3>14, <3>15
    <3>17. PICK flags : h = Placed(f, i, offset, bytes, u, flags)
      BY <3>4, <3>6, <3>12
    <3>18. PICK g : g = [f EXCEPT !.damage = @ \cup flags]
      OBVIOUS
    <3>19. PICK w : w = Write(g, u, e.firstBlock, offset, bytes)
      OBVIOUS
    <3>20. /\ DOMAIN g = Fields /\ g.data = f.data /\ g.dir = f.dir /\ g.disk = f.disk
           /\ g.freeBlocks = f.freeBlocks
      BY <1>0, <3>18 DEF Fields
    <3>21. Beside(g, w)
      BY <3>19, <3>20, WriteBeside
    <3>22. h = [w EXCEPT !.dir[i].firstBlock = e.firstBlock, !.dir[i].size = total,
                         !.freeBlocks = @ + (m - q)]
      BY <3>2, <3>15, <3>17, <3>18, <3>19 DEF Placed, total
    <3>23. /\ DOMAIN h = Fields /\ h.damage = w.damage /\ h.disk = f.disk /\ h.data = w.data
           /\ h.blocks = w.blocks /\ h.freeBlocks = w.freeBlocks + (m - q)
           /\ h.dir = [f.dir EXCEPT ![i] = Resized(e, total, e.firstBlock)]
      <4>1. DOMAIN w = Fields /\ w.dir = f.dir /\ w.disk = f.disk
        BY <3>20, <3>21 DEF Beside
      <4>2. f.dir[i] = e /\ i \in DOMAIN f.dir
        BY <3>1, <3>2
      <4> QED BY <3>22, <4>1, <4>2 DEF Fields, Resized
    <3>24. "no_room_behind" \notin w.damage
      BY <2>2, <3>23 DEF Innocent, Forbidden
    <3>25. /\ Wrote(g, w) /\ DataOK(w.data)
           /\ TakesOver(u, w.blocks, e.firstBlock, q)
      BY <3>1, <3>7, <3>9, <3>12, <3>13, <3>16, <3>19, <3>20, <3>24, FileWrittenAt DEF total
    <3>26. PICK x : x = Resized(e, total, e.firstBlock)
      OBVIOUS
    <3>27. x \in Entry /\ x.size = total /\ x.firstBlock = e.firstBlock
      BY <3>3, <3>7, <3>26, ResizedIs
    <3>28. h.freeBlocks = f.freeBlocks + m - q /\ h.freeBlocks >= 0
      BY <3>1, <3>10, <3>15, <3>20, <3>23, <3>25 DEF Wrote
    <3>29. TakesOver(Cleared(f.blocks, BlocksOf(f.blocks, f.dir[i])), h.blocks,
                     x.firstBlock, bytesToBlocks(x.size))
      BY <3>2, <3>6, <3>9, <3>23, <3>25, <3>27
    <3>30. /\ h.freeBlocks = f.freeBlocks + bytesToBlocks(f.dir[i].size) - bytesToBlocks(x.size)
           /\ DOMAIN h = Fields /\ DataOK(h.data) /\ h.disk = f.disk
           /\ h.dir = [f.dir EXCEPT ![i] = x] /\ x.size # 0
      BY <3>2, <3>7, <3>8, <3>9, <3>23, <3>25, <3>26, <3>27, <3>28
    <3> QED BY ONLY EofIsNoBlock, <2>2, <3>1, <3>27, <3>28, <3>29, <3>30, FileTaken
  <2> QED BY <1>4, <2>1, <2>2 DEF Keeps
<1> QED BY <1>1, <1>2, <1>3, <1>4

\* A file in t that is not empty, and the last of its blocks.
IsFile(t, b, m, last) ==
  /\ t \in Links /\ m \in Nat \ {0} /\ IsChain(t, b, m, {Eof})
  /\ Chain(t, b) \subseteq Data /\ last \in Chain(t, b) /\ t[last] = Eof

\* The last block has room: what is written goes on from there ...
LEMMA FileExtended ==
  ASSUME EofIsNoBlock, NEW f, DOMAIN f = Fields, DataOK(f.data), NEW t, NEW b, NEW m, NEW last,
         IsFile(t, b, m, last), NEW bytes \in Seq(Content), bytes # <<>>,
         NEW within \in 0..(BlockSize - 1), NEW n \in Nat,
         bytesToBlocks(within + Len(bytes)) = n + 1, n <= Cardinality(Free(t) \ {1}),
         NEW w, w = Write(f, t, last, within, bytes), Innocent(w)
  PROVE  /\ Wrote(f, w) /\ DataOK(w.data)
         /\ TakesOver(Cleared(t, Chain(t, b)), w.blocks, b, m + n)
<1>1. /\ t \in Links /\ m \in Nat \ {0} /\ IsChain(t, b, m, {Eof})
      /\ Chain(t, b) \subseteq Data /\ last \in Chain(t, b) /\ t[last] = Eof
  BY DEF IsFile
<1>2. Data \subseteq Index \ {0, 1}
  BY FatAssumption DEF Data, Index
<1>3. last \in Index \ {0} /\ last # 1
  BY <1>1, <1>2
<1>4. Outcome(f, w, t, last, n)
  <2>1. Outcome(f, Write(f, t, last, within, bytes), t, last,
                bytesToBlocks(within + Len(bytes)) - 1)
    BY <1>1, <1>3, WriteFacts
  <2>2. bytesToBlocks(within + Len(bytes)) - 1 = n
    OBVIOUS
  <2> QED BY <2>1, <2>2
<1>5. "no_room_behind" \notin w.damage
  BY DEF Innocent, Forbidden
<1>6. Grow(t, last, n)[n].clean
  BY <1>4, <1>5 DEF Outcome
<1>7. Free(t) \ {1, last} = Free(t) \ {1}
  BY <1>1, EofEnds DEF Free
<1>8. TakesOver(Cleared(t, Chain(t, b)), Ended(Grow(t, last, n)[n]), b, m + n)
  BY <1>1, <1>6, ChainExtended
<1> QED BY <1>1, <1>4, <1>6, <1>7, <1>8 DEF Outcome

\* ... or it is full, and the next one that is free comes behind it.
LEMMA FileLengthened ==
  ASSUME EofIsNoBlock, NEW f, DOMAIN f = Fields, DataOK(f.data), NEW t, NEW b, NEW m, NEW last,
         IsFile(t, b, m, last), NEW bytes \in Seq(Content), bytes # <<>>,
         bytesToBlocks(Len(bytes)) <= Cardinality(Free(t) \ {1}),
         NEW c, c = FirstFree(t, 1, 0),
         NEW w, w = Write(f, [t EXCEPT ![last] = c], c, 0, bytes), Innocent(w)
  PROVE  /\ Wrote(f, w) /\ DataOK(w.data)
         /\ TakesOver(Cleared(t, Chain(t, b)), w.blocks, b, m + bytesToBlocks(Len(bytes)))
<1>1. /\ t \in Links /\ m \in Nat \ {0} /\ IsChain(t, b, m, {Eof})
      /\ Chain(t, b) \subseteq Data /\ last \in Chain(t, b) /\ t[last] = Eof
  BY DEF IsFile
<1>2. Data \subseteq Index \ {0, 1} /\ Free(t) \subseteq Index \ {0}
  BY FatAssumption DEF Data, Index, Free
<1>3. last \in Index \ {0} /\ last # 1
  BY <1>1, <1>2
<1>4. Len(bytes) \in Nat \ {0}
  BY EmptySeq, LenProperties
<1>5. PICK q : q = bytesToBlocks(Len(bytes))
  OBVIOUS
<1>6. q \in Nat \ {0}
  BY <1>4, <1>5, BlocksPositive
<1>7. PICK n : n = q - 1
  OBVIOUS
<1>8. n \in Nat /\ n + 1 = q
  BY <1>6, <1>7
<1>9. Free(t) \ {1} # {}
  <2>1. Cardinality(Free(t) \ {1}) \in Nat /\ q <= Cardinality(Free(t) \ {1})
    BY <1>5, FreeFinite
  <2>2. Cardinality({}) = 0
    BY FS_EmptySet
  <2>3. Free(t) \ {1} = {} => q <= 0
    BY <2>1, <2>2
  <2> QED BY <1>6, <2>3
<1>10. c \in Free(t) /\ c \in Index \ {0}
  BY <1>2, <1>9, FoundFree
<1>11. PICK v : v = [t EXCEPT ![last] = c]
  OBVIOUS
<1>12. /\ v \in Links /\ v[last] = c /\ v[c] = 0
       /\ \A x \in Index \ {last} : v[x] = t[x]
  <2>1. c # last /\ t[c] = 0
    BY <1>1, <1>10, EofEnds DEF Free
  <2>2. \A x \in Index \ {0} : c # Header
    BY <1>10, FatAssumption
  <2> QED BY <1>1, <1>3, <1>10, <1>11, <2>1, <2>2 DEF Links
<1>13. Outcome(f, w, v, c, n)
  <2>1. 0 \in 0..(BlockSize - 1) /\ 0 + Len(bytes) = Len(bytes)
    BY <1>4, FatAssumption
  <2>2. Outcome(f, Write(f, v, c, 0, bytes), v, c, bytesToBlocks(0 + Len(bytes)) - 1)
    BY <1>10, <1>12, <2>1, WriteFacts
  <2> QED BY <1>5, <1>7, <1>11, <2>1, <2>2
<1>14. "no_room_behind" \notin w.damage /\ "block_1_taken" \notin w.damage
  BY DEF Innocent, Forbidden
<1>15. c \in Free(t) \ {1} /\ Grow(v, c, n)[n].clean
  BY <1>10, <1>13, <1>14 DEF Outcome
<1>16. Free(v) = Free(t)
  BY <1>1, <1>10, <1>12, EofEnds DEF Free
<1>17. n <= Cardinality(Free(v) \ {1, c})
  <2>1. Cardinality(Free(t) \ {1, c}) = Cardinality(Free(t) \ {1}) - 1
    BY <1>15, OneTaken
  <2>2. Cardinality(Free(t) \ {1}) \in Nat
    BY FreeFinite
  <2> QED BY <1>5, <1>8, <1>16, <2>1, <2>2
<1>18. TakesOver(Cleared(t, Chain(t, b)), Ended(Grow(v, c, n)[n]), b, m + (n + 1))
  <2>1. n + 1 <= Cardinality(Free(t) \ {1})
    BY <1>5, <1>8
  <2> QED BY <1>1, <1>8, <1>11, <1>15, <2>1, ChainLengthened
<1> QED BY <1>5, <1>8, <1>12, <1>13, <1>15, <1>17, <1>18 DEF Outcome

-----------------------------------------------------------------------------
\* Another entry for the same file.
LEMMA FileRelabelled ==
  ASSUME EofIsNoBlock, NEW f, NEW k, Sound(f, k), NEW i \in DOMAIN f.dir, NEW e \in Entry,
         e.size = f.dir[i].size, e.firstBlock = f.dir[i].firstBlock,
         NEW h, DOMAIN h = Fields, h.data = f.data, h.blocks = f.blocks, h.disk = f.disk,
         h.dir = [f.dir EXCEPT ![i] = e], h.freeBlocks = f.freeBlocks
  PROVE  Sound(h, k)
<1>1. /\ DataOK(f.data) /\ f.dir \in Seq(Entry) /\ f.disk \in Seq(Entry) \cup {Outdated}
      /\ Layout(f.blocks, f.dir, k) /\ f.freeBlocks \in Nat
      /\ f.freeBlocks + Lacking(f.dir, k) <= Cardinality(Free(f.blocks) \ {1})
  BY DEF Sound
<1>2. IsReplaced(f.dir, i, e, h.dir)
  BY <1>1, Replaced
<1>3. /\ h.dir \in Seq(Entry) /\ Len(h.dir) = Len(f.dir) /\ DOMAIN h.dir = DOMAIN f.dir
      /\ \A j \in DOMAIN f.dir : /\ h.dir[j].size = f.dir[j].size
                                 /\ h.dir[j].firstBlock = f.dir[j].firstBlock
  BY <1>2 DEF IsReplaced
<1>4. Layout(h.blocks, h.dir, k)
  BY <1>1, <1>3, LayoutKept
<1>5. Lacking(h.dir, k) = Lacking(f.dir, k)
  BY <1>3 DEF Lacking
<1> QED BY <1>1, <1>3, <1>4, <1>5 DEF Sound

\* A file that has grown.
Grown(e, n) == [e EXCEPT !.size = @ + n]

\* It is one, with the same first block.
LEMMA GrownIs ==
  ASSUME NEW e \in Entry, NEW n \in Nat
  PROVE  /\ Grown(e, n) \in Entry
         /\ Grown(e, n).size = e.size + n /\ Grown(e, n).firstBlock = e.firstBlock
BY DEF Grown, Entry

\* Writing behind file i.
LEMMA WriteOnKeeps ==
  ASSUME EofIsNoBlock, NEW f, DOMAIN f = Fields, NEW k, NEW i,
         NEW bytes \in Seq(Content), NEW last,
         Sound(f, k) => /\ i \in DOMAIN f.dir
                        /\ Lacks(f.dir[i].size, Len(bytes)) <= f.freeBlocks
                        /\ f.dir[i].size # 0 =>
                             /\ last \in Chain(f.blocks, f.dir[i].firstBlock)
                             /\ f.blocks[last] = Eof
  PROVE  Keeps(f, WriteOn(f, i, bytes, last), k)
<1> DEFINE size == f.dir[i].size
           full == size > 0 /\ size % BlockSize = 0
           c == IF size = 0 THEN FirstFree(f.blocks, 1, 1)
                ELSE IF full THEN FirstFree(f.blocks, 1, 0) ELSE last
           t == IF full THEN [f.blocks EXCEPT ![last] = c] ELSE f.blocks
           w == Write(f, t, c, size % BlockSize, bytes)
           h == WriteOn(f, i, bytes, last)
           e == Grown(f.dir[i], Len(bytes))
           lacks == Lacks(size, Len(bytes))
           flags == Flag("append_to_empty", size = 0 /\ bytes # <<>>)
                      \cup Flag("touch_full_block", full /\ bytes = <<>>)
<1>1. h = [w EXCEPT !.dir[i].size = @ + Len(bytes), !.freeBlocks = @ - lacks,
                    !.damage = (@ \cup Flag("append_to_empty", size = 0 /\ bytes # <<>>))
                                  \cup Flag("touch_full_block", full /\ bytes = <<>>)]
  BY DEF WriteOn
<1>2. Beside(f, w)
  BY WriteBeside
<1> HIDE DEF c, t, w, h
<1>3. /\ DOMAIN h = Fields /\ h.damage = w.damage \cup flags /\ h.disk = w.disk
      /\ h.data = w.data /\ h.blocks = w.blocks /\ h.freeBlocks = w.freeBlocks - lacks
      /\ i \in DOMAIN w.dir => h.dir = [w.dir EXCEPT ![i] = Grown(w.dir[i], Len(bytes))]
  <2> HIDE DEF lacks, full, size
  <2>1. DOMAIN w = Fields
    BY <1>2 DEF Beside
  <2> QED BY <1>1, <2>1 DEF Fields, Grown
<1>4. Grows(f, h)
  BY <1>2, <1>3 DEF Grows, Beside
<1>5. ASSUME Sound(f, k), Innocent(h)
      PROVE  Sound(h, k)
  <2>1. /\ i \in DOMAIN f.dir
        /\ DataOK(f.data) /\ f.dir \in Seq(Entry) /\ Layout(f.blocks, f.dir, k)
        /\ f.freeBlocks \in Nat
        /\ f.freeBlocks + Lacking(f.dir, k) <= Cardinality(Free(f.blocks) \ {1})
    BY <1>5 DEF Sound
  <2>2. f.dir[i] \in Entry /\ size \in Nat /\ Len(bytes) \in Nat
    BY <2>1, Places, LenProperties
  <2>3. e \in Entry /\ e.size = size + Len(bytes) /\ e.firstBlock = f.dir[i].firstBlock
    BY <2>2, GrownIs
  <2> HIDE DEF e
  <2>4. h.dir = [f.dir EXCEPT ![i] = e] /\ h.disk = f.disk
    BY <1>2, <1>3, <2>1 DEF Beside, e
  <2>5. /\ size = 0 => bytes = <<>>
        /\ full => bytes # <<>>
        /\ Innocent(w)
    <3> HIDE DEF full, size
    <3>1. "append_to_empty" \notin flags /\ "touch_full_block" \notin flags
      BY <1>3, <1>5 DEF Innocent, Forbidden
    <3> QED BY <1>3, <1>5, <3>1 DEF Innocent, Flag
  <2>6. /\ lacks \in Nat /\ bytesToBlocks(size + Len(bytes)) = bytesToBlocks(size) + lacks
        /\ size % BlockSize = 0 => lacks = bytesToBlocks(Len(bytes))
        /\ size % BlockSize # 0 /\ Len(bytes) # 0 =>
             bytesToBlocks((size % BlockSize) + Len(bytes)) = lacks + 1
        /\ Len(bytes) = 0 => lacks = 0
        /\ size % BlockSize \in 0..(BlockSize - 1)
    <3> HIDE DEF size
    <3> QED BY <2>2, LacksFacts
  <2>7. Lacking(f.dir, k) \in Nat /\ Cardinality(Free(f.blocks) \ {1}) \in Nat
    <3>1. k \in Nat
      BY <2>1 DEF Layout
    <3> QED BY <2>1, <3>1, LackingIs, FreeFinite
  <2>8. lacks <= f.freeBlocks /\ lacks <= Cardinality(Free(f.blocks) \ {1})
    <3>1. lacks <= f.freeBlocks
      BY <1>5
    <3> HIDE DEF lacks
    <3> QED BY <2>1, <2>6, <2>7, <3>1
  <2>9. CASE bytes = <<>>
    <3>1. Len(bytes) = 0 /\ ~full
      BY <2>5, <2>9
    <3>2. t = f.blocks
      BY <3>1 DEF t
    <3>3. w.blocks = f.blocks /\ w.data = f.data /\ w.freeBlocks = f.freeBlocks
      BY <2>9, <3>2, NothingWritten DEF w
    <3>4. e.size = f.dir[i].size /\ h.freeBlocks = f.freeBlocks
      BY <1>3, <2>1, <2>2, <2>3, <2>6, <3>1, <3>3
    <3> QED BY <1>3, <1>5, <2>1, <2>3, <2>4, <3>3, <3>4, FileRelabelled
  <2>10. CASE bytes # <<>>
    <3>1. size # 0 /\ Len(bytes) # 0
      BY <2>5, <2>10, EmptySeq
    <3>2. PICK b : b = f.dir[i].firstBlock
      OBVIOUS
    <3>3. PICK m : m = bytesToBlocks(size)
      OBVIOUS
    <3>4. IsFile(f.blocks, b, m, last)
      <4>1. last \in Chain(f.blocks, b) /\ f.blocks[last] = Eof
        BY <1>5, <3>1, <3>2
      <4>2. FileSound(f.blocks, f.dir[i]) /\ f.blocks \in Links
        BY <2>1 DEF Layout
      <4>3. m \in Nat \ {0}
        BY <2>2, <3>1, <3>3, BlocksPositive
      <4> QED BY <3>1, <3>2, <3>3, <4>1, <4>2, <4>3 DEF IsFile, FileSound
    <3>5. /\ Wrote(f, w) /\ DataOK(w.data)
          /\ TakesOver(Cleared(f.blocks, Chain(f.blocks, b)), w.blocks, b, m + lacks)
      <4>1. CASE full
        <5>1. /\ c = FirstFree(f.blocks, 1, 0) /\ t = [f.blocks EXCEPT ![last] = c]
              /\ size % BlockSize = 0
          BY <3>1, <4>1 DEF c, t
        <5>2. w = Write(f, [f.blocks EXCEPT ![last] = c], c, 0, bytes)
          BY <5>1 DEF w
        <5>3. lacks = bytesToBlocks(Len(bytes))
          BY <2>6, <5>1
        <5> HIDE DEF lacks
        <5> QED BY <2>1, <2>5, <2>8, <2>10, <3>4, <5>1, <5>2, <5>3, FileLengthened
      <4>2. CASE ~full
        <5>1. c = last /\ t = f.blocks /\ size % BlockSize # 0
          BY <2>2, <3>1, <4>2 DEF c, t
        <5>2. w = Write(f, f.blocks, last, size % BlockSize, bytes)
          BY <5>1 DEF w
        <5>3. bytesToBlocks((size % BlockSize) + Len(bytes)) = lacks + 1
          BY <2>6, <3>1, <5>1
        <5>4. PICK within : within = size % BlockSize
          OBVIOUS
        <5> HIDE DEF lacks
        <5> QED BY <2>1, <2>5, <2>6, <2>8, <2>10, <3>4, <5>2, <5>3, <5>4, FileExtended
      <4> QED BY <4>1, <4>2
    <3>6. PICK q : q = lacks
      OBVIOUS
    <3> HIDE DEF lacks
    <3>7. BlocksOf(f.blocks, f.dir[i]) = Chain(f.blocks, b)
      BY <3>1, <3>2 DEF BlocksOf
    <3>8. bytesToBlocks(e.size) = m + q /\ m \in Nat /\ q \in Nat /\ q <= f.freeBlocks
      BY <2>3, <2>6, <2>8, <3>3, <3>4, <3>6 DEF IsFile
    <3>9. h.freeBlocks = f.freeBlocks - q
      BY <1>3, <3>5, <3>6 DEF Wrote
    <3>10. /\ h.freeBlocks = f.freeBlocks + bytesToBlocks(f.dir[i].size) - bytesToBlocks(e.size)
           /\ h.freeBlocks >= 0
      BY <2>1, <3>3, <3>8, <3>9
    <3>11. /\ e.size # 0
           /\ TakesOver(Cleared(f.blocks, BlocksOf(f.blocks, f.dir[i])), h.blocks,
                        e.firstBlock, bytesToBlocks(e.size))
      BY <1>3, <2>2, <2>3, <3>1, <3>2, <3>5, <3>6, <3>7, <3>8
    <3>12. DataOK(h.data) /\ DOMAIN h = Fields
      BY <1>3, <3>5
    <3>13. i \in DOMAIN f.dir
      BY <2>1
    <3> QED BY ONLY EofIsNoBlock, <1>5, <2>3, <2>4, <3>10, <3>11, <3>12, <3>13, FileTaken
  <2> QED BY <2>9, <2>10
<1> QED BY <1>4, <1>5 DEF Keeps, h

\* Only the flags change.
LEMMA FlagsAdded ==
  ASSUME NEW f, DOMAIN f = Fields, NEW k, NEW S
  PROVE  LET g == [f EXCEPT !.damage = @ \cup S]
         IN  /\ Keeps(f, g, k) /\ DOMAIN g = Fields
             /\ g.blocks = f.blocks /\ g.dir = f.dir /\ g.freeBlocks = f.freeBlocks
             /\ g.data = f.data /\ g.disk = f.disk
             /\ Sound(f, k) <=> Sound(g, k)
<1> DEFINE g == [f EXCEPT !.damage = @ \cup S]
<1>1. /\ DOMAIN g = Fields /\ g.blocks = f.blocks /\ g.dir = f.dir
      /\ g.freeBlocks = f.freeBlocks /\ g.data = f.data /\ g.disk = f.disk
      /\ g.damage = f.damage \cup S
  BY DEF Fields
<1> HIDE DEF g
<1>2. Sound(f, k) <=> Sound(g, k)
  BY <1>1 DEF Sound
<1> QED BY <1>1, <1>2 DEF Keeps, Grows, g

\* The blocks of a chain that are its last.
EndsOf(t, b) == {x \in Chain(t, b) : t[x] = Eof}

\* A file that is not empty has one.
LEMMA FileEnds ==
  ASSUME EofIsNoBlock, NEW t, NEW e, FileSound(t, e), e.size # 0
  PROVE  EndsOf(t, e.firstBlock) # {}
<1>1. PICK n : n = bytesToBlocks(e.size)
  OBVIOUS
<1>2. PICK b : b = e.firstBlock
  OBVIOUS
<1>3. n \in Nat \ {0} /\ IsChain(t, b, n, {Eof})
  BY <1>1, <1>2, BlocksPositive DEF FileSound
<1>4. EndLinks({Eof})
  BY EofEnds
<1>5. \E c \in Chain(t, b) : t[c] \in {Eof} /\ \A x \in Chain(t, b) \ {c} : t[x] \in Chain(t, b)
  BY <1>3, <1>4, ChainFacts
<1> QED BY <1>2, <1>5 DEF EndsOf

\* Appending.
LEMMA AppendToKeeps ==
  ASSUME EofIsNoBlock, NEW f, DOMAIN f = Fields, NEW k, NEW i,
         Sound(f, k) => i \in DOMAIN f.dir, NEW bytes \in Seq(Content)
  PROVE  Keeps(f, AppendTo(f, i, bytes).fs, k)
<1> DEFINE e == f.dir[i]
           chain == Chain(f.blocks, e.firstBlock)
           ends == {b \in chain : f.blocks[b] = Eof}
           S == Flag("link_outside", e.size > 0)
           g == [f EXCEPT !.damage = @ \cup S]
           lacks == Lacks(e.size, Len(bytes))
           h == AppendTo(f, i, bytes).fs
<1>1. \/ f.freeBlocks < lacks /\ h = f
      \/ ~(f.freeBlocks < lacks) /\ ends # {} /\ h = WriteOn(f, i, bytes, Min(ends))
      \/ ~(f.freeBlocks < lacks) /\ ends = {} /\ h = WriteOn(g, i, bytes, 0)
  BY DEF AppendTo, Done, Failed
<1> HIDE DEF h
<1>2. /\ Keeps(f, g, k) /\ DOMAIN g = Fields
      /\ g.blocks = f.blocks /\ g.dir = f.dir /\ g.freeBlocks = f.freeBlocks
      /\ Sound(f, k) <=> Sound(g, k)
  <2> HIDE DEF S
  <2> QED BY FlagsAdded
<1> HIDE DEF g
<1>3. ASSUME Sound(f, k)
      PROVE  /\ e.size # 0 => ends # {} /\ Min(ends) \in ends
             /\ f.freeBlocks \in Nat /\ lacks \in Nat
  <2>1. /\ i \in DOMAIN f.dir
        /\ FileSound(f.blocks, e) /\ f.dir \in Seq(Entry) /\ f.freeBlocks \in Nat
    BY <1>3 DEF Sound, Layout
  <2>2. ASSUME e.size # 0 PROVE ends # {} /\ Min(ends) \in ends
    <3>1. BlocksOf(f.blocks, e) = chain
      BY <2>2 DEF BlocksOf
    <3>2. chain \subseteq Data /\ bytesToBlocks(e.size) \in Nat \ {0}
      BY <2>1, <2>2, BlocksPositive DEF FileSound
    <3>4. EndsOf(f.blocks, e.firstBlock) # {}
      BY <2>1, <2>2, FileEnds
    <3>5. ends # {} /\ ends \subseteq Nat
      BY <3>2, <3>4, FatAssumption DEF Data, EndsOf
    <3> HIDE DEF ends
    <3> QED BY <3>5, MinOfNaturals
  <2>3. lacks \in Nat
    <3>1. e.size \in Nat /\ Len(bytes) \in Nat
      BY <2>1, Places, LenProperties
    <3> QED BY <3>1, LacksFacts
  <2> QED BY <2>1, <2>2, <2>3
<1>4. CASE f.freeBlocks < lacks /\ h = f
  BY <1>4, KeepsStill DEF h
<1>5. CASE ~(f.freeBlocks < lacks) /\ ends # {} /\ h = WriteOn(f, i, bytes, Min(ends))
  <2>1. ASSUME Sound(f, k)
        PROVE  /\ lacks <= f.freeBlocks
               /\ e.size # 0 => Min(ends) \in chain /\ f.blocks[Min(ends)] = Eof
    <3>1. lacks <= f.freeBlocks
      BY <1>3, <1>5, <2>1
    <3>2. e.size # 0 => Min(ends) \in ends
      BY <1>3, <2>1
    <3> QED BY <3>1, <3>2
  <2>2. PICK last : last = Min(ends)
    OBVIOUS
  <2>3. Keeps(f, WriteOn(f, i, bytes, last), k)
    BY <2>1, <2>2, WriteOnKeeps
  <2> QED BY <1>5, <2>2, <2>3 DEF h
<1>6. CASE ~(f.freeBlocks < lacks) /\ ends = {} /\ h = WriteOn(g, i, bytes, 0)
  <2>1. ASSUME Sound(g, k)
        PROVE  lacks <= g.freeBlocks /\ e.size = 0
    BY <1>2, <1>3, <1>6, <2>1
  <2>2. Keeps(g, WriteOn(g, i, bytes, 0), k)
    <3>1. Sound(g, k) => i \in DOMAIN g.dir /\ g.dir[i] = e
      BY <1>2
    <3> QED BY <1>2, <2>1, <3>1, WriteOnKeeps
  <2> QED BY <1>2, <1>6, <2>2, KeepsOn DEF h
<1> QED BY <1>1, <1>4, <1>5, <1>6 DEF h

-----------------------------------------------------------------------------
\* A new entry at the end of a directory.
IsAppended(d, e, x) ==
  /\ x \in Seq(Entry) /\ Len(x) = Len(d) + 1 /\ DOMAIN x = DOMAIN d \cup {Len(d) + 1}
  /\ Len(d) + 1 \notin DOMAIN d
  /\ x[Len(d) + 1] = e /\ \A j \in DOMAIN d : x[j] = d[j]

\* Append adds it.
LEMMA Appended ==
  ASSUME NEW d \in Seq(Entry), NEW e \in Entry
  PROVE  IsAppended(d, e, Append(d, e))
<1>1. /\ Len(d) \in Nat /\ DOMAIN d = 1..Len(d)
  BY Places
<1> DEFINE x == Append(d, e)
<1>2. /\ x \in Seq(Entry) /\ Len(x) = Len(d) + 1 /\ x[Len(d) + 1] = e
      /\ \A j \in 1..Len(d) : x[j] = d[j]
  BY AppendProperties
<1>3. DOMAIN x = 1..(Len(d) + 1)
  BY <1>2, LenProperties
<1> HIDE DEF x
<1>4. DOMAIN x = DOMAIN d \cup {Len(d) + 1} /\ Len(d) + 1 \notin DOMAIN d
  BY <1>1, <1>3
<1> QED BY <1>1, <1>2, <1>4 DEF IsAppended, x

\* A file is made, and a block set aside for the directory if it is to grow.
LEMMA FileMade ==
  ASSUME EofIsNoBlock, NEW f, NEW k, Sound(f, k),
         NEW e \in Entry, NEW h, DOMAIN h = Fields, DataOK(h.data), h.disk = f.disk,
         h.dir = Append(f.dir, e),
         h.freeBlocks = f.freeBlocks - Needed(f, e.size), h.freeBlocks >= 0,
         e.size = 0 => h.blocks = f.blocks,
         e.size # 0 => TakesOver(f.blocks, h.blocks, e.firstBlock, bytesToBlocks(e.size))
  PROVE  Sound(h, k)
<1>1. /\ f.dir \in Seq(Entry) /\ f.disk \in Seq(Entry) \cup {Outdated}
      /\ Layout(f.blocks, f.dir, k) /\ f.freeBlocks \in Nat
      /\ f.freeBlocks + Lacking(f.dir, k) <= Cardinality(Free(f.blocks) \ {1})
  BY DEF Sound
<1>2. PICK i : i = Len(f.dir) + 1
  OBVIOUS
<1>3. /\ h.dir \in Seq(Entry) /\ Len(h.dir) = Len(f.dir) + 1
      /\ DOMAIN h.dir = DOMAIN f.dir \cup {i}
      /\ i \notin DOMAIN f.dir /\ h.dir[i] = e /\ \A j \in DOMAIN f.dir : h.dir[j] = f.dir[j]
  <2>1. IsAppended(f.dir, e, h.dir)
    BY <1>1, Appended
  <2> QED BY <1>2, <2>1 DEF IsAppended
<1>4. PICK m : m = bytesToBlocks(e.size)
  OBVIOUS
<1>5. e.size \in Nat /\ m \in Nat /\ (e.size = 0 <=> m = 0)
  BY <1>4, BlocksPositive DEF Entry
<1>6. /\ Layout(h.blocks, h.dir, k)
      /\ Cardinality(Free(h.blocks) \ {1}) = Cardinality(Free(f.blocks) \ {1}) - m
  <2>1. CASE e.size = 0
    <3>1. Layout(f.blocks, h.dir, k)
      BY <1>1, <1>3, <2>1, EmptyFileAdded
    <3>2. Cardinality(Free(f.blocks) \ {1}) \in Nat
      BY FreeFinite
    <3>3. h.blocks = f.blocks /\ m = 0
      BY <1>5, <2>1
    <3>4. Cardinality(Free(f.blocks) \ {1}) = Cardinality(Free(f.blocks) \ {1}) - m
      BY <3>2, <3>3
    <3> QED BY <3>1, <3>3, <3>4
  <2>2. CASE e.size # 0
    <3>1. TakesOver(f.blocks, h.blocks, e.firstBlock, m)
      BY <1>4, <2>2
    <3>2. Adds(f.dir, i, e.firstBlock, m, h.dir)
      BY <1>3, <1>4, <1>5, <2>2 DEF Adds
    <3>3. PICK t : t = f.blocks
      OBVIOUS
    <3>4. PICK u : u = h.blocks
      OBVIOUS
    <3>5. PICK d : d = f.dir
      OBVIOUS
    <3>6. PICK x : x = h.dir
      OBVIOUS
    <3>7. PICK b : b = e.firstBlock
      OBVIOUS
    <3>8. Layout(t, d, k) /\ TakesOver(t, u, b, m) /\ Adds(d, i, b, m, x)
      BY <1>1, <3>1, <3>2, <3>3, <3>4, <3>5, <3>6, <3>7
    <3>9. Layout(u, x, k) /\ Cardinality(Free(u) \ {1}) = Cardinality(Free(t) \ {1}) - m
      BY ONLY EofIsNoBlock, <3>8, FileAdded
    <3> QED BY <3>3, <3>4, <3>6, <3>9
  <2> QED BY <2>1, <2>2
<1>7. PICK n : n = Len(f.dir)
  OBVIOUS
<1>8. n \in Nat /\ (f.dir = <<>> <=> n = 0) /\ k \in Nat \ {0}
  BY <1>1, <1>7, Places, EmptySeq DEF Layout
<1>9. /\ DirBlocks(n) \in Nat /\ (n = 0 <=> DirBlocks(n) = 0)
      /\ DirBlocks(n + 1) = DirBlocks(n) + (IF n % PerBlock = 0 THEN 1 ELSE 0)
  BY <1>8, DirBlocksFacts
<1>10. PICK x : x = IF n % PerBlock = 0 THEN 1 ELSE 0
  OBVIOUS
<1>11. /\ Lacking(h.dir, k) <= Lacking(f.dir, k) + (IF n # 0 THEN x ELSE 0)
       /\ Lacking(f.dir, k) \in Nat /\ Lacking(h.dir, k) \in Nat
  <2>1. PICK D : D = DirBlocks(n)
    OBVIOUS
  <2>2. PICK y : y = DirBlocks(Len(h.dir))
    OBVIOUS
  <2>3. /\ Lacking(f.dir, k) = IF D > k THEN D - k ELSE 0
        /\ Lacking(h.dir, k) = IF y > k THEN y - k ELSE 0
    BY <1>7, <2>1, <2>2 DEF Lacking
  <2>4. y = D + x
    BY <1>3, <1>7, <1>9, <1>10, <2>1, <2>2
  <2>5. x \in {0, 1} /\ D \in Nat /\ (n = 0 <=> D = 0) /\ (n = 0 => x <= 1)
    BY <1>9, <1>10, <2>1
  <2> QED BY <1>8, <2>3, <2>4, <2>5
<1>12. Needed(f, e.size) = m + (IF n # 0 THEN x ELSE 0)
  <2>1. Needed(f, e.size) = m + (IF f.dir # <<>> /\ n % PerBlock = 0 THEN 1 ELSE 0)
    BY <1>4, <1>7 DEF Needed
  <2> QED BY <1>8, <1>10, <2>1
<1>13. Cardinality(Free(f.blocks) \ {1}) \in Nat
  BY FreeFinite
<1>14. h.freeBlocks \in Nat
  <2>1. x \in {0, 1}
    BY <1>10
  <2> QED BY <1>1, <1>5, <1>12, <2>1
<1>15. h.freeBlocks + Lacking(h.dir, k) <= Cardinality(Free(h.blocks) \ {1})
  <2>1. x \in {0, 1}
    BY <1>10
  <2> QED BY <1>1, <1>5, <1>6, <1>11, <1>12, <1>13, <2>1
<1> QED BY <1>1, <1>3, <1>6, <1>14, <1>15 DEF Sound

\* A new file.
LEMMA CreateKeeps ==
  ASSUME EofIsNoBlock, NEW f, DOMAIN f = Fields, NEW k, NEW name \in Name,
         NEW bytes \in Seq(Content), NEW at \in Addr
  PROVE  Keeps(f, Create(f, name, bytes, at).fs, k)
<1> DEFINE c == FirstFree(f.blocks, 1, 1)
           first == IF bytes = <<>> THEN 0 ELSE c
           e == [name |-> name, size |-> Len(bytes), perm |-> {"r", "w"}, at |-> at,
                 firstBlock |-> first]
           needed == Needed(f, Len(bytes))
           w == Write(f, f.blocks, c, 0, bytes)
           h == [w EXCEPT !.dir = Append(@, e), !.freeBlocks = @ - needed]
           r == Create(f, name, bytes, at)
<1>1. \/ r.fs = f
      \/ ~(f.freeBlocks < needed) /\ r.fs = h
  BY DEF Create, Done, Failed
<1>2. Beside(f, w)
  BY WriteBeside
<1> HIDE DEF c, w, needed, r
<1>3. /\ DOMAIN h = Fields /\ h.damage = w.damage /\ h.disk = w.disk /\ h.data = w.data
      /\ h.blocks = w.blocks /\ h.freeBlocks = w.freeBlocks - needed
      /\ h.dir = Append(w.dir, e)
  <2> HIDE DEF e
  <2>1. DOMAIN w = Fields
    BY <1>2 DEF Beside
  <2> QED BY <2>1 DEF Fields
<1> HIDE DEF h
<1>4. Grows(f, h)
  BY <1>2, <1>3 DEF Grows, Beside
<1>5. ASSUME Sound(f, k), Innocent(h), ~(f.freeBlocks < needed)
      PROVE  Sound(h, k)
  <2>1. /\ DataOK(f.data) /\ f.dir \in Seq(Entry) /\ Layout(f.blocks, f.dir, k)
        /\ f.freeBlocks \in Nat
        /\ f.freeBlocks + Lacking(f.dir, k) <= Cardinality(Free(f.blocks) \ {1})
    BY <1>5 DEF Sound
  <2>2. Len(bytes) \in Nat /\ (bytes = <<>> <=> Len(bytes) = 0)
    BY LenProperties, EmptySeq
  <2>3. PICK q : q = bytesToBlocks(Len(bytes))
    OBVIOUS
  <2>4. q \in Nat /\ needed \in Nat /\ q <= needed
    <3>1. q \in Nat
      BY <2>2, <2>3, BlocksPositive
    <3>2. needed = q \/ needed = q + 1
      BY <2>3, <3>1 DEF needed, Needed
    <3> QED BY <3>1, <3>2
  <2>5. f.blocks \in Links /\ k \in Nat
    BY <2>1 DEF Layout
  <2>6. Lacking(f.dir, k) \in Nat /\ Cardinality(Free(f.blocks) \ {1}) \in Nat
    BY <2>1, <2>5, LackingIs, FreeFinite
  <2>7. q <= Cardinality(Free(f.blocks) \ {1})
    BY <1>5, <2>1, <2>4, <2>6
  <2>8. Innocent(w)
    BY <1>3, <1>5 DEF Innocent
  <2>9. /\ first \in Index /\ w.freeBlocks = f.freeBlocks /\ DataOK(w.data)
        /\ Len(bytes) = 0 => w.blocks = f.blocks
        /\ Len(bytes) # 0 => TakesOver(f.blocks, w.blocks, first, q)
    <3>1. CASE bytes = <<>>
      <4>1. 0 \in Index /\ Len(bytes) = 0
        BY <2>2, <3>1, FatAssumption DEF Index
      <4> QED BY <2>1, <3>1, <4>1, NothingWritten DEF w
    <3>2. CASE bytes # <<>>
      <4>1. /\ c \in Index \ {0} /\ Wrote(f, w) /\ DataOK(w.data)
            /\ TakesOver(f.blocks, w.blocks, c, q)
        BY <2>1, <2>3, <2>5, <2>7, <2>8, <3>2, FileWritten DEF c, w
      <4> QED BY <2>2, <3>2, <4>1 DEF Wrote
    <3> QED BY <3>1, <3>2
  <2> HIDE DEF first
  <2>10. e \in Entry /\ e.size = Len(bytes) /\ e.firstBlock = first
    BY <2>2, <2>9 DEF Entry, Perms
  <2> HIDE DEF e
  <2>11. h.dir = Append(f.dir, e) /\ h.disk = f.disk
    BY <1>2, <1>3 DEF Beside
  <2>12. h.freeBlocks = f.freeBlocks - Needed(f, e.size) /\ h.freeBlocks >= 0
    <3>1. needed = Needed(f, e.size)
      BY <2>10 DEF needed
    <3>2. h.freeBlocks = f.freeBlocks - needed
      BY <1>3, <2>9
    <3> QED BY <1>5, <2>1, <2>4, <3>1, <3>2
  <2>13. /\ e.size = 0 => h.blocks = f.blocks
         /\ e.size # 0 => TakesOver(f.blocks, h.blocks, e.firstBlock, bytesToBlocks(e.size))
    BY <1>3, <2>3, <2>9, <2>10
  <2>14. DOMAIN h = Fields /\ DataOK(h.data)
    BY <1>3, <2>9
  <2> QED BY ONLY EofIsNoBlock, <1>5, <2>10, <2>11, <2>12, <2>13, <2>14, FileMade
<1>6. CASE r.fs = f
  BY <1>6, KeepsStill DEF r
<1>7. CASE ~(f.freeBlocks < needed) /\ r.fs = h
  BY <1>4, <1>5, <1>7 DEF Keeps, r
<1> QED BY <1>1, <1>6, <1>7 DEF r

-----------------------------------------------------------------------------
\* A directory without one of its entries.
LEMMA Removed ==
  ASSUME NEW d \in Seq(Entry), NEW i \in DOMAIN d
  PROVE  /\ RemoveAt(d, i) \in Seq(Entry) /\ Len(RemoveAt(d, i)) = Len(d) - 1
         /\ Len(d) - 1 \in Nat
         /\ DOMAIN RemoveAt(d, i) = 1..(Len(d) - 1)
         /\ \A j \in 1..(Len(d) - 1) : RemoveAt(d, i)[j] = IF j < i THEN d[j] ELSE d[j + 1]
<1>1. Len(d) \in Nat /\ DOMAIN d = 1..Len(d)
  BY Places
<1> DEFINE x == RemoveAt(d, i)
<1>2. /\ x \in Seq(Entry) /\ Len(x) = Len(d) - 1
      /\ \A j \in 1..(Len(d) - 1) : x[j] = IF j < i THEN d[j] ELSE d[j + 1]
  BY <1>1, RemoveAtProperties
<1> HIDE DEF x
<1>3. DOMAIN x = 1..Len(x)
  BY <1>2, LenProperties
<1>4. Len(d) - 1 \in Nat
  BY <1>1
<1> QED BY <1>2, <1>3, <1>4 DEF x

\* The others move up.
LEMMA LayoutRemoved ==
  ASSUME EofIsNoBlock, NEW d \in Seq(Entry), NEW i \in DOMAIN d, NEW t, NEW k,
         Layout(t, Without(d, i), k)
  PROVE  Layout(t, RemoveAt(d, i), k)
<1>1. PICK n : n = Len(d)
  OBVIOUS
<1>2. PICK x : x = RemoveAt(d, i)
  OBVIOUS
<1>3. PICK z : z = Without(d, i)
  OBVIOUS
<1>4. n \in Nat /\ DOMAIN d = 1..n /\ i \in 1..n
  BY <1>1, Places
<1>5. DOMAIN x = 1..(n - 1) /\ \A j \in 1..(n - 1) : x[j] = IF j < i THEN d[j] ELSE d[j + 1]
  BY <1>1, <1>2, Removed
<1>6. DOMAIN z = (1..n) \ {i} /\ \A j \in (1..n) \ {i} : z[j] = d[j]
  BY <1>3, <1>4 DEF Without
<1>7. PICK h : h = [j \in 1..(n - 1) |-> IF j < i THEN j ELSE j + 1]
  OBVIOUS
<1>8. \A j \in 1..(n - 1) : h[j] = (IF j < i THEN j ELSE j + 1) /\ h[j] \in (1..n) \ {i}
  BY <1>4, <1>7
<1>9. h \in [DOMAIN x -> DOMAIN z]
  BY <1>5, <1>6, <1>7, <1>8
<1>10. \A j \in DOMAIN x : x[j] = z[h[j]]
  BY <1>5, <1>6, <1>8
<1>11. \A j, m \in DOMAIN x : h[j] = h[m] => j = m
  BY <1>4, <1>5, <1>8
<1>12. ASSUME NEW j \in DOMAIN z PROVE \E m \in DOMAIN x : h[m] = j
  <2>1. j \in 1..n /\ j # i
    BY <1>6
  <2>2. CASE j < i
    <3>1. j \in 1..(n - 1)
      BY <1>4, <2>1, <2>2
    <3>2. h[j] = j
      BY <1>8, <2>2, <3>1
    <3> QED BY <1>5, <3>1, <3>2
  <2>3. CASE ~(j < i)
    <3>1. j - 1 \in 1..(n - 1) /\ ~(j - 1 < i) /\ (j - 1) + 1 = j
      BY <1>4, <2>1, <2>3
    <3>2. h[j - 1] = j
      BY <1>8, <3>1
    <3> QED BY <1>5, <3>1, <3>2
  <2> QED BY <2>2, <2>3
<1>13. Layout(t, z, k)
  BY <1>3
<1>14. Layout(t, x, k)
  BY <1>9, <1>10, <1>11, <1>12, <1>13, LayoutMoved
<1> QED BY <1>2, <1>14

\* A file is deleted.
LEMMA DeleteKeeps ==
  ASSUME EofIsNoBlock, NEW f, DOMAIN f = Fields, NEW k, NEW i,
         Sound(f, k) => i \in DOMAIN f.dir
  PROVE  Keeps(f, Delete(f, i), k)
<1> DEFINE h == Delete(f, i)
           m == bytesToBlocks(f.dir[i].size)
<1>1. /\ DOMAIN h = Fields /\ h.damage = f.damage /\ h.disk = f.disk /\ h.data = f.data
      /\ h.dir = RemoveAt(f.dir, i) /\ h.freeBlocks = f.freeBlocks + m
      /\ h.blocks = Released(f, i)
  BY DEF Delete, Released, Fields
<1> HIDE DEF h
<1>2. ASSUME Sound(f, k)
      PROVE  Sound(h, k)
  <2>1. /\ i \in DOMAIN f.dir
        /\ DataOK(f.data) /\ f.dir \in Seq(Entry) /\ f.disk \in Seq(Entry) \cup {Outdated}
        /\ Layout(f.blocks, f.dir, k) /\ f.freeBlocks \in Nat
        /\ f.freeBlocks + Lacking(f.dir, k) <= Cardinality(Free(f.blocks) \ {1})
    BY <1>2 DEF Sound
  <2>2. f.blocks \in Links /\ k \in Nat
    BY <2>1 DEF Layout
  <2>3. h.blocks = Cleared(f.blocks, BlocksOf(f.blocks, f.dir[i]))
    BY <1>1, <2>2, ReleasedIs
  <2>4. IsReleased(f.blocks, h.blocks, f.dir, i, k)
    BY <2>1, <2>3, FileReleased
  <2>5. Layout(h.blocks, h.dir, k)
    <3>1. Layout(h.blocks, Without(f.dir, i), k)
      BY <2>4 DEF IsReleased
    <3> QED BY <1>1, <2>1, <3>1, LayoutRemoved
  <2>6. Cardinality(Free(h.blocks) \ {1}) = Cardinality(Free(f.blocks) \ {1}) + m
    BY <2>4 DEF IsReleased
  <2>7. PICK n : n = Len(f.dir) - 1
    OBVIOUS
  <2>8. n \in Nat /\ n + 1 = Len(f.dir) /\ Len(h.dir) = n /\ h.dir \in Seq(Entry)
    <3>1. Len(f.dir) \in Nat
      BY <2>1, Places
    <3> QED BY <1>1, <2>1, <2>7, <3>1, Removed
  <2>9. DirBlocks(n) \in Nat /\ DirBlocks(n + 1) \in Nat /\ DirBlocks(n) <= DirBlocks(n + 1)
    <3>1. PICK x : x = IF n % PerBlock = 0 THEN 1 ELSE 0
      OBVIOUS
    <3>2. DirBlocks(n) \in Nat /\ DirBlocks(n + 1) = DirBlocks(n) + x /\ x \in {0, 1}
      BY <2>8, <3>1, DirBlocksFacts
    <3> QED BY <3>2
  <2>10. /\ Lacking(h.dir, k) <= Lacking(f.dir, k)
         /\ Lacking(h.dir, k) \in Nat /\ Lacking(f.dir, k) \in Nat
    <3>1. PICK x : x = DirBlocks(n)
      OBVIOUS
    <3>2. PICK y : y = DirBlocks(n + 1)
      OBVIOUS
    <3>3. /\ Lacking(h.dir, k) = IF x > k THEN x - k ELSE 0
          /\ Lacking(f.dir, k) = IF y > k THEN y - k ELSE 0
      BY <2>8, <3>1, <3>2 DEF Lacking
    <3>4. x \in Nat /\ y \in Nat /\ x <= y
      BY <2>9, <3>1, <3>2
    <3> QED BY <2>2, <3>3, <3>4
  <2>11. m \in Nat
    <3>1. f.dir[i].size \in Nat
      BY <2>1, Places
    <3> QED BY <3>1, BlocksPositive
  <2>12. Cardinality(Free(f.blocks) \ {1}) \in Nat
    BY FreeFinite
  <2>13. h.freeBlocks \in Nat
    BY <1>1, <2>1, <2>11
  <2>14. h.freeBlocks + Lacking(h.dir, k) <= Cardinality(Free(h.blocks) \ {1})
    <3> HIDE DEF m
    <3> QED BY <1>1, <2>1, <2>6, <2>10, <2>11, <2>12
  <2> QED BY <1>1, <2>1, <2>5, <2>8, <2>13, <2>14 DEF Sound
<1> QED BY <1>1, <1>2 DEF Keeps, Grows, h

\* What Find finds in a directory is one of its places.
LEMMA FoundPlace ==
  ASSUME NEW f, f.dir \in Seq(Entry), NEW name, Find(f, name) # 0
  PROVE  Find(f, name) \in DOMAIN f.dir
<1> DEFINE T == {i \in DOMAIN f.dir : f.dir[i].name = name}
<1>1. Len(f.dir) \in Nat /\ DOMAIN f.dir = 1..Len(f.dir)
  BY Places
<1>2. T \subseteq Nat \ {0} /\ T \subseteq DOMAIN f.dir
  BY <1>1
<1>3. Find(f, name) = FirstOf(T)
  BY DEF Find
<1> HIDE DEF T
<1>4. FirstOf(T) \in T
  BY <1>2, <1>3, FirstOfPlaces
<1> QED BY <1>2, <1>3, <1>4

\* The same where the file system is sound.
LEMMA FoundIfSound ==
  ASSUME NEW f, NEW k, NEW name, Find(f, name) # 0
  PROVE  Sound(f, k) => Find(f, name) \in DOMAIN f.dir
BY FoundPlace DEF Sound

\* A file is written from its beginning or behind its end.
LEMMA WriteFileKeeps ==
  ASSUME EofIsNoBlock, NEW f, DOMAIN f = Fields, NEW k, NEW name \in Name,
         NEW bytes \in Seq(Content), NEW appending, NEW at \in Addr
  PROVE  Keeps(f, writeFileToFAT(f, name, bytes, 0, appending, at).fs, k)
<1> DEFINE i == Find(f, name)
           r == writeFileToFAT(f, name, bytes, 0, appending, at)
<1>1. \/ i = 0 /\ r = Create(f, name, bytes, at)
      \/ i # 0 /\ r = AppendTo(f, i, bytes)
      \/ i # 0 /\ r = Overwrite(f, i, bytes)
      \/ r = Failed(f)
  BY DEF writeFileToFAT
<1> HIDE DEF i, r
<1>2. i # 0 => (Sound(f, k) => i \in DOMAIN f.dir)
  BY FoundIfSound DEF i
<1>3. CASE i = 0 /\ r = Create(f, name, bytes, at)
  BY <1>3, CreateKeeps DEF r
<1>4. CASE i # 0 /\ r = AppendTo(f, i, bytes)
  <2>1. Keeps(f, AppendTo(f, i, bytes).fs, k)
    BY <1>2, <1>4, AppendToKeeps
  <2> QED BY <1>4, <2>1 DEF r
<1>5. CASE i # 0 /\ r = Overwrite(f, i, bytes)
  <2>1. Keeps(f, Overwrite(f, i, bytes).fs, k)
    BY <1>2, <1>5, OverwriteKeeps
  <2> QED BY <1>5, <2>1 DEF r
<1>6. CASE r = Failed(f)
  <2>1. r.fs = f
    BY <1>6 DEF Failed
  <2> QED BY <2>1, KeepsStill DEF r
<1> QED BY <1>1, <1>3, <1>4, <1>5, <1>6

\* The same for a file that exists, written from any offset on.
LEMMA ExistingKeeps ==
  ASSUME EofIsNoBlock, NEW f, FsOK(f), NEW k, NEW name, Find(f, name) # 0,
         NEW bytes \in Seq(Content), NEW offset \in Nat, NEW appending, NEW at,
         writeFileToFAT(f, name, bytes, offset, appending, at).fs.damage \cap Misplaced = {}
  PROVE  Keeps(f, writeFileToFAT(f, name, bytes, offset, appending, at).fs, k)
<1> DEFINE i == Find(f, name)
           r == writeFileToFAT(f, name, bytes, offset, appending, at)
<1>1. \/ r = AppendTo(f, i, bytes)
      \/ offset \in Nat \ {0} /\ r = WriteAt(f, i, offset, bytes)
      \/ r = Overwrite(f, i, bytes)
      \/ r = Failed(f)
  BY DEF writeFileToFAT
<1>2. i \in DOMAIN f.dir /\ DOMAIN f = Fields
  BY FindFacts DEF FsOK
<1> HIDE DEF i, r
<1>3. CASE r = AppendTo(f, i, bytes)
  <2>1. Keeps(f, AppendTo(f, i, bytes).fs, k)
    BY <1>2, AppendToKeeps
  <2> QED BY <1>3, <2>1 DEF r
<1>4. CASE offset \in Nat \ {0} /\ r = WriteAt(f, i, offset, bytes)
  <2>1. WriteAt(f, i, offset, bytes).fs.damage \cap Misplaced = {}
    BY <1>4 DEF r
  <2>2. Keeps(f, WriteAt(f, i, offset, bytes).fs, k)
    BY <1>2, <1>4, <2>1, WriteAtKeeps
  <2> QED BY <1>4, <2>2 DEF r
<1>5. CASE r = Overwrite(f, i, bytes)
  <2>1. Keeps(f, Overwrite(f, i, bytes).fs, k)
    BY <1>2, OverwriteKeeps
  <2> QED BY <1>5, <2>1 DEF r
<1>6. CASE r = Failed(f)
  <2>1. r.fs = f
    BY <1>6 DEF Failed
  <2> QED BY <1>2, <2>1, KeepsStill DEF r
<1> QED BY <1>1, <1>3, <1>4, <1>5, <1>6

\* A file is deleted, if it is there and may be written.
LEMMA DeleteFileKeeps ==
  ASSUME EofIsNoBlock, NEW f, DOMAIN f = Fields, NEW k, NEW name
  PROVE  Keeps(f, deleteFileFromFAT(f, name).fs, k)
<1> DEFINE i == Find(f, name)
           r == deleteFileFromFAT(f, name)
<1>1. r.fs = f \/ (i # 0 /\ r.fs = Delete(f, i))
  BY DEF deleteFileFromFAT, Done, Failed
<1> HIDE DEF i, r
<1>2. CASE r.fs = f
  BY <1>2, KeepsStill DEF r
<1>3. CASE i # 0 /\ r.fs = Delete(f, i)
  <2>1. Sound(f, k) => i \in DOMAIN f.dir
    BY <1>3, FoundIfSound DEF i
  <2>2. Keeps(f, Delete(f, i), k)
    BY <2>1, DeleteKeeps
  <2> QED BY <1>3, <2>2 DEF r
<1> QED BY <1>1, <1>2, <1>3

\* An entry gets another name or other permissions.
LEMMA RelabelKeeps ==
  ASSUME EofIsNoBlock, NEW f, DOMAIN f = Fields, NEW k, NEW i, NEW e,
         Sound(f, k) => /\ i \in DOMAIN f.dir /\ e \in Entry
                        /\ e.size = f.dir[i].size /\ e.firstBlock = f.dir[i].firstBlock
  PROVE  /\ Keeps(f, [f EXCEPT !.dir = [@ EXCEPT ![i] = e]], k)
         /\ DOMAIN [f EXCEPT !.dir = [@ EXCEPT ![i] = e]].dir = DOMAIN f.dir
<1> DEFINE h == [f EXCEPT !.dir = [@ EXCEPT ![i] = e]]
<1>1. /\ DOMAIN h = Fields /\ h.damage = f.damage /\ h.disk = f.disk /\ h.data = f.data
      /\ h.dir = [f.dir EXCEPT ![i] = e] /\ h.freeBlocks = f.freeBlocks
      /\ h.blocks = f.blocks
  BY DEF Fields
<1> HIDE DEF h
<1>2. ASSUME Sound(f, k) PROVE Sound(h, k)
  BY <1>1, <1>2, FileRelabelled
<1>3. DOMAIN h.dir = DOMAIN f.dir
  BY <1>1
<1> QED BY <1>1, <1>2, <1>3 DEF Keeps, Grows, h

\* A rename, which may delete the file that had the name.
LEMMA RenameKeeps ==
  ASSUME EofIsNoBlock, NEW f, DOMAIN f = Fields, NEW k, NEW old, NEW new \in Name
  PROVE  Keeps(f, renameFile(f, old, new).fs, k)
<1> DEFINE i == Find(f, old)
           j == Find(f, new)
           e == [f.dir[i] EXCEPT !.name = new]
           g == [f EXCEPT !.dir = [@ EXCEPT ![i] = e]]
           r == renameFile(f, old, new)
<1>1. g = [f EXCEPT !.dir[i].name = new]
  OBVIOUS
<1>2. \/ r.fs = f
      \/ i # 0 /\ r.fs = g
      \/ i # 0 /\ j # 0 /\ r.fs = [Delete(g, j) EXCEPT !.damage = @ \cup Flag("mv_to_itself", i = j)]
      \/ i # 0 /\ r.fs = [g EXCEPT !.damage = @ \cup {"mv_over_readonly"}]
  BY <1>1 DEF renameFile, Done, Failed
<1> HIDE DEF i, j, r
<1>3. CASE r.fs = f
  BY <1>3, KeepsStill DEF r
<1>4. CASE i # 0
  <2>1. ASSUME Sound(f, k)
        PROVE  /\ i \in DOMAIN f.dir /\ e \in Entry
               /\ e.size = f.dir[i].size /\ e.firstBlock = f.dir[i].firstBlock
    <3>1. i \in DOMAIN f.dir
      BY <1>4, <2>1, FoundIfSound DEF i
    <3>2. f.dir[i] \in Entry
      BY <2>1, <3>1, Places DEF Sound
    <3> QED BY <3>1, <3>2 DEF Entry
  <2> HIDE DEF e
  <2>2. Keeps(f, g, k) /\ DOMAIN g.dir = DOMAIN f.dir
    BY <2>1, RelabelKeeps
  <2>3. DOMAIN g = Fields
    BY DEF Fields
  <2> HIDE DEF g
  <2>4. CASE r.fs = g
    BY <2>2, <2>4 DEF r
  <2>5. CASE j # 0 /\ r.fs = [Delete(g, j) EXCEPT !.damage = @ \cup Flag("mv_to_itself", i = j)]
    <3>1. ASSUME Sound(f, k) PROVE j \in DOMAIN g.dir
      BY <2>2, <2>5, <3>1, FoundIfSound DEF j
    <3>2. CASE Sound(f, k)
      <4>1. Keeps(g, Delete(g, j), k)
        BY <2>3, <3>1, <3>2, DeleteKeeps
      <4>2. DOMAIN Delete(g, j) = Fields
        BY <4>1 DEF Keeps, Grows
      <4>3. Keeps(Delete(g, j), r.fs, k)
        <5>1. PICK S : S = Flag("mv_to_itself", i = j)
          OBVIOUS
        <5>2. PICK x : x = Delete(g, j)
          OBVIOUS
        <5>3. Keeps(x, [x EXCEPT !.damage = @ \cup S], k)
          BY <4>2, <5>2, FlagsAdded
        <5> QED BY <2>5, <5>1, <5>2, <5>3
      <4> QED BY <2>2, <4>1, <4>3, KeepsOn DEF r
    <3>3. CASE ~Sound(f, k)
      <4>1. Grows(g, Delete(g, j))
        BY <2>3 DEF Grows, Delete, Fields
      <4>2. Grows(Delete(g, j), r.fs)
        <5>1. PICK x : x = Delete(g, j)
          OBVIOUS
        <5>2. DOMAIN x = Fields
          BY <4>1, <5>1 DEF Grows
        <5> QED BY <2>5, <5>1, <5>2 DEF Grows, Fields
      <4> QED BY <2>2, <3>3, <4>1, <4>2 DEF Keeps, Grows, r
    <3> QED BY <3>2, <3>3
  <2>6. CASE r.fs = [g EXCEPT !.damage = @ \cup {"mv_over_readonly"}]
    <3>1. Keeps(g, r.fs, k)
      <4>1. PICK S : S = {"mv_over_readonly"}
        OBVIOUS
      <4>2. Keeps(g, [g EXCEPT !.damage = @ \cup S], k)
        BY <2>3, FlagsAdded
      <4> QED BY <2>6, <4>1, <4>2
    <3> QED BY <2>2, <3>1, KeepsOn DEF r
  <2> QED BY <1>2, <1>3, <2>4, <2>5, <2>6 DEF g
<1> QED BY <1>2, <1>3, <1>4

\* New permissions.
LEMMA ChmodKeeps ==
  ASSUME EofIsNoBlock, NEW f, DOMAIN f = Fields, NEW k, NEW name, NEW perm \in Perms
  PROVE  Keeps(f, chmodFile(f, name, perm).fs, k)
<1> DEFINE i == Find(f, name)
           e == [f.dir[i] EXCEPT !.perm = perm]
           g == [f EXCEPT !.dir = [@ EXCEPT ![i] = e]]
           r == chmodFile(f, name, perm)
<1>1. g = [f EXCEPT !.dir[i].perm = perm]
  OBVIOUS
<1>2. r.fs = f \/ (i # 0 /\ r.fs = g)
  BY <1>1 DEF chmodFile, Done, Failed
<1> HIDE DEF i, r
<1>3. CASE r.fs = f
  BY <1>3, KeepsStill DEF r
<1>4. CASE i # 0 /\ r.fs = g
  <2>1. ASSUME Sound(f, k)
        PROVE  /\ i \in DOMAIN f.dir /\ e \in Entry
               /\ e.size = f.dir[i].size /\ e.firstBlock = f.dir[i].firstBlock
    <3>1. i \in DOMAIN f.dir
      BY <1>4, <2>1, FoundIfSound DEF i
    <3>2. f.dir[i] \in Entry
      BY <2>1, <3>1, Places DEF Sound
    <3> QED BY <3>1, <3>2 DEF Entry
  <2> HIDE DEF e
  <2>2. Keeps(f, g, k)
    BY <2>1, RelabelKeeps
  <2> QED BY <1>4, <2>2 DEF r
<1> QED BY <1>2, <1>3, <1>4

-----------------------------------------------------------------------------
\* The size of the directory on disk is that of its chain.
DirectorySaved(f, k) ==
  f.disk # Outdated =>
    k = (IF DirBlocks(Len(f.disk)) > 1 THEN DirBlocks(Len(f.disk)) ELSE 1)

\* The directory is saved.
LEMMA SaveFatSound ==
  ASSUME EofIsNoBlock, NEW f, NEW k, Sound(f, k), Innocent(saveFat(f))
  PROVE  \E m : /\ Sound(saveFat(f), m)
                /\ saveFat(f).dir = f.dir
                /\ m = (IF DirBlocks(Len(f.dir)) > 1 THEN DirBlocks(Len(f.dir)) ELSE 1)
                /\ saveFat(f).disk = (IF f.dir = <<>> THEN f.disk ELSE f.dir)
<1> DEFINE t == Cleared(f.blocks, Chain(f.blocks, 1))
           h == saveFat(f)
<1>1. /\ DOMAIN f = Fields /\ DataOK(f.data)
      /\ f.dir \in Seq(Entry) /\ f.disk \in Seq(Entry) \cup {Outdated}
      /\ Layout(f.blocks, f.dir, k) /\ f.freeBlocks \in Nat
      /\ f.freeBlocks + Lacking(f.dir, k) <= Cardinality(Free(f.blocks) \ {1})
  BY DEF Sound
<1>2. deleteFileHelper(f.blocks, 1, 1) = t
  BY DEF deleteFileHelper, Cleared
<1>3. /\ Layout(t, f.dir, 1) /\ t[1] = 0
      /\ Cardinality(Free(t) \ {1}) = Cardinality(Free(f.blocks) \ {1}) + (k - 1)
  BY <1>1, DirectoryReleased
<1> HIDE DEF t
<1>4. k \in Nat \ {0} /\ t \in Links
  BY <1>1, <1>3 DEF Layout
<1>5. PICK n : n = DirBlocks(Len(f.dir))
  OBVIOUS
<1>6. /\ n \in Nat /\ Lacking(f.dir, k) \in Nat /\ n <= k + Lacking(f.dir, k)
      /\ Cardinality(Free(f.blocks) \ {1}) \in Nat
      /\ (f.dir = <<>> <=> n = 0)
  <2>1. Len(f.dir) \in Nat /\ (f.dir = <<>> <=> Len(f.dir) = 0)
    BY <1>1, Places, EmptySeq
  <2>2. PICK l : l = Len(f.dir)
    OBVIOUS
  <2>3. n = DirBlocks(l) /\ l \in Nat
    BY <1>5, <2>1, <2>2
  <2>4. l = 0 <=> n = 0
    BY <2>3, DirBlocksFacts
  <2>5. /\ Lacking(f.dir, k) \in Nat /\ DirBlocks(Len(f.dir)) \in Nat
        /\ DirBlocks(Len(f.dir)) <= k + Lacking(f.dir, k)
    BY <1>1, <1>4, LackingIs
  <2> QED BY <1>5, <2>1, <2>2, <2>4, <2>5, FreeFinite
<1>7. CASE f.dir = <<>>
  <2>1. h = [f EXCEPT !.blocks = t]
    BY <1>2, <1>7 DEF saveFat
  <2>2. /\ DOMAIN h = Fields /\ h.data = f.data /\ h.dir = f.dir /\ h.disk = f.disk
        /\ h.freeBlocks = f.freeBlocks /\ h.blocks = t
    BY <1>1, <2>1 DEF Fields
  <2>3. n = 0 /\ Lacking(h.dir, 1) = 0
    BY <1>5, <1>6, <1>7, <2>2 DEF Lacking
  <2>4. h.freeBlocks + Lacking(h.dir, 1) <= Cardinality(Free(h.blocks) \ {1})
    BY <1>1, <1>3, <1>4, <1>6, <2>2, <2>3
  <2>5. Sound(h, 1)
    BY <1>1, <1>3, <2>2, <2>4 DEF Sound
  <2> QED BY <1>5, <1>7, <2>2, <2>3, <2>5
<1>8. CASE f.dir # <<>>
  <2>1. PICK m : m = n - 1
    OBVIOUS
  <2>2. m \in Nat /\ n = m + 1 /\ n \in Nat \ {0}
    BY <1>6, <1>8, <2>1
  <2>3. PICK g : g = Grow(t, 1, m)[m]
    OBVIOUS
  <2>4. h = Terminate([[f EXCEPT !.blocks = t] EXCEPT !.disk = f.dir], g)
        \/ h = Terminate([f EXCEPT !.disk = f.dir], g)
    BY <1>2, <1>5, <1>8, <2>1, <2>3 DEF saveFat
  <2>5. /\ DOMAIN h = Fields /\ h.data = f.data /\ h.dir = f.dir /\ h.disk = f.dir
        /\ h.freeBlocks = f.freeBlocks /\ h.blocks = Ended(g)
        /\ ~g.clean => "no_room_behind" \in h.damage
    BY <1>1, <2>4 DEF Terminate, Fields, Ended, Flag
  <2>6. g.clean
    BY <2>5 DEF Innocent, Forbidden
  <2>7. m <= Cardinality(Free(t) \ {1})
    BY <1>1, <1>3, <1>4, <1>6, <2>2
  <2>8. PICK u : u = Ended(g)
    OBVIOUS
  <2>9. TakesDirectory(t, u, n)
    BY <1>3, <1>4, <2>2, <2>3, <2>6, <2>7, <2>8, DirectoryChain
  <2>10. /\ Layout(u, f.dir, n)
         /\ Cardinality(Free(u) \ {1}) = Cardinality(Free(t) \ {1}) - (n - 1)
    BY <1>3, <2>2, <2>9, DirectoryTaken
  <2>11. Lacking(h.dir, n) = 0
    BY <1>5, <1>6, <2>5 DEF Lacking
  <2>12. h.freeBlocks + Lacking(h.dir, n) <= Cardinality(Free(h.blocks) \ {1})
    <3>1. Cardinality(Free(u) \ {1}) = Cardinality(Free(f.blocks) \ {1}) + (k - 1) - (n - 1)
      BY <1>3, <1>4, <1>6, <2>2, <2>10
    <3>2. f.freeBlocks <= Cardinality(Free(f.blocks) \ {1}) + (k - 1) - (n - 1)
      BY <1>1, <1>4, <1>6, <2>2
    <3> QED BY <1>1, <2>5, <2>8, <2>11, <3>1, <3>2
  <2>13. Sound(h, n)
    BY <1>1, <2>5, <2>8, <2>10, <2>12 DEF Sound
  <2>14. n = (IF DirBlocks(Len(f.dir)) > 1 THEN DirBlocks(Len(f.dir)) ELSE 1)
    BY <1>5, <2>2
  <2> QED BY <1>8, <2>5, <2>13, <2>14
<1> QED BY <1>7, <1>8

\* The greatest of some numbers up to n.
LEMMA TopIs ==
  ASSUME NEW n \in Nat, NEW s \in SUBSET (1..n)
  PROVE  /\ s # {} => Max(s) \in s
         /\ n \in s => Max(s) = n /\ s \ {Max(s)} \in SUBSET (1..(n - 1))
         /\ n \notin s => s \in SUBSET (1..(n - 1))
<1>1. \A j \in 1..n : j \in Int /\ j <= n /\ (j # n => j \in 1..(n - 1))
  OBVIOUS
<1>2. s # {} => Max(s) \in s
  BY MaxOfNaturals
<1>3. ASSUME n \in s PROVE Max(s) = n
  <2>1. n \in s /\ \A y \in s : n >= y
    BY <1>1, <1>3
  <2>2. \A x \in s : (\A y \in s : x >= y) => x = n
    BY <1>1, <1>3
  <2> QED BY <2>1, <2>2 DEF Max
<1> QED BY <1>1, <1>2, <1>3

\* The sums of the blocks that the entries of a directory call for.
SumsOf(u, dir, n) ==
  u[0] = 0 /\ \A i \in 1..n : u[i] = u[i - 1] + bytesToBlocks(dir[i].size)

\* UsedBlocks (loadFat) is the last of these sums.
LEMMA UsedBlocksSums ==
  ASSUME NEW dir, NEW n \in Nat, DOMAIN dir = 1..n
  PROVE  \E u : SumsOf(u, dir, n) /\ UsedBlocks(dir) = u[n]
<1> DEFINE Q(it, m) ==
             it = [s \in SUBSET (1..m) |->
                     IF s = {} THEN 0
                     ELSE it[s \ {Max(s)}] + bytesToBlocks(dir[Max(s)].size)]
           T == {m \in 0..n : \E it : Q(it, m)}
<1>1. 0 \in T
  <2> DEFINE it == [s \in SUBSET (1..0) |-> 0]
  <2>1. Q(it, 0)
    OBVIOUS
  <2> HIDE DEF it, Q
  <2> QED BY <2>1
<1>2. ASSUME NEW m \in 0..(n - 1), m \in T PROVE m + 1 \in T
  <2>1. PICK it : Q(it, m)
    BY <1>2
  <2>2. m \in Nat /\ m + 1 \in Nat /\ (m + 1) - 1 = m
    OBVIOUS
  <2> DEFINE new == [s \in SUBSET (1..(m + 1)) |->
                       IF m + 1 \in s
                         THEN it[s \ {m + 1}] + bytesToBlocks(dir[m + 1].size)
                         ELSE it[s]]
  <2>3. ASSUME NEW s \in SUBSET (1..(m + 1))
        PROVE  new[s] = IF s = {} THEN 0
                        ELSE new[s \ {Max(s)}] + bytesToBlocks(dir[Max(s)].size)
    <3>1. /\ s # {} => Max(s) \in s
          /\ m + 1 \in s => Max(s) = m + 1 /\ s \ {Max(s)} \in SUBSET (1..m)
          /\ m + 1 \notin s => s \in SUBSET (1..m)
      BY <2>2, TopIs
    <3>2. m + 1 \notin 1..m
      BY <2>2
    <3>3. \A x \in SUBSET (1..m) : x \in SUBSET (1..(m + 1)) /\ m + 1 \notin x /\ new[x] = it[x]
      BY <2>2, <3>2
    <3>4. CASE m + 1 \in s
      <4>1. new[s] = it[s \ {m + 1}] + bytesToBlocks(dir[m + 1].size)
        BY <3>4
      <4>2. new[s \ {m + 1}] = it[s \ {m + 1}]
        BY <3>1, <3>3, <3>4
      <4> HIDE DEF new
      <4> QED BY <3>1, <3>4, <4>1, <4>2
    <3>5. CASE m + 1 \notin s
      <4>1. s \in SUBSET (1..m) /\ s \ {Max(s)} \in SUBSET (1..m)
        BY <3>1, <3>5
      <4>2. new[s] = it[s] /\ new[s \ {Max(s)}] = it[s \ {Max(s)}]
        BY <3>3, <4>1
      <4>3. it[s] = IF s = {} THEN 0
                    ELSE it[s \ {Max(s)}] + bytesToBlocks(dir[Max(s)].size)
        BY <2>1, <4>1
      <4> HIDE DEF new
      <4> QED BY <4>2, <4>3
    <3> QED BY <3>4, <3>5
  <2>4. new = [s \in SUBSET (1..(m + 1)) |-> new[s]]
    OBVIOUS
  <2>5. Q(new, m + 1)
    <3> HIDE DEF new
    <3> QED BY <2>3, <2>4
  <2> HIDE DEF new, Q
  <2>6. m + 1 \in 0..n
    OBVIOUS
  <2> QED BY <2>5, <2>6
<1>3. n \in T
  <2>1. \A m \in 0..(n - 1) : m \in T => m + 1 \in T
    BY <1>2
  <2> HIDE DEF T
  <2>2. \A m \in 0..n : m \in T
    BY <1>1, <2>1, UpTo
  <2>3. n \in 0..n
    OBVIOUS
  <2> QED BY <2>2, <2>3
<1> DEFINE it == CHOOSE it : Q(it, n)
<1>4. Q(it, n)
  <2>1. \E i : Q(i, n)
    BY <1>3
  <2> HIDE DEF Q
  <2> QED BY <2>1
<1>5. UsedBlocks(dir) = it[1..n]
  BY DEF UsedBlocks, FoldLeft, MapThenFoldSet
<1> HIDE DEF it
<1> DEFINE u == [i \in 0..n |-> it[1..i]]
<1>6. u[0] = 0
  <2>1. 1..0 = {} /\ {} \in SUBSET (1..n) /\ 0 \in 0..n
    OBVIOUS
  <2> QED BY <1>4, <2>1
<1>7. ASSUME NEW i \in 1..n PROVE u[i] = u[i - 1] + bytesToBlocks(dir[i].size)
  <2>0. /\ i \in 0..n /\ i - 1 \in 0..n /\ i \in Nat /\ i \in 1..i
        /\ \A j \in 1..i : j \in 1..n
    OBVIOUS
  <2>1. /\ i \in 0..n /\ i - 1 \in 0..n /\ 1..i \in SUBSET (1..n) /\ 1..i # {}
        /\ i \in Nat /\ i \in 1..i /\ 1..i \in SUBSET (1..i)
    BY <2>0
  <2>2. Max(1..i) = i
    BY <2>1, TopIs
  <2>3. (1..i) \ {i} = 1..(i - 1)
    OBVIOUS
  <2>4. it[1..i] = it[(1..i) \ {Max(1..i)}] + bytesToBlocks(dir[Max(1..i)].size)
    BY <1>4, <2>1
  <2> QED BY <2>1, <2>2, <2>3, <2>4
<1>8. u[n] = it[1..n]
  OBVIOUS
<1> HIDE DEF u
<1> QED BY <1>5, <1>6, <1>7, <1>8 DEF SumsOf

\* The blocks of the first i entries.
BlocksUpTo(t, d, i) == UNION {BlocksOf(t, d[j]) : j \in 1..i}

\* These are as many as the sizes of the entries call for.
LEMMA BlocksCalledFor ==
  ASSUME EofIsNoBlock, NEW t, NEW d, NEW k, Layout(t, d, k), NEW n \in Nat, DOMAIN d = 1..n,
         NEW u, SumsOf(u, d, n)
  PROVE  /\ IsFiniteSet(BlocksUpTo(t, d, n)) /\ u[n] \in Nat
         /\ Cardinality(BlocksUpTo(t, d, n)) = u[n]
<1> DEFINE S(i) == BlocksUpTo(t, d, i)
           T == {i \in 0..n : IsFiniteSet(S(i)) /\ u[i] \in Nat /\ Cardinality(S(i)) = u[i]}
<1>1. 0 \in T
  <2>1. S(0) = {}
    BY DEF BlocksUpTo
  <2>2. u[0] = 0
    BY DEF SumsOf
  <2> QED BY <2>1, <2>2, FS_EmptySet
<1>2. ASSUME NEW i \in 0..(n - 1), i \in T PROVE i + 1 \in T
  <2>1. i + 1 \in 1..n /\ (i + 1) - 1 = i /\ i + 1 \in 0..n
    OBVIOUS
  <2>2. PICK m : m = i + 1
    OBVIOUS
  <2>3. u[m] = u[i] + bytesToBlocks(d[m].size)
    BY <2>1, <2>2 DEF SumsOf
  <2>4. FileSound(t, d[m])
    BY <2>1, <2>2 DEF Layout
  <2>5. IsFiniteSet(BlocksOf(t, d[m])) /\ Cardinality(BlocksOf(t, d[m])) = bytesToBlocks(d[m].size)
    BY <2>4, FileBlocks
  <2>6. bytesToBlocks(d[m].size) \in Nat
    BY <2>4, BlocksPositive DEF FileSound
  <2>7. S(m) = S(i) \cup BlocksOf(t, d[m])
    <3>1. 1..m = (1..i) \cup {m}
      BY <2>2
    <3> QED BY <3>1 DEF BlocksUpTo
  <2>8. S(i) \cap BlocksOf(t, d[m]) = {}
    <3>1. \A j \in 1..i : j \in DOMAIN d /\ m \in DOMAIN d /\ j # m
      BY <2>2
    <3>2. \A j \in 1..i : BlocksOf(t, d[j]) \cap BlocksOf(t, d[m]) = {}
      BY <3>1 DEF Layout
    <3> QED BY <3>2 DEF BlocksUpTo
  <2>9. IsFiniteSet(S(i)) /\ u[i] \in Nat /\ Cardinality(S(i)) = u[i]
    BY <1>2
  <2> HIDE DEF S
  <2>10. /\ IsFiniteSet(S(i) \cup BlocksOf(t, d[m]))
         /\ Cardinality(S(i) \cup BlocksOf(t, d[m]))
              = Cardinality(S(i)) + Cardinality(BlocksOf(t, d[m]))
    BY <2>5, <2>8, <2>9, DisjointUnion
  <2>11. IsFiniteSet(S(m)) /\ u[m] \in Nat /\ Cardinality(S(m)) = u[m]
    BY <2>3, <2>5, <2>6, <2>7, <2>9, <2>10
  <2> QED BY <2>1, <2>2, <2>11
<1>3. \A i \in 0..(n - 1) : i \in T => i + 1 \in T
  BY <1>2
<1> HIDE DEF T
<1>4. \A i \in 0..n : i \in T
  BY <1>1, <1>3, UpTo
<1>5. n \in T
  BY <1>4
<1> QED BY <1>5 DEF T

\* A directory that has one block: what is free is what no file calls for.
LEMMA FreeIfOneBlock ==
  ASSUME EofIsNoBlock, NEW t, NEW d \in Seq(Entry), Layout(t, d, 1)
  PROVE  /\ UsedBlocks(d) \in Nat
         /\ Cardinality(Free(t) \ {1}) = NumEntries - 2 - UsedBlocks(d)
<1>1. PICK n \in Nat : n = Len(d) /\ DOMAIN d = 1..n
  BY Places
<1>2. PICK u : SumsOf(u, d, n) /\ UsedBlocks(d) = u[n]
  BY <1>1, UsedBlocksSums
<1>3. PICK S : S = BlocksUpTo(t, d, n)
  OBVIOUS
<1>4. IsFiniteSet(S) /\ u[n] \in Nat /\ Cardinality(S) = u[n]
  BY <1>1, <1>2, <1>3, BlocksCalledFor
<1>5. Chain(t, 1) = {1}
  <2>1. 1 \in Chain(t, 1) /\ IsFiniteSet(Chain(t, 1)) /\ Cardinality(Chain(t, 1)) = 1
    BY DirectoryBlocks
  <2> QED BY <2>1, FS_Singleton
<1>6. ASSUME NEW j \in DOMAIN d
      PROVE  /\ BlocksOf(t, d[j]) \subseteq Data
             /\ \A b \in BlocksOf(t, d[j]) : t[b] # 0
  <2>1. FileSound(t, d[j])
    BY DEF Layout
  <2> QED BY <2>1, FileBlocks
<1>7. S \subseteq Data /\ \A b \in S : t[b] # 0
  BY <1>1, <1>3, <1>6 DEF BlocksUpTo
<1>8. \A b \in Data : t[b] # 0 => b \in S
  BY <1>1, <1>3, <1>5, FatAssumption DEF Layout, BlocksUpTo, Data
<1>9. Data \subseteq Index /\ 1 \notin Data /\ Index \ {0, 1} = Data
  BY FatAssumption DEF Data, Index
<1>10. Data = (Free(t) \ {1}) \cup S /\ (Free(t) \ {1}) \cap S = {}
  BY <1>7, <1>8, <1>9 DEF Free
<1>11. IsFiniteSet(Free(t) \ {1}) /\ Cardinality(Free(t) \ {1}) \in Nat
  BY FreeFinite
<1>12. Cardinality((Free(t) \ {1}) \cup S) = Cardinality(Free(t) \ {1}) + Cardinality(S)
  BY <1>4, <1>10, <1>11, DisjointUnion
<1>13. Cardinality(Data) = NumEntries - 2 /\ NumEntries \in Nat
  BY BlocksCounted, FatAssumption
<1> QED BY <1>2, <1>4, <1>10, <1>11, <1>12, <1>13

\* What is free is data.
LEMMA FreeBound ==
  ASSUME NEW t
  PROVE  Cardinality(Free(t) \ {1}) <= NumEntries - 2
<1>1. Free(t) \ {1} \subseteq Data
  BY FatAssumption DEF Free, Data, Index
<1>2. Cardinality(Free(t) \ {1}) <= Cardinality(Data)
  BY <1>1, BlocksCounted, FS_Subset
<1> QED BY <1>2, BlocksCounted

\* A directory that is not in memory and is to be loaded.
Stored(f, k) ==
  /\ DOMAIN f = Fields /\ DataOK(f.data)
  /\ f.dir = <<>> /\ f.freeBlocks = 0
  /\ f.disk \in Seq(Entry) /\ Layout(f.blocks, f.disk, k) /\ DirectorySaved(f, k)

\* A mount.
LEMMA LoadFatSound ==
  ASSUME EofIsNoBlock, NEW f, NEW k, DOMAIN f = Fields, DataOK(f.data), f.disk \in Seq(Entry),
         Layout(f.blocks, f.disk, k), DirectorySaved(f, k), Innocent(loadFat(f))
  PROVE  /\ Sound(loadFat(f), k) /\ DirectorySaved(loadFat(f), k)
         /\ loadFat(f).disk = f.disk /\ loadFat(f).dir = f.disk
<1>1. PICK h : h = loadFat(f)
  OBVIOUS
<1>2. PICK t : t = [f.blocks EXCEPT ![1] = IF @ = 0 THEN Eof ELSE @]
  OBVIOUS
<1>3. /\ DOMAIN h = Fields /\ h.data = f.data /\ h.disk = f.disk /\ h.dir = f.disk
      /\ h.blocks = t /\ h.freeBlocks = NumEntries - 2 - UsedBlocks(f.disk)
      /\ Len(f.disk) > PerBlock => "load_long_directory" \in h.damage
  BY <1>1, <1>2 DEF loadFat, Fields, Flag
<1>4. ~(Len(f.disk) > PerBlock)
  <2>1. Innocent(h)
    BY <1>1
  <2>2. "load_long_directory" \notin h.damage
    BY <2>1 DEF Innocent, Forbidden
  <2> QED BY <1>3, <2>2
<1>5. PICK l \in Nat : l = Len(f.disk)
  BY Places
<1>6. DirBlocks(l) \in Nat /\ DirBlocks(l) <= 1
  <2>1. l <= PerBlock
    <3>1. ~(l > PerBlock) /\ l \in Nat /\ PerBlock \in Nat
      BY <1>4, <1>5, FatAssumption
    <3> QED BY ONLY <3>1
  <2> QED BY <2>1, DirBlocksFacts
<1>7. f.disk # Outdated
  BY FatAssumption
<1>8. k = 1
  BY <1>5, <1>6, <1>7 DEF DirectorySaved
<1>9. Layout(t, f.disk, 1)
  <2>1. CASE f.blocks[1] = 0
    <3>1. t = [f.blocks EXCEPT ![1] = Eof]
      BY <1>2, <2>1
    <3>2. Layout([f.blocks EXCEPT ![1] = Eof], f.disk, k)
      BY <2>1, DirectoryMarked
    <3> QED BY <1>8, <3>1, <3>2
  <2>2. CASE f.blocks[1] # 0
    <3>1. f.blocks \in Links
      BY DEF Layout
    <3>2. t = f.blocks
      BY <1>2, <2>2, <3>1 DEF Links
    <3> QED BY <1>8, <3>2
  <2> QED BY <2>1, <2>2
<1>10. /\ UsedBlocks(f.disk) \in Nat
       /\ Cardinality(Free(t) \ {1}) = NumEntries - 2 - UsedBlocks(f.disk)
       /\ Cardinality(Free(t) \ {1}) \in Nat
  BY <1>9, FreeIfOneBlock, FreeFinite
<1>11. Lacking(f.disk, 1) = 0
  BY <1>5, <1>6 DEF Lacking
<1>12. Sound(h, 1)
  BY <1>3, <1>9, <1>10, <1>11 DEF Sound
<1>13. DirectorySaved(h, k)
  BY <1>3 DEF DirectorySaved
<1> QED BY <1>1, <1>3, <1>8, <1>12, <1>13

-----------------------------------------------------------------------------
(***************************************************************************)
(* What is read.                                                           *)
(***************************************************************************)
LEMMA BytesOK ==
  ASSUME NEW f, DataOK(f.data), NEW e, e.size \in Nat
  PROVE  Bytes(f, e) \in Seq(Content)
<1> DEFINE cell == Cells(f, e)
<1> HIDE DEF cell
<1>1. Bytes(f, e) = [j \in 1..e.size |->
                       IF cell[j] \in DOMAIN f.data THEN f.data[cell[j]] ELSE Junk]
  BY DEF Bytes, cell
<1>2. \A c \in DOMAIN f.data : f.data[c] \in Content
  BY DEF DataOK, Range
<1>3. \A j \in 1..e.size :
         (IF cell[j] \in DOMAIN f.data THEN f.data[cell[j]] ELSE Junk) \in Content
  BY <1>2 DEF Content
<1>4. Bytes(f, e) \in [1..e.size -> Content]
  BY <1>1, <1>3
<1> QED BY <1>4, SeqDef

\* The same for a file by name.
LEMMA ReadOK ==
  ASSUME NEW f, DataOK(f.data), f.dir \in Seq(Entry), NEW name, Readable(f, name)
  PROVE  readFileFromFAT(f, name) \in Seq(Content)
<1>1. PICK i : i = Find(f, name)
  OBVIOUS
<1>2. i \in DOMAIN f.dir
  BY <1>1, FoundPlace DEF Readable
<1>3. f.dir[i].size \in Nat
  BY <1>2, Places
<1>4. Bytes(f, f.dir[i]) \in Seq(Content)
  BY <1>3, BytesOK
<1> QED BY <1>1, <1>4 DEF readFileFromFAT

-----------------------------------------------------------------------------
(***************************************************************************)
(* Between two commands.                                                   *)
(***************************************************************************)
\* h is f but for bytes, or for a directory on disk, that nobody will read.
Tidied(f, h) ==
  /\ DOMAIN h = Fields /\ h.blocks = f.blocks /\ h.dir = f.dir
  /\ h.freeBlocks = f.freeBlocks /\ h.damage = f.damage
  /\ DataOK(f.data) => DataOK(h.data)

\* Settle forgets only bytes ...
LEMMA SettleIs ==
  ASSUME NEW f, DOMAIN f = Fields
  PROVE  Tidied(f, Settle(f)) /\ Settle(f).disk = f.disk
<1>1. PICK kept : Settle(f) = [f EXCEPT !.data = Restrict(@, DOMAIN @ \cap kept)]
  BY DEF Settle
<1>2. PICK d : d = Restrict(f.data, DOMAIN f.data \cap kept)
  OBVIOUS
<1>3. DOMAIN d \subseteq DOMAIN f.data /\ \A c \in DOMAIN d : d[c] = f.data[c]
  BY <1>2 DEF Restrict
<1>4. DataOK(f.data) => DataOK(d)
  BY <1>3 DEF DataOK, Range
<1>5. Settle(f) = [f EXCEPT !.data = d]
  BY <1>1, <1>2
<1> QED BY <1>4, <1>5 DEF Tidied, Fields

\* ... and Unsaved only the directory on disk.
LEMMA UnsavedIs ==
  ASSUME "load_unsaved" \notin Situations, NEW f, DOMAIN f = Fields
  PROVE  /\ Tidied(f, Unsaved(f))
         /\ Unsaved(f).disk \in {f.disk, Outdated} \cap {f.dir, Outdated}
<1>1. Unsaved(f) = [f EXCEPT !.disk = IF f.disk = f.dir THEN f.disk ELSE Outdated]
  BY DEF Unsaved
<1> QED BY <1>1 DEF Tidied, Fields

\* A mounted file system stays sound ...
LEMMA TidiedSound ==
  ASSUME NEW f, NEW h, NEW k, Sound(f, k), DirectorySaved(f, k), Tidied(f, h),
         h.disk \in {f.disk, Outdated}
  PROVE  Sound(h, k) /\ DirectorySaved(h, k)
BY DEF Sound, DirectorySaved, Tidied

\* ... and so does one that is not mounted.
LEMMA TidiedStored ==
  ASSUME NEW f, NEW h, NEW k, Stored(f, k), Tidied(f, h), h.disk = f.disk
  PROVE  Stored(h, k)
BY DEF Stored, DirectorySaved, Tidied

\* A file system that is mounted, or is not.
Intact(f, m) ==
  IF m THEN \E k : Sound(f, k) /\ DirectorySaved(f, k) /\ f.disk \in {f.dir, Outdated}
  ELSE \E k : Stored(f, k)

\* Settle leaves it so.
LEMMA SettleIntact ==
  ASSUME NEW f, NEW m, Intact(f, m)
  PROVE  Intact(Settle(f), m)
<1>1. DOMAIN f = Fields
  BY DEF Intact, Sound, Stored
<1>2. Tidied(f, Settle(f)) /\ Settle(f).disk = f.disk
  BY <1>1, SettleIs
<1>3. CASE m
  <2>1. PICK k : Sound(f, k) /\ DirectorySaved(f, k) /\ f.disk \in {f.dir, Outdated}
    BY <1>3 DEF Intact
  <2>2. Sound(Settle(f), k) /\ DirectorySaved(Settle(f), k)
    BY <1>2, <2>1, TidiedSound
  <2>3. Settle(f).disk \in {Settle(f).dir, Outdated}
    BY <1>2, <2>1 DEF Tidied
  <2> QED BY <1>3, <2>2, <2>3 DEF Intact
<1>4. CASE ~m
  <2>1. PICK k : Stored(f, k)
    BY <1>4 DEF Intact
  <2>2. Stored(Settle(f), k)
    BY <1>2, <2>1, TidiedStored
  <2> QED BY <1>4, <2>2 DEF Intact
<1> QED BY <1>3, <1>4

\* None of the situations that damage table or directory is allowed.
Careful == Situations \cap Forbidden = {}

\* A save adds what it meets.
LEMMA SaveFatAdds ==
  ASSUME NEW f, DOMAIN f = Fields
  PROVE  DOMAIN saveFat(f) = Fields /\ f.damage \subseteq saveFat(f).damage
<1>1. CASE f.dir = <<>>
  BY <1>1 DEF saveFat, Fields
<1>2. CASE f.dir # <<>>
  <2>1. PICK g : saveFat(f) = Terminate([f EXCEPT !.disk = f.dir], g)
    BY <1>2 DEF saveFat
  <2> QED BY <2>1 DEF Terminate, Fields
<1> QED BY <1>1, <1>2

\* What is freed is what has been saved.
LEMMA FreeFatStored ==
  ASSUME NEW f, NEW k, Sound(f, k), DirectorySaved(f, k), Innocent(freeFat(f))
  PROVE  Stored(freeFat(f), k)
<1> DEFINE h == freeFat(f)
<1>1. /\ DOMAIN h = Fields /\ h.data = f.data /\ h.blocks = f.blocks /\ h.disk = f.disk
      /\ h.dir = <<>> /\ h.freeBlocks = 0
      /\ f.dir # f.disk => "load_unsaved" \in h.damage
  BY DEF freeFat, Fields, Flag, Sound
<1>2. f.dir = f.disk
  BY <1>1 DEF Innocent, Forbidden
<1> HIDE DEF h
<1> QED BY <1>1, <1>2 DEF Sound, DirectorySaved, Stored, h

\* freeFat adds what it meets.
LEMMA FreeFatAdds ==
  ASSUME NEW f, DOMAIN f = Fields
  PROVE  DOMAIN freeFat(f) = Fields /\ f.damage \subseteq freeFat(f).damage
BY DEF freeFat, Fields

\* What the user is allowed to meet does no damage.
LEMMA AllowedIsInnocent ==
  ASSUME Careful, NEW f, f.damage \subseteq Situations
  PROVE  Innocent(f)
BY DEF Careful, Innocent

\* A file system that is sound, and a directory on disk of which the size is known.
Settled(f) == \E k : Sound(f, k) /\ (f.disk = f.dir => DirectorySaved(f, k))

\* What keeps the file system sound, and the save after it.
LEMMA KeptSettled ==
  ASSUME NEW f, NEW k, Sound(f, k), DirectorySaved(f, k), NEW h, Keeps(f, h, k), Innocent(h)
  PROVE  Settled(h)
<1>1. Sound(h, k) /\ h.disk = f.disk
  BY DEF Keeps, Grows
<1>2. DirectorySaved(h, k)
  BY <1>1 DEF DirectorySaved
<1> QED BY <1>1, <1>2 DEF Settled

\* ... and after the directory has been saved.
LEMMA SaveSettled ==
  ASSUME EofIsNoBlock, NEW f, NEW k, Sound(f, k), NEW h, Keeps(f, h, k), Innocent(saveFat(h))
  PROVE  Settled(saveFat(h))
<1>1. DOMAIN h = Fields
  BY DEF Keeps, Grows
<1>2. Innocent(h)
  BY <1>1, SaveFatAdds DEF Innocent
<1>3. Sound(h, k)
  BY <1>2 DEF Keeps
<1>4. PICK g : g = saveFat(h)
  OBVIOUS
<1>5. PICK m : /\ Sound(g, m) /\ g.dir = h.dir
               /\ m = (IF DirBlocks(Len(h.dir)) > 1 THEN DirBlocks(Len(h.dir)) ELSE 1)
  BY <1>3, <1>4, SaveFatSound
<1> QED BY <1>4, <1>5 DEF Settled, DirectorySaved

\* What is left of it between two commands is intact.
LEMMA SettledIntact ==
  ASSUME "load_unsaved" \notin Situations, NEW h, Settled(h)
  PROVE  /\ Intact(Settle(Unsaved(h)), TRUE)
         /\ Settle(Unsaved(h)).damage = h.damage
<1>1. PICK m : Sound(h, m) /\ (h.disk = h.dir => DirectorySaved(h, m))
  BY DEF Settled
<1>2. DOMAIN h = Fields
  BY <1>1 DEF Sound
<1>3. /\ Tidied(h, Unsaved(h))
      /\ Unsaved(h).disk \in {h.disk, Outdated} \cap {h.dir, Outdated}
  BY <1>2, UnsavedIs
<1>4. /\ Sound(Unsaved(h), m) /\ DirectorySaved(Unsaved(h), m)
      /\ Unsaved(h).disk \in {Unsaved(h).dir, Outdated}
  BY <1>1, <1>3 DEF Sound, DirectorySaved, Tidied
<1>5. Intact(Unsaved(h), TRUE)
  BY <1>4 DEF Intact
<1>6. Tidied(Unsaved(h), Settle(Unsaved(h)))
  BY <1>3, SettleIs DEF Tidied
<1> QED BY <1>3, <1>5, <1>6, SettleIntact DEF Tidied

\* A file system that is intact has the form it should have.
LEMMA IntactTyped ==
  ASSUME NEW f, NEW m, Intact(f, m), f.damage \subseteq Situations
  PROVE  IsFileSystem(f)
<1>1. CASE m
  <2>1. PICK k : Sound(f, k)
    BY <1>1 DEF Intact
  <2>2. PICK n : n = Cardinality(Free(f.blocks) \ {1})
    OBVIOUS
  <2>3. PICK l : l = Lacking(f.dir, k)
    OBVIOUS
  <2>4. l \in Nat
    <3>1. k \in Nat /\ f.dir \in Seq(Entry)
      BY <2>1 DEF Sound, Layout
    <3> QED BY <2>3, <3>1, LackingIs
  <2>5. n \in Nat /\ n <= NumEntries - 2 /\ NumEntries \in Nat
    BY <2>2, FreeFinite, FreeBound, FatAssumption
  <2>6. f.freeBlocks \in Nat /\ f.freeBlocks + l <= n
    BY <2>1, <2>2, <2>3 DEF Sound
  <2>7. f.freeBlocks \in 0..(NumEntries - 2)
    BY <2>4, <2>5, <2>6
  <2> QED BY <2>1, <2>7 DEF Sound, IsFileSystem, Layout, Links, Fields, DataOK, Content
<1>2. CASE ~m
  <2>1. PICK k : Stored(f, k)
    BY <1>2 DEF Intact
  <2>2. <<>> \in Seq(Entry) /\ 0 \in 0..(NumEntries - 2)
    BY EmptySeq, FatAssumption
  <2> QED BY <2>1, <2>2 DEF Stored, IsFileSystem, Layout, Links, Fields, DataOK, Content
<1> QED BY <1>1, <1>2

-----------------------------------------------------------------------------
(***************************************************************************)
(* What this says in the terms of Fat.                                     *)
(***************************************************************************)
\* The blocks of an entry, by either name.
LEMMA OwnedIs == ASSUME NEW f, NEW e PROVE Owned(f, e) = BlocksOf(f.blocks, e)
BY DEF Owned, BlocksOf

\* A layout is made of whole chains, no two of which meet, and of no other blocks.
LEMMA LayoutIsWhole ==
  ASSUME EofIsNoBlock, NEW f, NEW d, NEW k, Layout(f.blocks, d, k)
  PROVE  WholeChains(f, d) /\ DisjointChains(f, d) /\ NothingLost(f, d)
<1>1. \A i \in DOMAIN d : Owned(f, d[i]) = BlocksOf(f.blocks, d[i])
  BY OwnedIs
<1>2. ASSUME NEW i \in DOMAIN d
      PROVE  /\ Owned(f, d[i]) \subseteq Data
             /\ Cardinality(Owned(f, d[i])) = bytesToBlocks(d[i].size)
             /\ Owned(f, d[i]) # {} => \E b \in Owned(f, d[i]) : f.blocks[b] = Eof
  <2>1. FileSound(f.blocks, d[i])
    BY DEF Layout
  <2> QED BY <1>1, <2>1, FileBlocks
<1>3. WholeChains(f, d)
  BY <1>2 DEF WholeChains
<1>4. DisjointChains(f, d)
  BY <1>1 DEF DisjointChains, DirChain, Layout
<1>5. NothingLost(f, d)
  BY <1>1 DEF NothingLost, DirChain, Layout
<1> QED BY <1>3, <1>4, <1>5

\* The count of free blocks of a sound file system is safe.
LEMMA SoundIsSafe ==
  ASSUME EofIsNoBlock, NEW f, NEW k, Sound(f, k)
  PROVE  CountIsSafe(f)
<1>1. k \in Nat /\ Cardinality(DirChain(f)) = k
  <2>1. Layout(f.blocks, f.dir, k)
    BY DEF Sound
  <2>2. k \in Nat
    BY <2>1 DEF Layout
  <2> QED BY <2>1, <2>2, DirectoryBlocks DEF DirChain
<1>2. PICK n \in Nat : n = DirBlocks(Len(f.dir))
  BY <1>1, LackingIs DEF Sound
<1>3. (IF n - k > 0 THEN n - k ELSE 0) = Lacking(f.dir, k)
  BY <1>1, <1>2 DEF Lacking
<1>4. f.freeBlocks + Lacking(f.dir, k) <= Cardinality(Free(f.blocks) \ {1})
  BY DEF Sound
<1> QED BY <1>1, <1>2, <1>3, <1>4 DEF CountIsSafe

-----------------------------------------------------------------------------
(***************************************************************************)
(* Bytes.                                                                  *)
(***************************************************************************)
\* What a cell holds.
Read(data, x) == IF x \in DOMAIN data THEN data[x] ELSE Junk

\* The k-th byte, from 0, in the blocks of path p.
Along(data, p, k) == Read(data, <<p[(k \div BlockSize) + 1], k % BlockSize>>)

\* Path p is the chain of m blocks from block b on.
Lies(t, p, m, b) == IsPath(t, p, m) /\ p[1] = b /\ t[p[m]] = Eof

\* The n bytes of file e are those along path p.
IsRead(f, e, p, n) == Bytes(f, e) = [j \in 1..n |-> Along(f.data, p, j - 1)]

\* The bytes of a file are those along its chain.
LEMMA BytesAlong ==
  ASSUME EofIsNoBlock, NEW f, NEW e, e.size \in Nat \ {0}, NEW p,
         Lies(f.blocks, p, bytesToBlocks(e.size), e.firstBlock)
  PROVE  IsRead(f, e, p, e.size)
<1>1. PICK m \in Nat \ {0} : m = bytesToBlocks(e.size)
  BY BlocksPositive
<1>2. /\ m <= NumEntries - 1
      /\ \A i \in 0..NumEntries :
           Walk(f.blocks, e.firstBlock)[i] = IF i < m THEN p[i + 1] ELSE End
  <2>1. IsPath(f.blocks, p, m) /\ p[1] = e.firstBlock /\ f.blocks[p[m]] \notin Index \ {0}
    BY <1>1 DEF Lies, EofIsNoBlock
  <2> QED BY <2>1, WalkAlong
<1>3. ASSUME NEW j \in 1..e.size
      PROVE  Cells(f, e)[j] = <<p[((j - 1) \div BlockSize) + 1], (j - 1) % BlockSize>>
  <2>1. PICK k \in 0..(e.size - 1) : k = j - 1
    OBVIOUS
  <2>2. PICK q : q = k \div BlockSize
    OBVIOUS
  <2>3. q \in 0..(m - 1)
    BY <1>1, <2>2, BlockOfByte
  <2>4. q \in 0..NumEntries /\ q < m
    BY <1>2, <2>3, FatAssumption
  <2>5. Walk(f.blocks, e.firstBlock)[q] = p[q + 1]
    BY <1>2, <2>4
  <2> QED BY <2>1, <2>2, <2>5 DEF Cells
<1>4. ASSUME NEW j \in 1..e.size
      PROVE  (IF Cells(f, e)[j] \in DOMAIN f.data THEN f.data[Cells(f, e)[j]] ELSE Junk)
               = Along(f.data, p, j - 1)
  BY <1>3 DEF Along, Read
<1> QED BY <1>4 DEF Bytes, IsRead

\* From f to h the links and the bytes of all blocks stay but for those that are
\* free and those in S.
Spares(f, h, S) ==
  \A b \in Index :
    f.blocks[b] # 0 /\ b \notin S =>
      /\ h.blocks[b] = f.blocks[b]
      /\ \A o \in 0..(BlockSize - 1) : Read(h.data, <<b, o>>) = Read(f.data, <<b, o>>)

\* Entry x is of the same size and in the same place as e.
SamePlace(e, x) == x.size = e.size /\ x.firstBlock = e.firstBlock

\* So do the bytes of a file that has none of these.
LEMMA BytesSpared ==
  ASSUME EofIsNoBlock, NEW f, NEW e, FileSound(f.blocks, e), NEW h, NEW S, Spares(f, h, S),
         BlocksOf(f.blocks, e) \cap S = {}, NEW x, SamePlace(e, x)
  PROVE  Bytes(h, x) = Bytes(f, e)
<1>0. e.size \in Nat /\ x.size = e.size /\ x.firstBlock = e.firstBlock
  BY DEF FileSound, SamePlace
<1>1. CASE e.size = 0
  <2>1. 1..e.size = {}
    BY <1>1
  <2> QED BY <1>0, <2>1 DEF Bytes
<1>2. CASE e.size # 0
  <2>1. PICK m \in Nat \ {0} : m = bytesToBlocks(e.size)
    BY <1>0, <1>2, BlocksPositive
  <2>2. PICK p : IsPath(f.blocks, p, m) /\ p[1] = e.firstBlock /\ f.blocks[p[m]] \in {Eof}
    BY <1>2, <2>1 DEF FileSound, IsChain
  <2>3. BlocksOf(f.blocks, e) = Through(p, m)
    <3>1. PICK t, b : t = f.blocks /\ b = e.firstBlock
      OBVIOUS
    <3>2. IsPath(t, p, m) /\ p[1] = b /\ t[p[m]] \notin Index \ {0}
      BY <2>2, <3>1, EofEnds DEF EndLinks
    <3>3. Chain(t, b) = Through(p, m)
      BY <3>2, WalkAlong
    <3> QED BY <1>2, <3>1, <3>3 DEF BlocksOf
  <2>4. ASSUME NEW j \in 1..m
        PROVE  /\ p[j] \in Index /\ h.blocks[p[j]] = f.blocks[p[j]]
               /\ \A o \in 0..(BlockSize - 1) :
                    Read(h.data, <<p[j], o>>) = Read(f.data, <<p[j], o>>)
    <3>1. p[j] \in Index /\ p[j] \in BlocksOf(f.blocks, e)
      BY <2>2, <2>3 DEF IsPath, Through
    <3>2. f.blocks[p[j]] # 0 /\ p[j] \notin S
      BY <3>1, FileBlocks
    <3> QED BY <3>1, <3>2 DEF Spares
  <2>5. Lies(f.blocks, p, m, e.firstBlock)
    BY <2>2 DEF Lies
  <2>6. Lies(h.blocks, p, m, e.firstBlock)
    <3>1. \A j \in 1..(m - 1) : j \in 1..m
      OBVIOUS
    <3>2. m \in 1..m
      OBVIOUS
    <3> QED BY <2>2, <2>4, <3>1, <3>2 DEF Lies, IsPath
  <2>7. Bytes(f, e) = [j \in 1..e.size |-> Along(f.data, p, j - 1)]
    <3>1. e.size \in Nat \ {0} /\ Lies(f.blocks, p, bytesToBlocks(e.size), e.firstBlock)
      BY <1>0, <1>2, <2>1, <2>5
    <3>2. IsRead(f, e, p, e.size)
      BY <3>1, BytesAlong
    <3> QED BY <3>2 DEF IsRead
  <2>8. Bytes(h, x) = [j \in 1..e.size |-> Along(h.data, p, j - 1)]
    <3>1. x.size \in Nat \ {0} /\ Lies(h.blocks, p, bytesToBlocks(x.size), x.firstBlock)
      BY <1>0, <1>2, <2>1, <2>6
    <3>2. IsRead(h, x, p, x.size)
      BY <3>1, BytesAlong
    <3> QED BY <1>0, <3>2 DEF IsRead
  <2>9. ASSUME NEW j \in 1..e.size PROVE Along(h.data, p, j - 1) = Along(f.data, p, j - 1)
    <3>1. PICK k \in 0..(e.size - 1) : k = j - 1
      BY <1>0
    <3>2. PICK q, o : q = k \div BlockSize /\ o = k % BlockSize
      OBVIOUS
    <3>3. q \in 0..(m - 1) /\ o \in 0..(BlockSize - 1)
      BY <1>0, <1>2, <2>1, <3>2, BlockOfByte
    <3>4. q + 1 \in 1..m
      BY <3>3
    <3>5. Read(h.data, <<p[q + 1], o>>) = Read(f.data, <<p[q + 1], o>>)
      BY <2>4, <3>3, <3>4
    <3> QED BY <3>1, <3>2, <3>5 DEF Along
  <2> QED BY <2>7, <2>8, <2>9
<1> QED BY <1>1, <1>2

\* So do those of a file of a sound file system, if none of S is its own.
LEMMA FileSpared ==
  ASSUME EofIsNoBlock, NEW f, NEW k, Sound(f, k), NEW i \in DOMAIN f.dir, NEW h, NEW S,
         Spares(f, h, S), BlocksOf(f.blocks, f.dir[i]) \cap S = {},
         NEW x, SamePlace(f.dir[i], x)
  PROVE  Bytes(h, x) = Bytes(f, f.dir[i])
<1>1. FileSound(f.blocks, f.dir[i])
  BY DEF Sound, Layout
<1> QED BY <1>1, BytesSpared

\* What the cells hold into which bytes have been written, all different ones.
LEMMA WrittenIs ==
  ASSUME NEW bytes \in Seq(Content), NEW cell, DOMAIN cell = DOMAIN bytes,
         \A i, j \in DOMAIN bytes : cell[i] = cell[j] => i = j, NEW data
  PROVE  LET d == Over(Written(cell, bytes), data)
         IN  /\ \A j \in DOMAIN bytes : Read(d, cell[j]) = bytes[j]
             /\ \A x : (\A j \in DOMAIN bytes : cell[j] # x) => Read(d, x) = Read(data, x)
<1> DEFINE w == Written(cell, bytes)
           d == Over(w, data)
<1>1. Len(bytes) \in Nat /\ DOMAIN bytes = 1..Len(bytes)
  BY LenProperties
<1>2. DOMAIN w = Range(cell)
  BY DEF Written
<1>3. ASSUME NEW j \in DOMAIN bytes PROVE w[cell[j]] = bytes[j] /\ cell[j] \in DOMAIN w
  <2>1. cell[j] \in Range(cell)
    BY DEF Range
  <2> DEFINE T == {i \in DOMAIN bytes : cell[i] = cell[j]}
  <2>2. T = {j}
    OBVIOUS
  <2>3. w[cell[j]] = bytes[Max(T)]
    BY <2>1 DEF Written
  <2>4. Max(T) \in T
    <3>1. T \subseteq 1..Len(bytes) /\ T # {}
      BY <1>1
    <3> HIDE DEF T
    <3> QED BY <1>1, <3>1, MaxOfNaturals
  <2> HIDE DEF T, w
  <2> QED BY <1>2, <2>1, <2>2, <2>3, <2>4
<1> HIDE DEF w
<1>4. ASSUME NEW j \in DOMAIN bytes PROVE Read(d, cell[j]) = bytes[j]
  BY <1>3 DEF Read, Over
<1>5. ASSUME NEW x, \A j \in DOMAIN bytes : cell[j] # x PROVE Read(d, x) = Read(data, x)
  <2>1. x \notin DOMAIN w
    BY <1>2, <1>5 DEF Range
  <2> QED BY <2>1 DEF Read, Over
<1> QED BY <1>4, <1>5 DEF w

\* From f to h the bytes have been written along trail s, from offset in block c on.
WrittenAlong(f, h, t, c, offset, bytes, n, s) ==
  /\ IsTrail(t, h.blocks, c, n, s)
  /\ \A k \in 0..(Len(bytes) - 1) : Along(h.data, s, offset + k) = bytes[k + 1]
  /\ \A b, o : b \notin Through(s, n + 1) \/ (b = c /\ o \in 0..(offset - 1))
              => Read(h.data, <<b, o>>) = Read(f.data, <<b, o>>)

\* Quotient and remainder tell numbers apart.
LEMMA DivisionTells ==
  ASSUME NEW i \in Nat, NEW j \in Nat, NEW b \in Nat \ {0}, i \div b = j \div b, i % b = j % b
  PROVE  i = j
<1>1. PICK q \in Nat, r \in 0..(b - 1) : i = b * q + r /\ i \div b = q /\ i % b = r
  BY Division
<1>2. PICK p \in Nat, s \in 0..(b - 1) : j = b * p + s /\ j \div b = p /\ j % b = s
  BY Division
<1> QED BY <1>1, <1>2

\* That is what Write does.
LEMMA WriteTrail ==
  ASSUME EofIsNoBlock, NEW f, DOMAIN f = Fields, NEW t \in Links,
         NEW c \in Index \ {0}, t[c] \in {0, Eof}, NEW offset \in 0..(BlockSize - 1),
         NEW bytes \in Seq(Content), bytes # <<>>, NEW n \in Nat,
         n + 1 = bytesToBlocks(offset + Len(bytes)), n <= Cardinality(Free(t) \ {1, c}),
         NEW w, w = Write(f, t, c, offset, bytes), "no_room_behind" \notin w.damage
  PROVE  \E s : WrittenAlong(f, w, t, c, offset, bytes, n, s)
<1>1. PICK N \in Nat \ {0}, L \in Nat \ {0} :
        /\ L = Len(bytes) /\ N = offset + L /\ DOMAIN bytes = 1..L
        /\ \A j \in 1..L : j \in Nat /\ offset + j - 1 \in 0..(N - 1)
  <2>1. Len(bytes) \in Nat \ {0} /\ DOMAIN bytes = 1..Len(bytes)
    BY EmptySeq, LenProperties
  <2>2. offset \in Nat
    BY FatAssumption
  <2>3. PICK L \in Nat \ {0} : L = Len(bytes)
    BY <2>1
  <2>4. PICK N \in Nat \ {0} : N = offset + L
    BY <2>2
  <2>5. \A j \in 1..L : j \in Nat /\ offset + j - 1 \in 0..(N - 1)
    BY <2>2, <2>4
  <2> QED BY <2>1, <2>3, <2>4, <2>5
<1>2. PICK g : g = Grow(t, c, n)
  OBVIOUS
<1>3. w = WriteAlong(f, g, n, offset, bytes)
  <2>1. bytesToBlocks(offset + Len(bytes)) - 1 = n
    OBVIOUS
  <2> QED BY <1>2, <2>1 DEF Write
<1>4. PICK cell : cell = CellsAlong(g, offset, bytes)
  OBVIOUS
<1>5. /\ w.blocks = Ended(g[n]) /\ g[n].clean
      /\ w.data = Over(Written(cell, bytes), f.data)
  BY <1>3, <1>4, WriteAlongFacts
<1>6. PICK s : IsTrail(t, Ended(g[n]), c, n, s) /\ Visited(g, s, n)
  BY <1>2, <1>5, GrowTrail
<1>7. ASSUME NEW k \in 0..(N - 1)
      PROVE  k \div BlockSize \in 0..n /\ k % BlockSize \in 0..(BlockSize - 1)
  <2>1. k \div BlockSize \in 0..(bytesToBlocks(N) - 1) /\ k % BlockSize \in 0..(BlockSize - 1)
    BY BlockOfByte
  <2>2. bytesToBlocks(N) - 1 = n
    BY <1>1
  <2> QED BY <2>1, <2>2
<1>8. ASSUME NEW j \in 1..L
      PROVE  cell[j] = <<s[((offset + j - 1) \div BlockSize) + 1], (offset + j - 1) % BlockSize>>
  <2>1. PICK k \in 0..(N - 1) : k = offset + j - 1
    BY <1>1
  <2>2. k \div BlockSize \in 0..n
    BY <1>7
  <2>3. g[k \div BlockSize].host = s[(k \div BlockSize) + 1]
    BY <1>6, <2>2 DEF Visited
  <2> QED BY <1>1, <1>4, <2>1, <2>3 DEF CellsAlong
<1>9. ASSUME NEW i \in DOMAIN bytes, NEW j \in DOMAIN bytes, cell[i] = cell[j] PROVE i = j
  <2>1. PICK k \in 0..(N - 1), l \in 0..(N - 1) : k = offset + i - 1 /\ l = offset + j - 1
    BY <1>1
  <2>2. PICK x, y : x = k \div BlockSize /\ y = l \div BlockSize
    OBVIOUS
  <2>3. x \in 0..n /\ y \in 0..n
    BY <1>7, <2>2
  <2>4. s[x + 1] = s[y + 1] /\ k % BlockSize = l % BlockSize
    <3>1. cell[i] = <<s[x + 1], k % BlockSize>>
      BY <1>1, <1>8, <2>1, <2>2
    <3>2. cell[j] = <<s[y + 1], l % BlockSize>>
      BY <1>1, <1>8, <2>1, <2>2
    <3>3. PICK a, d, o, r :
            a = s[x + 1] /\ d = s[y + 1] /\ o = k % BlockSize /\ r = l % BlockSize
      OBVIOUS
    <3>4. <<a, o>> = <<d, r>>
      BY <1>9, <3>1, <3>2, <3>3
    <3>5. a = d /\ o = r
      BY ONLY <3>4
    <3> QED BY <3>3, <3>5
  <2>5. x + 1 \in 1..(n + 1) /\ y + 1 \in 1..(n + 1)
    BY <2>3
  <2>6. x + 1 = y + 1
    BY <1>6, <2>4, <2>5 DEF IsTrail, IsPath
  <2>7. x = y
    BY <2>3, <2>6
  <2>8. k = l
    <3>1. PICK d \in Nat \ {0} : d = BlockSize
      BY FatAssumption
    <3>2. k \in Nat /\ l \in Nat /\ k \div d = l \div d /\ k % d = l % d
      BY <2>2, <2>4, <2>7, <3>1
    <3> QED BY <3>2, DivisionTells
  <2>9. offset \in Int /\ i \in Int /\ j \in Int
    BY <1>1
  <2> QED BY <2>1, <2>8, <2>9
<1>10. /\ \A j \in 1..L : Read(w.data, cell[j]) = bytes[j]
       /\ \A x : (\A j \in 1..L : cell[j] # x) => Read(w.data, x) = Read(f.data, x)
  <2>1. DOMAIN cell = DOMAIN bytes
    BY <1>4 DEF CellsAlong
  <2>2. /\ \A j \in DOMAIN bytes : Read(w.data, cell[j]) = bytes[j]
        /\ \A x : (\A j \in DOMAIN bytes : cell[j] # x) => Read(w.data, x) = Read(f.data, x)
    <3>1. PICK d : d = Over(Written(cell, bytes), f.data)
      OBVIOUS
    <3>2. /\ \A j \in DOMAIN bytes : Read(d, cell[j]) = bytes[j]
          /\ \A x : (\A j \in DOMAIN bytes : cell[j] # x) => Read(d, x) = Read(f.data, x)
      BY ONLY <1>9, <2>1, <3>1, bytes \in Seq(Content), WrittenIs
    <3> QED BY <1>5, <3>1, <3>2
  <2> QED BY <1>1, <2>2
<1>11. ASSUME NEW k \in 0..(Len(bytes) - 1) PROVE Along(w.data, s, offset + k) = bytes[k + 1]
  <2>1. PICK j \in 1..L : j = k + 1 /\ offset + j - 1 = offset + k
    BY <1>1
  <2> QED BY <1>8, <1>10, <2>1 DEF Along
<1>12. ASSUME NEW b, NEW o, b \notin Through(s, n + 1) \/ (b = c /\ o \in 0..(offset - 1))
       PROVE  Read(w.data, <<b, o>>) = Read(f.data, <<b, o>>)
  <2>1. ASSUME NEW j \in 1..L, cell[j] = <<b, o>> PROVE FALSE
    <3>1. PICK k \in 0..(N - 1) : k = offset + j - 1
      BY <1>1
    <3>2. PICK q, r : q = k \div BlockSize /\ r = k % BlockSize
      OBVIOUS
    <3>3. b = s[q + 1] /\ o = r
      BY <1>8, <2>1, <3>1, <3>2
    <3>4. q \in 0..n /\ q + 1 \in 1..(n + 1) /\ 1 \in 1..(n + 1)
      BY <1>7, <3>2
    <3>5. b = c /\ o \in 0..(offset - 1)
      BY <1>12, <3>3, <3>4 DEF Through
    <3>6. q + 1 = 1
      BY <1>6, <3>3, <3>4, <3>5 DEF IsTrail, IsPath
    <3>7. q = 0
      BY <3>4, <3>6
    <3>8. PICK d \in Nat \ {0} : d = BlockSize
      BY FatAssumption
    <3>9. PICK q2 \in Nat, r2 \in 0..(d - 1) :
            k = d * q2 + r2 /\ k \div d = q2 /\ k % d = r2
      <4>1. k \in Nat
        OBVIOUS
      <4> QED BY <4>1, Division
    <3>10. k = r
      BY <3>2, <3>7, <3>8, <3>9
    <3>11. k >= offset
      BY <1>1, <3>1
    <3> QED BY <3>3, <3>5, <3>10, <3>11
  <2> QED BY <1>10, <2>1
<1>13. WrittenAlong(f, w, t, c, offset, bytes, n, s)
  BY <1>5, <1>6, <1>11, <1>12 DEF WrittenAlong
<1> QED BY <1>13

\* Links t are those of f but for the blocks in S, of which block c is one unless
\* it is free.
Prepares(f, t, c, S) ==
  \A b \in Index : f.blocks[b] # 0 /\ b \notin S => t[b] = f.blocks[b] /\ b # c

\* A write to other blocks spares a file.
LEMMA WriteSpares ==
  ASSUME NEW f, NEW t, NEW c, NEW S, Prepares(f, t, c, S),
         NEW h, NEW offset, NEW bytes, NEW n \in Nat, NEW s,
         WrittenAlong(f, h, t, c, offset, bytes, n, s)
  PROVE  Spares(f, h, S)
<1>1. ASSUME NEW b \in Index, f.blocks[b] # 0, b \notin S
      PROVE  /\ h.blocks[b] = f.blocks[b]
             /\ \A o \in 0..(BlockSize - 1) : Read(h.data, <<b, o>>) = Read(f.data, <<b, o>>)
  <2>1. t[b] = f.blocks[b] /\ b # c
    BY <1>1 DEF Prepares
  <2>2. ASSUME NEW j \in 1..(n + 1) PROVE s[j] # b
    <3>1. CASE j = 1
      BY <2>1, <3>1 DEF WrittenAlong, IsTrail
    <3>2. CASE j # 1
      <4>1. j \in 2..(n + 1)
        BY <3>2
      <4> QED BY <1>1, <2>1, <4>1 DEF WrittenAlong, IsTrail, Free
    <3> QED BY <3>1, <3>2
  <2>3. h.blocks[b] = t[b]
    BY <2>2 DEF WrittenAlong, IsTrail
  <2>4. b \notin Through(s, n + 1)
    BY <2>2 DEF Through
  <2> QED BY <2>1, <2>3, <2>4 DEF WrittenAlong
<1> QED BY <1>1 DEF Spares

\* Entry x is that of n bytes in a file that begins with block c.
SizedAt(x, n, c) == x.size = n /\ x.firstBlock = c

\* What has been written to a new file is read from it.
LEMMA TextWritten ==
  ASSUME EofIsNoBlock, NEW f, NEW h, NEW t, NEW c, NEW bytes \in Seq(Content), bytes # <<>>,
         NEW n \in Nat, n + 1 = bytesToBlocks(Len(bytes)), NEW s,
         WrittenAlong(f, h, t, c, 0, bytes, n, s), NEW x, SizedAt(x, Len(bytes), c)
  PROVE  Bytes(h, x) = bytes
<1>1. PICK L \in Nat \ {0} : L = Len(bytes) /\ bytes = [j \in 1..L |-> bytes[j]]
  BY EmptySeq, LenProperties
<1>2. x.size \in Nat \ {0} /\ Lies(h.blocks, s, bytesToBlocks(x.size), x.firstBlock)
  BY <1>1 DEF SizedAt, WrittenAlong, IsTrail, Lies
<1>3. Bytes(h, x) = [j \in 1..L |-> Along(h.data, s, j - 1)]
  <2>1. IsRead(h, x, s, x.size)
    BY <1>2, BytesAlong
  <2> QED BY <1>1, <2>1 DEF SizedAt, IsRead
<1>4. ASSUME NEW j \in 1..L PROVE Along(h.data, s, j - 1) = bytes[j]
  <2>1. PICK k \in 0..(L - 1) : k = j - 1 /\ j = k + 1 /\ 0 + k = k
    OBVIOUS
  <2>2. Along(h.data, s, 0 + k) = bytes[k + 1]
    BY <1>1 DEF WrittenAlong
  <2> QED BY <2>1, <2>2
<1> QED BY <1>1, <1>3, <1>4

\* A number of whole blocks before a byte.
LEMMA ByteBehind ==
  ASSUME NEW k \in Nat, NEW a \in Nat
  PROVE  /\ BlockSize * k \in Nat
         /\ (BlockSize * k + a) \div BlockSize = k + (a \div BlockSize)
         /\ (BlockSize * k + a) % BlockSize = a % BlockSize
         /\ a \div BlockSize \in Nat
<1>1. PICK d \in Nat \ {0} : d = BlockSize
  BY FatAssumption
<1>2. PICK q \in Nat, r \in 0..(d - 1) : a = d * q + r /\ a \div d = q /\ a % d = r
  BY Division
<1>3. d * (k + q) = d * k + d * q /\ d * k \in Nat /\ d * q \in Nat
  BY <1>1, Multiples
<1>4. PICK x, y : x = d * k + a /\ y = k + q
  OBVIOUS
<1>5. x \in Nat /\ y \in Nat /\ x = d * y + r
  BY <1>2, <1>3, <1>4
<1>6. x \div d = y /\ x % d = r
  BY <1>5, DivisionIs
<1> QED BY <1>1, <1>2, <1>3, <1>4, <1>6

\* Of path p only block c, the (k + 1)st, is written to.
OnlyLast(p, m, s, n, c, k) ==
  \A j \in 1..m : p[j] \in Through(s, n + 1) => p[j] = c /\ j = k + 1

\* File e of f lies along path p and fills k blocks and a part of the next.
Fills(f, e, p, m, k, within) ==
  /\ m = bytesToBlocks(e.size) /\ e.size \in Nat \ {0} /\ Lies(f.blocks, p, m, e.firstBlock)
  /\ e.size = BlockSize * k + within

\* With the bytes behind it, it takes n more.
Fits(e, bytes, k, within, n) ==
  /\ bytesToBlocks(e.size + Len(bytes)) = k + (n + 1)
  /\ bytesToBlocks(within + Len(bytes)) <= n + 1

\* Entry x of h is that of file e of f with the bytes behind it, and read so.
Longer(e, x, bytes) == SizedAt(x, e.size + Len(bytes), e.firstBlock)
ReadsOn(f, e, h, x, bytes) == Bytes(h, x) = Bytes(f, e) \o bytes

\* What has been written behind a file is read behind what it held.
LEMMA TextAppended ==
  ASSUME EofIsNoBlock, NEW f, NEW e, NEW p, NEW m, NEW k \in Nat,
         NEW within \in 0..(BlockSize - 1), Fills(f, e, p, m, k, within),
         NEW h, NEW t, NEW c, NEW bytes \in Seq(Content), NEW n \in Nat, NEW s,
         WrittenAlong(f, h, t, c, within, bytes, n, s),
         NEW r, IsContinued(h.blocks, r, p, m, s, n, k), OnlyLast(p, m, s, n, c, k),
         NEW x, Longer(e, x, bytes), Fits(e, bytes, k, within, n)
  PROVE  ReadsOn(f, e, h, x, bytes)
<1>0. /\ m = bytesToBlocks(e.size) /\ e.size \in Nat \ {0}
      /\ Lies(f.blocks, p, m, e.firstBlock) /\ e.size = BlockSize * k + within
      /\ bytesToBlocks(e.size + Len(bytes)) = k + (n + 1)
      /\ bytesToBlocks(within + Len(bytes)) <= n + 1
  BY DEF Fills, Fits
<1>1. PICK L \in Nat : L = Len(bytes) /\ bytes = [j \in 1..L |-> bytes[j]]
  BY LenProperties
<1>2. PICK Z \in Nat \ {0} : Z = e.size
  BY <1>0
<1>3. PICK T \in Nat \ {0} : T = Z + L
  OBVIOUS
<1>4. x.size = T /\ x.firstBlock = e.firstBlock
  BY <1>1, <1>2, <1>3 DEF Longer, SizedAt
<1>5. PICK d \in Nat \ {0} : d = BlockSize
  BY FatAssumption
<1>6. m \in Nat \ {0} /\ within \in Nat
  BY <1>0, <1>2, <1>5, BlocksPositive
<1>7. Lies(h.blocks, r, bytesToBlocks(x.size), x.firstBlock)
  <2>1. n + 1 \in 1..(n + 1) /\ 1 \in 1..m
    BY <1>6
  <2>2. h.blocks[s[n + 1]] = Eof
    BY DEF WrittenAlong, IsTrail
  <2>3. r[1] = e.firstBlock
    BY <1>0, <2>1 DEF IsContinued, Lies
  <2>4. bytesToBlocks(x.size) = k + (n + 1)
    BY <1>0, <1>1, <1>2, <1>3, <1>4
  <2> QED BY <1>4, <2>2, <2>3, <2>4 DEF IsContinued, Lies
<1>8. Bytes(h, x) = [j \in 1..T |-> Along(h.data, r, j - 1)]
  <2>1. x.size \in Nat \ {0}
    BY <1>4
  <2>2. IsRead(h, x, r, x.size)
    BY <1>7, <2>1, BytesAlong
  <2> QED BY <1>4, <2>2 DEF IsRead
<1>9. Bytes(f, e) = [j \in 1..Z |-> Along(f.data, p, j - 1)]
  <2>1. e.size \in Nat \ {0} /\ Lies(f.blocks, p, bytesToBlocks(e.size), e.firstBlock)
    BY <1>0
  <2>2. IsRead(f, e, p, e.size)
    BY <2>1, BytesAlong
  <2> QED BY <1>2, <2>2 DEF IsRead
<1>10. ASSUME NEW i \in 0..(Z - 1) PROVE Along(h.data, r, i) = Along(f.data, p, i)
  <2>1. PICK q, o : q = i \div BlockSize /\ o = i % BlockSize
    OBVIOUS
  <2>2. q \in 0..(m - 1) /\ o \in 0..(BlockSize - 1)
    BY <1>0, <1>2, <2>1, BlockOfByte
  <2>3. q + 1 \in 1..m /\ q \in Nat /\ o \in Nat
    BY <1>5, <1>6, <2>2
  <2>4. r[q + 1] = p[q + 1]
    BY <2>3 DEF IsContinued, Begins
  <2>5. Read(h.data, <<p[q + 1], o>>) = Read(f.data, <<p[q + 1], o>>)
    <3>1. CASE p[q + 1] \notin Through(s, n + 1)
      BY <3>1 DEF WrittenAlong
    <3>2. CASE p[q + 1] \in Through(s, n + 1)
      <4>1. p[q + 1] = c /\ q + 1 = k + 1
        BY <2>3, <3>2 DEF OnlyLast
      <4>2. q = k
        BY <2>3, <4>1
      <4>3. PICK a \in Nat, b \in 0..(d - 1) : i = d * a + b /\ i \div d = a /\ i % d = b
        <5>1. i \in Nat
          OBVIOUS
        <5> QED BY <5>1, Division
      <4>4. i = d * k + o
        BY <1>5, <2>1, <4>2, <4>3
      <4>5. Z = d * k + within /\ d * k \in Nat
        BY <1>0, <1>2, <1>5, Multiples
      <4>6. o < within
        <5>1. PICK y \in Nat : y = d * k
          BY <4>5
        <5> QED BY <1>6, <2>3, <4>4, <4>5, <5>1
      <4>7. o \in 0..(within - 1)
        BY <1>6, <2>3, <4>6
      <4> QED BY <4>1, <4>7 DEF WrittenAlong
    <3> QED BY <3>1, <3>2
  <2> QED BY <2>1, <2>4, <2>5 DEF Along
<1>11. ASSUME NEW i \in 0..(L - 1) PROVE Along(h.data, r, Z + i) = bytes[i + 1]
  <2>1. PICK a \in Nat : a = within + i
    BY <1>6
  <2>2. PICK y : y = BlockSize * k
    OBVIOUS
  <2>3. /\ y \in Nat /\ (y + a) \div BlockSize = k + (a \div BlockSize)
        /\ (y + a) % BlockSize = a % BlockSize /\ a \div BlockSize \in Nat
    BY <2>2, ByteBehind
  <2>4. Z + i = y + a
    BY <1>0, <1>2, <1>6, <2>1, <2>2, <2>3
  <2>5. PICK q \in Nat : q = a \div BlockSize
    BY <2>3
  <2>6. q + 1 \in 1..(n + 1)
    <3>1. PICK N \in Nat \ {0} : N = within + L
      BY <1>6
    <3>2. a \in 0..(N - 1)
      BY <1>6, <2>1, <3>1
    <3>3. q \in 0..(bytesToBlocks(N) - 1)
      BY <2>5, <3>2, BlockOfByte
    <3>4. PICK M \in Nat : M = bytesToBlocks(N)
      BY <3>1, BlocksPositive
    <3>5. M <= n + 1
      BY <1>0, <1>1, <3>1, <3>4
    <3> QED BY <3>3, <3>4, <3>5
  <2>7. r[k + (q + 1)] = s[q + 1] /\ (k + q) + 1 = k + (q + 1)
    BY <2>6 DEF IsContinued
  <2>8. Along(h.data, r, y + a) = Along(h.data, s, a)
    BY <2>3, <2>5, <2>7 DEF Along
  <2>9. Along(h.data, s, within + i) = bytes[i + 1]
    BY <1>1 DEF WrittenAlong
  <2> QED BY <2>1, <2>4, <2>8, <2>9
<1>12. PICK B, C : B = Bytes(f, e) /\ C = Bytes(h, x)
  OBVIOUS
<1>13. Len(B) = Z /\ B \in Seq(Range(B)) /\ \A j \in 1..Z : B[j] = Along(f.data, p, j - 1)
  <2>1. B = [j \in 1..Z |-> Along(f.data, p, j - 1)]
    BY <1>9, <1>12
  <2>2. DOMAIN B = 1..Z
    BY <2>1
  <2>3. B \in Seq(Range(B)) /\ Len(B) = Z
    <3>1. B = [j \in 1..Z |-> B[j]]
      BY <2>1
    <3> QED BY <3>1, SequenceOfItself
  <2> QED BY <2>1, <2>3
<1>14. B \o bytes = [j \in 1..T |-> IF j <= Z THEN B[j] ELSE bytes[j - Z]]
  <2>1. PICK S : S = Range(B) \cup Content
    OBVIOUS
  <2>2. B \in Seq(S) /\ bytes \in Seq(S)
    BY <1>13, <2>1, SeqMonotonic
  <2>3. /\ B \o bytes \in Seq(S) /\ Len(B \o bytes) = T
        /\ \A j \in 1..T : (B \o bytes)[j] = IF j <= Z THEN B[j] ELSE bytes[j - Z]
    <3>1. /\ B \o bytes \in Seq(S) /\ Len(B \o bytes) = Len(B) + Len(bytes)
          /\ \A j \in 1..(Len(B) + Len(bytes)) :
               (B \o bytes)[j] = IF j <= Len(B) THEN B[j] ELSE bytes[j - Len(B)]
      BY ONLY <2>2, ConcatProperties
    <3>2. Len(B) = Z /\ Len(B) + Len(bytes) = T
      BY <1>1, <1>3, <1>13
    <3> QED BY <3>1, <3>2
  <2> QED BY <2>3, LenProperties
<1>15. ASSUME NEW j \in 1..T
       PROVE  Along(h.data, r, j - 1) = IF j <= Z THEN B[j] ELSE bytes[j - Z]
  <2>1. CASE j <= Z
    <3>1. j - 1 \in 0..(Z - 1) /\ j \in 1..Z
      BY <2>1
    <3> QED BY <1>10, <1>13, <2>1, <3>1
  <2>2. CASE ~(j <= Z)
    <3>1. PICK i \in 0..(L - 1) : i = (j - 1) - Z /\ Z + i = j - 1 /\ i + 1 = j - Z
      BY <1>3, <2>2
    <3> QED BY <1>11, <2>2, <3>1
  <2> QED BY <2>1, <2>2
<1> QED BY <1>8, <1>12, <1>14, <1>15 DEF ReadsOn

\* Where a new file has been written.
LEMMA FreshTrail ==
  ASSUME EofIsNoBlock, NEW f, DOMAIN f = Fields, NEW t \in Links,
         NEW bytes \in Seq(Content), bytes # <<>>, NEW c, c = FirstFree(t, 1, 1),
         bytesToBlocks(Len(bytes)) <= Cardinality(Free(t) \ {1}),
         NEW w, w = Write(f, t, c, 0, bytes), Innocent(w)
  PROVE  /\ c \in Free(t) \ {1}
         /\ \E n \in Nat : /\ n + 1 = bytesToBlocks(Len(bytes))
                           /\ \E s : WrittenAlong(f, w, t, c, 0, bytes, n, s)
<1>1. Free(t) \subseteq Index \ {0} /\ 1 \in Index \ {0}
  BY FatAssumption DEF Free, Index
<1>2. c \in Index \ {0} /\ (c # 1 => c \in Free(t))
  BY <1>1, FoundFree
<1>3. 0 \in 0..(BlockSize - 1) /\ 0 + Len(bytes) = Len(bytes)
  BY FatAssumption, LenProperties
<1>4. Outcome(f, w, t, c, bytesToBlocks(0 + Len(bytes)) - 1)
  BY <1>2, <1>3, WriteFacts
<1>5. "no_room_behind" \notin w.damage /\ "block_1_taken" \notin w.damage
  BY DEF Innocent, Forbidden
<1>6. c \in Free(t) \ {1}
  BY <1>2, <1>4, <1>5 DEF Outcome
<1>7. PICK m \in Nat \ {0} : m = bytesToBlocks(Len(bytes))
  <2>1. Len(bytes) \in Nat \ {0}
    BY EmptySeq, LenProperties
  <2> QED BY <2>1, BlocksPositive
<1>8. PICK n \in Nat : n + 1 = m
  <2>1. m - 1 \in Nat /\ (m - 1) + 1 = m
    OBVIOUS
  <2> QED BY <2>1
<1>9. t[c] \in {0, Eof} /\ n <= Cardinality(Free(t) \ {1, c})
  <2>1. t[c] = 0
    BY <1>6 DEF Free
  <2>2. Cardinality(Free(t) \ {1, c}) = Cardinality(Free(t) \ {1}) - 1
    BY <1>6, OneTaken
  <2>3. Cardinality(Free(t) \ {1}) \in Nat
    BY FreeFinite
  <2> QED BY <1>7, <1>8, <2>1, <2>2, <2>3
<1>10. n + 1 = bytesToBlocks(0 + Len(bytes))
  BY <1>3, <1>7, <1>8
<1>11. \E s : WrittenAlong(f, w, t, c, 0, bytes, n, s)
  BY <1>2, <1>3, <1>5, <1>9, <1>10, WriteTrail
<1> QED BY <1>3, <1>6, <1>10, <1>11

\* How a size fills the blocks it calls for.
LEMMA LastBlock ==
  ASSUME NEW size \in Nat \ {0}, NEW m, m = bytesToBlocks(size)
  PROVE  /\ m \in Nat \ {0}
         /\ size % BlockSize = 0 => size = BlockSize * m + 0
         /\ size % BlockSize # 0 => size = BlockSize * (m - 1) + (size % BlockSize)
<1>1. PICK d \in Nat \ {0} : d = BlockSize
  BY FatAssumption
<1>2. PICK q \in Nat \ {0}, x \in Nat : q = m /\ x = d * q /\ x - d < size /\ size <= x
  BY <1>1, Ceiling
<1>3. PICK p \in Nat : p = q - 1 /\ p + 1 = q
  <2>1. q - 1 \in Nat /\ (q - 1) + 1 = q
    OBVIOUS
  <2> QED BY <2>1
<1>4. PICK y \in Nat : y = d * p
  BY <1>1, Multiples
<1>5. x = y + d
  BY <1>1, <1>2, <1>3, <1>4, Multiples
<1>6. CASE size = x
  <2>1. size % d = 0
    <3>1. 0 \in 0..(d - 1) /\ size = d * q + 0
      BY <1>2, <1>6
    <3> QED BY <3>1, DivisionIs
  <2>2. size = d * m + 0
    BY <1>2, <1>6
  <2> QED BY <1>1, <1>2, <2>1, <2>2
<1>7. CASE size # x
  <2>1. PICK r \in 0..(d - 1) : r = size - y /\ r # 0
    <3>1. size - y \in 0..(d - 1) /\ size - y # 0
      BY <1>2, <1>5, <1>7
    <3> QED BY <3>1
  <2>2. size = y + r
    BY <2>1
  <2>3. size % d = r
    BY <1>4, <2>2, DivisionIs
  <2>4. m - 1 = p
    BY <1>2, <1>3
  <2> QED BY <1>1, <1>2, <1>4, <2>1, <2>2, <2>3, <2>4
<1> QED BY <1>6, <1>7

\* In w the bytes have been written behind file e of f, and to no other.
Continues(f, w, e, bytes) ==
  /\ Spares(f, w, BlocksOf(f.blocks, e))
  /\ \A x : Longer(e, x, bytes) => ReadsOn(f, e, w, x, bytes)

\* The last block has room.
LEMMA TextExtended ==
  ASSUME EofIsNoBlock, NEW f, DOMAIN f = Fields, NEW e, e.size \in Nat \ {0},
         e.size % BlockSize # 0, NEW m, m = bytesToBlocks(e.size), NEW last,
         IsFile(f.blocks, e.firstBlock, m, last), NEW bytes \in Seq(Content), bytes # <<>>,
         NEW within \in 0..(BlockSize - 1), within = e.size % BlockSize, NEW n \in Nat,
         bytesToBlocks(within + Len(bytes)) = n + 1,
         bytesToBlocks(e.size + Len(bytes)) = m + n,
         n <= Cardinality(Free(f.blocks) \ {1}),
         NEW w, w = Write(f, f.blocks, last, within, bytes), Innocent(w)
  PROVE  Continues(f, w, e, bytes)
<1>1. PICK t, b : t = f.blocks /\ b = e.firstBlock
  OBVIOUS
<1>2. /\ t \in Links /\ m \in Nat \ {0} /\ IsChain(t, b, m, {Eof})
      /\ Chain(t, b) \subseteq Data /\ last \in Chain(t, b) /\ t[last] = Eof
  BY <1>1 DEF IsFile
<1>3. last \in Index \ {0} /\ last # 1
  <2>1. Data \subseteq Index \ {0, 1}
    BY FatAssumption DEF Data, Index
  <2> QED BY <1>2, <2>1
<1>4. Free(t) \ {1, last} = Free(t) \ {1}
  BY <1>2, EofEnds DEF Free
<1>5. PICK s : WrittenAlong(f, w, t, last, within, bytes, n, s)
  <2>1. "no_room_behind" \notin w.damage
    BY DEF Innocent, Forbidden
  <2>2. /\ t[last] \in {0, Eof} /\ n <= Cardinality(Free(t) \ {1, last})
        /\ n + 1 = bytesToBlocks(within + Len(bytes)) /\ w = Write(f, t, last, within, bytes)
    BY <1>1, <1>2, <1>4
  <2> QED BY <1>2, <1>3, <2>1, <2>2, WriteTrail
<1>6. PICK p : IsWay(t, p, m, b, last)
  BY <1>2, LastOfChain
<1>7. PICK r : IsContinued(w.blocks, r, p, m, s, n, m - 1)
  <2>1. IsTrail(t, w.blocks, last, n, s)
    BY <1>5 DEF WrittenAlong
  <2> QED BY <1>2, <1>6, <2>1, WayExtended
<1>8. Lies(t, p, m, b)
  BY <1>2, <1>6 DEF IsWay, Lies
<1>9. OnlyLast(p, m, s, n, last, m - 1)
  <2>1. ASSUME NEW j \in 1..m, p[j] \in Through(s, n + 1)
        PROVE  p[j] = last /\ j = (m - 1) + 1
    <3>1. PICK i \in 1..(n + 1) : s[i] = p[j]
      BY <2>1 DEF Through
    <3>2. i = 1
      <4>1. i \in 2..(n + 1) => t[s[i]] = 0
        BY <1>5 DEF WrittenAlong, IsTrail, Free
      <4>2. t[p[j]] # 0
        BY <1>6 DEF IsWay
      <4>3. i \notin 2..(n + 1)
        BY <3>1, <4>1, <4>2
      <4> QED BY <4>3
    <3>3. p[j] = last
      BY <1>5, <3>1, <3>2 DEF WrittenAlong, IsTrail
    <3>4. m \in 1..m /\ (m - 1) + 1 = m
      BY <1>2
    <3>5. j = m
      BY <1>6, <3>3, <3>4 DEF IsWay, IsPath
    <3> QED BY <3>3, <3>4, <3>5
  <2> QED BY <2>1 DEF OnlyLast
<1>10. PICK k \in Nat : k = m - 1 /\ k + (n + 1) = m + n
  <2>1. m - 1 \in Nat /\ (m - 1) + (n + 1) = m + n
    BY <1>2
  <2> QED BY <2>1
<1>11. e.size = BlockSize * k + within
  BY <1>10, LastBlock
<1>12. ASSUME NEW x, Longer(e, x, bytes)
       PROVE  ReadsOn(f, e, w, x, bytes)
  <2>1. IsContinued(w.blocks, r, p, m, s, n, k) /\ OnlyLast(p, m, s, n, last, k)
    BY <1>7, <1>9, <1>10
  <2>2. Fills(f, e, p, m, k, within)
    BY <1>1, <1>8, <1>11 DEF Fills
  <2>3. Fits(e, bytes, k, within, n)
    <3>1. bytesToBlocks(within + Len(bytes)) <= n + 1
      OBVIOUS
    <3> QED BY <1>10, <3>1 DEF Fits
  <2> QED BY ONLY EofIsNoBlock, <1>5, <1>12, <2>1, <2>2, <2>3,
             within \in 0..(BlockSize - 1), bytes \in Seq(Content),
             n \in Nat, k \in Nat, TextAppended
<1>13. Spares(f, w, BlocksOf(f.blocks, e))
  <2>1. PICK S : S = BlocksOf(f.blocks, e)
    OBVIOUS
  <2>2. last \in S
    BY <1>1, <1>2, <2>1 DEF BlocksOf
  <2>3. Prepares(f, t, last, S)
    BY <1>1, <2>2 DEF Prepares
  <2> QED BY <1>5, <2>1, <2>3, WriteSpares
<1> QED BY <1>12, <1>13 DEF Continues

\* The last block is full.
LEMMA TextLengthened ==
  ASSUME EofIsNoBlock, NEW f, DOMAIN f = Fields, NEW e, e.size \in Nat \ {0},
         e.size % BlockSize = 0, NEW m, m = bytesToBlocks(e.size), NEW last,
         IsFile(f.blocks, e.firstBlock, m, last), NEW bytes \in Seq(Content), bytes # <<>>,
         bytesToBlocks(e.size + Len(bytes)) = m + bytesToBlocks(Len(bytes)),
         bytesToBlocks(Len(bytes)) <= Cardinality(Free(f.blocks) \ {1}),
         NEW c, c = FirstFree(f.blocks, 1, 0),
         NEW w, w = Write(f, [f.blocks EXCEPT ![last] = c], c, 0, bytes), Innocent(w)
  PROVE  Continues(f, w, e, bytes)
<1>1. PICK t, b : t = f.blocks /\ b = e.firstBlock
  OBVIOUS
<1>2. /\ t \in Links /\ m \in Nat \ {0} /\ IsChain(t, b, m, {Eof})
      /\ Chain(t, b) \subseteq Data /\ last \in Chain(t, b) /\ t[last] = Eof
  BY <1>1 DEF IsFile
<1>3. /\ last \in Index \ {0} /\ last # 1 /\ Free(t) \subseteq Index \ {0}
  BY <1>2, FatAssumption DEF Data, Index, Free
<1>4. PICK n \in Nat : n + 1 = bytesToBlocks(Len(bytes))
  <2>1. Len(bytes) \in Nat \ {0}
    BY EmptySeq, LenProperties
  <2>2. PICK q \in Nat \ {0} : q = bytesToBlocks(Len(bytes))
    BY <2>1, BlocksPositive
  <2>3. q - 1 \in Nat /\ (q - 1) + 1 = q
    OBVIOUS
  <2> QED BY <2>2, <2>3
<1>5. c \in Free(t)
  <2>1. PICK N \in Nat : N = Cardinality(Free(t) \ {1}) /\ n + 1 <= N
    BY <1>1, <1>4, FreeFinite
  <2>2. Free(t) \ {1} # {}
    <3>1. Free(t) \ {1} = {} => N = 0
      BY <2>1, FS_EmptySet
    <3> QED BY <2>1, <3>1
  <2> QED BY <1>1, <2>2, FoundFree
<1>6. PICK v : v = [t EXCEPT ![last] = c]
  OBVIOUS
<1>7. /\ v \in Links /\ v[last] = c /\ v[c] = 0 /\ c # last /\ LinkedTo(t, v, last, c)
  <2>1. c # last /\ t[c] = 0
    BY <1>2, <1>5, EofEnds DEF Free
  <2>2. c # Header
    BY <1>3, <1>5, FatAssumption
  <2> QED BY <1>2, <1>3, <1>5, <1>6, <2>1, <2>2 DEF Links, LinkedTo
<1>8. w = Write(f, v, c, 0, bytes) /\ 0 \in 0..(BlockSize - 1) /\ 0 + Len(bytes) = Len(bytes)
  BY <1>1, <1>6, FatAssumption, LenProperties
<1>9. "no_room_behind" \notin w.damage /\ "block_1_taken" \notin w.damage
  BY DEF Innocent, Forbidden
<1>10. c \in Free(t) \ {1}
  <2>1. c \in Index \ {0}
    BY <1>3, <1>5
  <2>2. Outcome(f, w, v, c, bytesToBlocks(0 + Len(bytes)) - 1)
    BY <1>7, <1>8, <2>1, WriteFacts
  <2> QED BY <1>5, <1>9, <2>2 DEF Outcome
<1>11. Free(v) = Free(t)
  <2>1. \A x \in Index \ {last} : v[x] = t[x]
    BY <1>7 DEF LinkedTo
  <2>2. t[last] # 0 /\ c # 0
    BY <1>2, <1>3, <1>5, EofEnds
  <2> QED BY <1>7, <2>1, <2>2 DEF Free
<1>12. n <= Cardinality(Free(v) \ {1, c})
  <2>1. Cardinality(Free(t) \ {1, c}) = Cardinality(Free(t) \ {1}) - 1
    BY <1>10, OneTaken
  <2>2. Cardinality(Free(t) \ {1}) \in Nat
    BY FreeFinite
  <2> QED BY <1>1, <1>4, <1>11, <2>1, <2>2
<1>13. PICK s : WrittenAlong(f, w, v, c, 0, bytes, n, s)
  <2>1. c \in Index \ {0} /\ v[c] \in {0, Eof} /\ n + 1 = bytesToBlocks(0 + Len(bytes))
    BY <1>3, <1>4, <1>5, <1>7, <1>8
  <2> QED BY <1>7, <1>8, <1>9, <1>12, <2>1, WriteTrail
<1>14. PICK p : IsWay(t, p, m, b, last)
  BY <1>2, LastOfChain
<1>15. WereFree(t, s, n) /\ \E r : IsContinued(w.blocks, r, p, m, s, n, m)
  <2>1. IsTrail(v, w.blocks, c, n, s)
    BY <1>13 DEF WrittenAlong
  <2> QED BY <1>2, <1>7, <1>10, <1>14, <2>1, WayLengthened
<1>16. PICK r : IsContinued(w.blocks, r, p, m, s, n, m)
  BY <1>15
<1>17. Lies(t, p, m, b)
  BY <1>2, <1>14 DEF IsWay, Lies
<1>18. OnlyLast(p, m, s, n, c, m)
  <2>1. ASSUME NEW j \in 1..m, p[j] \in Through(s, n + 1) PROVE FALSE
    <3>1. PICK i \in 1..(n + 1) : s[i] = p[j]
      BY <2>1 DEF Through
    <3>2. t[s[i]] = 0
      BY <1>15 DEF WereFree, Free
    <3> QED BY <1>14, <3>1, <3>2 DEF IsWay
  <2> QED BY <2>1 DEF OnlyLast
<1>19. e.size = BlockSize * m + 0
  BY LastBlock
<1>20. ASSUME NEW x, Longer(e, x, bytes)
       PROVE  ReadsOn(f, e, w, x, bytes)
  <2>1. Fills(f, e, p, m, m, 0)
    BY <1>1, <1>17, <1>19 DEF Fills
  <2>2. Fits(e, bytes, m, 0, n)
    <3>1. bytesToBlocks(e.size + Len(bytes)) = m + (n + 1)
      BY <1>4
    <3>2. bytesToBlocks(0 + Len(bytes)) <= n + 1
      BY <1>4, <1>8
    <3> QED BY <3>1, <3>2 DEF Fits
  <2>3. m \in Nat /\ 0 \in 0..(BlockSize - 1)
    BY <1>2, <1>8
  <2> QED BY ONLY EofIsNoBlock, <1>13, <1>16, <1>18, <1>20, <2>1, <2>2, <2>3,
             bytes \in Seq(Content), n \in Nat, TextAppended
<1>21. Spares(f, w, BlocksOf(f.blocks, e))
  <2>1. PICK S : S = BlocksOf(f.blocks, e)
    OBVIOUS
  <2>2. last \in S
    BY <1>1, <1>2, <2>1 DEF BlocksOf
  <2>3. ASSUME NEW x \in Index, f.blocks[x] # 0, x \notin S
        PROVE  v[x] = f.blocks[x] /\ x # c
    <3>1. x # last /\ t[c] = 0
      BY <1>10, <2>2, <2>3 DEF Free
    <3> QED BY <1>1, <1>7, <2>3, <3>1 DEF LinkedTo
  <2>4. Prepares(f, v, c, S)
    BY <2>3 DEF Prepares
  <2> QED BY <1>13, <2>1, <2>4, WriteSpares
<1> QED BY <1>20, <1>21 DEF Continues

-----------------------------------------------------------------------------
(***************************************************************************)
(* What the functions make of the bytes.                                   *)
(***************************************************************************)
\* Of the files of f only file i is another in h: it has the bytes.
Rewrites(f, h, i, bytes) ==
  /\ i \in DOMAIN f.dir /\ Spares(f, h, BlocksOf(f.blocks, f.dir[i]))
  /\ \E e \in Entry : /\ h.dir = [f.dir EXCEPT ![i] = e]
                      /\ e.name = f.dir[i].name /\ e.perm = f.dir[i].perm
                      /\ Bytes(h, e) = bytes

\* A file without bytes.
LEMMA NoBytes ==
  ASSUME NEW f, NEW e, e.size = 0
  PROVE  Bytes(f, e) = <<>>
<1>1. 1..e.size = {}
  OBVIOUS
<1>2. Bytes(f, e) = [j \in {} |-> Junk]
  BY <1>1 DEF Bytes
<1> QED BY <1>2

\* A file system the bytes of which are as they were.
LEMMA NothingTouched ==
  ASSUME NEW f, NEW h, NEW S, h.data = f.data,
         \A b \in Index : f.blocks[b] # 0 /\ b \notin S => h.blocks[b] = f.blocks[b]
  PROVE  Spares(f, h, S)
BY DEF Spares

\* Links t without those in S.
LEMMA ClearedPrepares ==
  ASSUME NEW f, NEW S, NEW t, t = Cleared(f.blocks, S), NEW c \in Free(t)
  PROVE  Prepares(f, t, c, S)
BY DEF Prepares, Cleared, Free

\* Written from its beginning.
LEMMA OverwriteRewrites ==
  ASSUME EofIsNoBlock, NEW f, NEW k, Sound(f, k), NEW i \in DOMAIN f.dir,
         NEW bytes \in Seq(Content), Overwrite(f, i, bytes).ok,
         Innocent(Overwrite(f, i, bytes).fs)
  PROVE  Rewrites(f, Overwrite(f, i, bytes).fs, i, bytes)
<1> DEFINE t == Released(f, i)
           c == FirstFree(t, 1, 1)
           first == IF bytes = <<>> THEN 0 ELSE c
           w == Write(f, t, c, 0, bytes)
           h == WriteAnew(f, i, bytes, t, c)
           e == Resized(f.dir[i], Len(bytes), first)
           S == BlocksOf(f.blocks, f.dir[i])
<1>0. DOMAIN f = Fields
  BY DEF Sound
<1>1. ~(f.freeBlocks + Change(f, i, Len(bytes)) < 0) /\ Overwrite(f, i, bytes).fs = h
  BY DEF Overwrite, Done, Failed
<1>2. Beside(f, w)
  BY <1>0, WriteBeside
<1>3. h = [w EXCEPT !.dir[i].size = Len(bytes), !.dir[i].firstBlock = first,
                    !.freeBlocks = @ + Change(f, i, Len(bytes))]
  BY DEF WriteAnew
<1> HIDE DEF t, c, w, h, S
<1>4. /\ DOMAIN h = Fields /\ h.damage = w.damage /\ h.data = w.data /\ h.blocks = w.blocks
      /\ i \in DOMAIN w.dir =>
           h.dir = [w.dir EXCEPT ![i] = Resized(w.dir[i], Len(bytes), first)]
  <2> HIDE DEF first
  <2>1. DOMAIN w = Fields
    BY <1>2 DEF Beside
  <2> QED BY <1>3, <2>1 DEF Fields, Resized
<1>5. /\ DataOK(f.data) /\ f.dir \in Seq(Entry) /\ Layout(f.blocks, f.dir, k)
      /\ f.freeBlocks \in Nat
      /\ f.freeBlocks + Lacking(f.dir, k) <= Cardinality(Free(f.blocks) \ {1})
  BY DEF Sound
<1>6. f.dir[i] \in Entry /\ f.dir[i].size \in Nat /\ Len(bytes) \in Nat
  BY <1>5, Places, LenProperties
<1>7. PICK m, q : m = bytesToBlocks(f.dir[i].size) /\ q = bytesToBlocks(Len(bytes))
  OBVIOUS
<1>8. m \in Nat /\ q \in Nat
  BY <1>6, <1>7, BlocksPositive
<1>9. f.blocks \in Links /\ k \in Nat
  BY <1>5 DEF Layout
<1>10. t = Cleared(f.blocks, S)
  BY <1>9, ReleasedIs DEF t, S
<1>11. t \in Links /\ Cardinality(Free(t) \ {1}) = Cardinality(Free(f.blocks) \ {1}) + m
  <2>1. IsReleased(f.blocks, t, f.dir, i, k)
    BY <1>5, <1>10, FileReleased DEF S
  <2> QED BY <1>7, <2>1 DEF IsReleased, Layout
<1>12. Lacking(f.dir, k) \in Nat /\ Cardinality(Free(f.blocks) \ {1}) \in Nat
  BY <1>5, <1>9, LackingIs, FreeFinite
<1>13. f.freeBlocks + (m - q) >= 0
  BY <1>1, <1>5, <1>7, <1>8 DEF Change
<1>14. q <= Cardinality(Free(t) \ {1})
  BY <1>5, <1>8, <1>11, <1>12, <1>13
<1>15. Innocent(w)
  BY <1>1, <1>4 DEF Innocent
<1>16. /\ first \in Index
       /\ Spares(f, h, S)
       /\ \A x : SizedAt(x, Len(bytes), first) => Bytes(h, x) = bytes
  <2>1. CASE bytes = <<>>
    <3>1. Len(bytes) = 0 /\ first \in Index
      BY <2>1, FatAssumption DEF Index
    <3>2. h.data = f.data /\ h.blocks = t
      BY <1>0, <1>4, <2>1, NothingWritten DEF w
    <3>3. \A b \in Index : f.blocks[b] # 0 /\ b \notin S => h.blocks[b] = f.blocks[b]
      BY <1>10, <3>2 DEF Cleared
    <3>4. Spares(f, h, S)
      BY <3>2, <3>3, NothingTouched
    <3>5. ASSUME NEW x, SizedAt(x, Len(bytes), first) PROVE Bytes(h, x) = bytes
      <4>1. x.size = 0
        BY <3>1, <3>5 DEF SizedAt
      <4> QED BY <2>1, <4>1, NoBytes
    <3> QED BY <3>1, <3>4, <3>5
  <2>2. CASE bytes # <<>>
    <3>1. /\ c \in Free(t) \ {1}
          /\ \E n \in Nat : /\ n + 1 = bytesToBlocks(Len(bytes))
                            /\ \E s : WrittenAlong(f, w, t, c, 0, bytes, n, s)
      BY <1>0, <1>7, <1>11, <1>14, <1>15, <2>2, FreshTrail DEF c, w
    <3>2. PICK n \in Nat : /\ n + 1 = bytesToBlocks(Len(bytes))
                           /\ \E s : WrittenAlong(f, w, t, c, 0, bytes, n, s)
      BY <3>1
    <3>3. PICK s : WrittenAlong(f, w, t, c, 0, bytes, n, s)
      BY <3>2
    <3>4. WrittenAlong(f, h, t, c, 0, bytes, n, s)
      BY <1>4, <3>3 DEF WrittenAlong
    <3>5. Spares(f, h, S)
      <4>1. Prepares(f, t, c, S)
        BY <1>10, <3>1, ClearedPrepares
      <4> QED BY <3>4, <4>1, WriteSpares
    <3>6. first = c /\ c \in Index
      BY <2>2, <3>1 DEF Free
    <3> HIDE DEF first
    <3>7. ASSUME NEW x, SizedAt(x, Len(bytes), first) PROVE Bytes(h, x) = bytes
      BY <2>2, <3>2, <3>4, <3>6, <3>7, TextWritten
    <3> QED BY <3>5, <3>6, <3>7
  <2> QED BY <2>1, <2>2
<1> HIDE DEF first
<1>17. e \in Entry /\ e.size = Len(bytes) /\ e.firstBlock = first
  BY <1>6, <1>16, ResizedIs
<1>18. e.name = f.dir[i].name /\ e.perm = f.dir[i].perm
  BY <1>6 DEF Resized, Entry
<1> HIDE DEF e
<1>19. h.dir = [f.dir EXCEPT ![i] = e]
  BY <1>2, <1>4 DEF Beside, e
<1>20. Bytes(h, e) = bytes
  BY <1>16, <1>17 DEF SizedAt
<1>21. Rewrites(f, h, i, bytes)
  BY <1>16, <1>17, <1>18, <1>19, <1>20 DEF Rewrites, S
<1> QED BY <1>1, <1>21

\* Written behind its end.
LEMMA WriteOnRewrites ==
  ASSUME EofIsNoBlock, NEW f, NEW k, Sound(f, k), NEW i \in DOMAIN f.dir,
         NEW bytes \in Seq(Content), NEW last,
         Lacks(f.dir[i].size, Len(bytes)) <= f.freeBlocks,
         f.dir[i].size # 0 => last \in Chain(f.blocks, f.dir[i].firstBlock) /\ f.blocks[last] = Eof,
         Innocent(WriteOn(f, i, bytes, last))
  PROVE  Rewrites(f, WriteOn(f, i, bytes, last), i, Bytes(f, f.dir[i]) \o bytes)
<1> DEFINE size == f.dir[i].size
           full == size > 0 /\ size % BlockSize = 0
           c == IF size = 0 THEN FirstFree(f.blocks, 1, 1)
                ELSE IF full THEN FirstFree(f.blocks, 1, 0) ELSE last
           t == IF full THEN [f.blocks EXCEPT ![last] = c] ELSE f.blocks
           w == Write(f, t, c, size % BlockSize, bytes)
           h == WriteOn(f, i, bytes, last)
           e == Grown(f.dir[i], Len(bytes))
           lacks == Lacks(size, Len(bytes))
           flags == Flag("append_to_empty", size = 0 /\ bytes # <<>>)
                      \cup Flag("touch_full_block", full /\ bytes = <<>>)
<1>0. DOMAIN f = Fields
  BY DEF Sound
<1>1. h = [w EXCEPT !.dir[i].size = @ + Len(bytes), !.freeBlocks = @ - lacks,
                    !.damage = (@ \cup Flag("append_to_empty", size = 0 /\ bytes # <<>>))
                                  \cup Flag("touch_full_block", full /\ bytes = <<>>)]
  BY DEF WriteOn
<1>2. Beside(f, w)
  BY <1>0, WriteBeside
<1> HIDE DEF c, t, w
<1>3. /\ DOMAIN h = Fields /\ h.damage = w.damage \cup flags
      /\ h.data = w.data /\ h.blocks = w.blocks
      /\ i \in DOMAIN w.dir => h.dir = [w.dir EXCEPT ![i] = Grown(w.dir[i], Len(bytes))]
  <2> HIDE DEF lacks, full, size, h
  <2>1. DOMAIN w = Fields
    BY <1>2 DEF Beside
  <2> QED BY <1>1, <2>1 DEF Fields, Grown
<1>4. Innocent(h) /\ h = WriteOn(f, i, bytes, last)
  OBVIOUS
<1> HIDE DEF h
<1>5. /\ DataOK(f.data) /\ f.dir \in Seq(Entry) /\ Layout(f.blocks, f.dir, k)
      /\ f.freeBlocks \in Nat
      /\ f.freeBlocks + Lacking(f.dir, k) <= Cardinality(Free(f.blocks) \ {1})
  BY DEF Sound
<1>6. f.dir[i] \in Entry /\ size \in Nat /\ Len(bytes) \in Nat
  BY <1>5, Places, LenProperties
<1>7. e \in Entry /\ e.size = size + Len(bytes) /\ e.firstBlock = f.dir[i].firstBlock
  BY <1>6, GrownIs
<1>8. e.name = f.dir[i].name /\ e.perm = f.dir[i].perm
  BY <1>6 DEF Grown, Entry
<1> HIDE DEF e
<1>9. h.dir = [f.dir EXCEPT ![i] = e]
  BY <1>2, <1>3 DEF Beside, e
<1>10. /\ size = 0 => bytes = <<>>
       /\ full => bytes # <<>>
       /\ Innocent(w)
  <2> HIDE DEF full, size
  <2>1. "append_to_empty" \notin flags /\ "touch_full_block" \notin flags
    BY <1>3, <1>4 DEF Innocent, Forbidden
  <2> QED BY <1>3, <1>4, <2>1 DEF Innocent, Flag
<1>11. /\ lacks \in Nat /\ bytesToBlocks(size + Len(bytes)) = bytesToBlocks(size) + lacks
       /\ size % BlockSize = 0 => lacks = bytesToBlocks(Len(bytes))
       /\ size % BlockSize # 0 /\ Len(bytes) # 0 =>
            bytesToBlocks((size % BlockSize) + Len(bytes)) = lacks + 1
       /\ size % BlockSize \in 0..(BlockSize - 1)
  <2> HIDE DEF size
  <2> QED BY <1>6, LacksFacts
<1>12. lacks <= Cardinality(Free(f.blocks) \ {1})
  <2>1. k \in Nat
    BY <1>5 DEF Layout
  <2>2. Lacking(f.dir, k) \in Nat /\ Cardinality(Free(f.blocks) \ {1}) \in Nat
    BY <1>5, <2>1, LackingIs, FreeFinite
  <2>3. lacks <= f.freeBlocks
    OBVIOUS
  <2> HIDE DEF lacks
  <2> QED BY <1>5, <1>11, <2>2, <2>3
<1>13. FileSound(f.blocks, f.dir[i]) /\ f.blocks \in Links
  BY <1>5 DEF Layout
<1>14. CASE bytes = <<>>
  <2>1. Len(bytes) = 0 /\ ~full
    BY <1>10, <1>14
  <2>2. t = f.blocks
    BY <2>1 DEF t
  <2>3. h.blocks = f.blocks /\ h.data = f.data
    BY <1>0, <1>3, <1>14, <2>2, NothingWritten DEF w
  <2>4. \A S : Spares(f, h, S)
    BY <2>3 DEF Spares
  <2>5. Bytes(h, e) = Bytes(f, f.dir[i])
    <3>1. SamePlace(f.dir[i], e)
      BY <1>6, <1>7, <2>1 DEF SamePlace
    <3>2. Spares(f, h, {}) /\ BlocksOf(f.blocks, f.dir[i]) \cap {} = {}
      BY <2>4
    <3> QED BY <1>13, <3>1, <3>2, BytesSpared
  <2>6. Bytes(f, f.dir[i]) \o bytes = Bytes(f, f.dir[i])
    <3>1. Bytes(f, f.dir[i]) \in Seq(Content)
      BY <1>5, <1>6, BytesOK
    <3> QED BY <1>14, <3>1, ConcatEmptySeq
  <2> QED BY <1>4, <1>7, <1>8, <1>9, <2>4, <2>5, <2>6 DEF Rewrites
<1>15. CASE bytes # <<>>
  <2>1. size # 0 /\ Len(bytes) # 0
    BY <1>10, <1>15, EmptySeq
  <2>2. PICK b, m : b = f.dir[i].firstBlock /\ m = bytesToBlocks(size)
    OBVIOUS
  <2>3. IsFile(f.blocks, b, m, last)
    <3>1. last \in Chain(f.blocks, b) /\ f.blocks[last] = Eof
      BY <2>1, <2>2
    <3>2. m \in Nat \ {0}
      BY <1>6, <2>1, <2>2, BlocksPositive
    <3> QED BY <1>13, <2>1, <2>2, <3>1, <3>2 DEF IsFile, FileSound
  <2>4. PICK x : x = f.dir[i]
    OBVIOUS
  <2>5. /\ x.size \in Nat \ {0} /\ m = bytesToBlocks(x.size)
        /\ IsFile(f.blocks, x.firstBlock, m, last)
    BY <1>6, <2>1, <2>2, <2>3, <2>4
  <2>6. Continues(f, w, x, bytes)
    <3>1. CASE full
      <4>1. /\ c = FirstFree(f.blocks, 1, 0) /\ t = [f.blocks EXCEPT ![last] = c]
            /\ size % BlockSize = 0
        BY <2>1, <3>1 DEF c, t
      <4>2. w = Write(f, [f.blocks EXCEPT ![last] = c], c, 0, bytes)
        BY <4>1 DEF w
      <4>3. /\ bytesToBlocks(x.size + Len(bytes)) = m + bytesToBlocks(Len(bytes))
            /\ x.size % BlockSize = 0
            /\ bytesToBlocks(Len(bytes)) <= Cardinality(Free(f.blocks) \ {1})
        BY <1>11, <1>12, <2>2, <2>4, <4>1
      <4> QED BY <1>0, <1>10, <1>15, <2>5, <4>1, <4>2, <4>3, TextLengthened
    <3>2. CASE ~full
      <4>1. c = last /\ t = f.blocks /\ size % BlockSize # 0
        BY <1>6, <2>1, <3>2 DEF c, t
      <4>2. PICK within : within = size % BlockSize
        OBVIOUS
      <4>3. w = Write(f, f.blocks, last, within, bytes)
        BY <4>1, <4>2 DEF w
      <4>4. PICK n \in Nat : n = lacks
        BY <1>11
      <4>5. /\ bytesToBlocks(within + Len(bytes)) = n + 1
            /\ bytesToBlocks(x.size + Len(bytes)) = m + n
            /\ x.size % BlockSize # 0 /\ within = x.size % BlockSize
            /\ within \in 0..(BlockSize - 1)
            /\ n <= Cardinality(Free(f.blocks) \ {1})
        BY <1>11, <1>12, <2>1, <2>2, <2>4, <4>1, <4>2, <4>4
      <4> QED BY <1>0, <1>10, <1>15, <2>5, <4>3, <4>5, TextExtended
    <3> QED BY <3>1, <3>2
  <2>7. Spares(f, h, BlocksOf(f.blocks, f.dir[i]))
    BY <1>3, <2>4, <2>6 DEF Continues, Spares
  <2>8. Bytes(h, e) = Bytes(f, f.dir[i]) \o bytes
    <3>1. Longer(x, e, bytes)
      BY <1>7, <2>4 DEF Longer, SizedAt
    <3>2. Bytes(w, e) = Bytes(f, x) \o bytes
      BY <2>6, <3>1 DEF Continues, ReadsOn
    <3>3. Bytes(h, e) = Bytes(w, e)
      BY <1>3 DEF Bytes, Cells
    <3> QED BY <2>4, <3>2, <3>3
  <2> QED BY <1>4, <1>7, <1>8, <1>9, <2>7, <2>8 DEF Rewrites
<1> QED BY <1>14, <1>15

\* Appended to.
LEMMA AppendRewrites ==
  ASSUME EofIsNoBlock, NEW f, NEW k, Sound(f, k), NEW i \in DOMAIN f.dir,
         NEW bytes \in Seq(Content), AppendTo(f, i, bytes).ok,
         Innocent(AppendTo(f, i, bytes).fs)
  PROVE  Rewrites(f, AppendTo(f, i, bytes).fs, i, Bytes(f, f.dir[i]) \o bytes)
<1> DEFINE e == f.dir[i]
           chain == Chain(f.blocks, e.firstBlock)
           ends == {b \in chain : f.blocks[b] = Eof}
           S == Flag("link_outside", e.size > 0)
           g == [f EXCEPT !.damage = @ \cup S]
           lacks == Lacks(e.size, Len(bytes))
           h == AppendTo(f, i, bytes).fs
<1>0. DOMAIN f = Fields
  BY DEF Sound
<1>1. ~(f.freeBlocks < lacks) /\ (\/ ends # {} /\ h = WriteOn(f, i, bytes, Min(ends))
                                  \/ ends = {} /\ h = WriteOn(g, i, bytes, 0))
  BY DEF AppendTo, Done, Failed
<1>2. Innocent(h) /\ h = AppendTo(f, i, bytes).fs
  OBVIOUS
<1> HIDE DEF h
<1>3. /\ DOMAIN g = Fields
      /\ g.blocks = f.blocks /\ g.dir = f.dir /\ g.freeBlocks = f.freeBlocks
      /\ g.data = f.data /\ Sound(g, k)
  <2> HIDE DEF S
  <2> QED BY <1>0, FlagsAdded
<1> HIDE DEF g
<1>4. FileSound(f.blocks, e) /\ f.dir \in Seq(Entry) /\ f.freeBlocks \in Nat
  BY DEF Sound, Layout
<1>5. ASSUME e.size # 0 PROVE ends # {} /\ Min(ends) \in ends
  <2>1. chain \subseteq Data
    BY <1>4, <1>5 DEF FileSound
  <2>2. EndsOf(f.blocks, e.firstBlock) # {}
    BY <1>4, <1>5, FileEnds
  <2>3. ends # {} /\ ends \subseteq Nat
    BY <2>1, <2>2, FatAssumption DEF Data, EndsOf
  <2> HIDE DEF ends
  <2> QED BY <2>3, MinOfNaturals
<1>6. lacks <= f.freeBlocks
  <2>1. e.size \in Nat /\ Len(bytes) \in Nat
    BY <1>4, Places, LenProperties
  <2>2. lacks \in Nat
    BY <2>1, LacksFacts
  <2> HIDE DEF lacks
  <2> QED BY <1>1, <1>4, <2>2
<1>7. CASE ends # {} /\ h = WriteOn(f, i, bytes, Min(ends))
  <2>1. PICK last : last = Min(ends)
    OBVIOUS
  <2>2. e.size # 0 => last \in chain /\ f.blocks[last] = Eof
    BY <1>5, <2>1
  <2>3. Innocent(WriteOn(f, i, bytes, last)) /\ h = WriteOn(f, i, bytes, last)
    BY <1>2, <1>7, <2>1
  <2>4. Rewrites(f, WriteOn(f, i, bytes, last), i, Bytes(f, f.dir[i]) \o bytes)
    BY <1>6, <2>2, <2>3, WriteOnRewrites
  <2> QED BY <1>2, <2>3, <2>4
<1>8. CASE ends = {} /\ h = WriteOn(g, i, bytes, 0)
  <2>1. e.size = 0
    BY <1>5, <1>8
  <2>2. /\ i \in DOMAIN g.dir /\ Lacks(g.dir[i].size, Len(bytes)) <= g.freeBlocks
        /\ g.dir[i].size = 0 /\ Innocent(WriteOn(g, i, bytes, 0))
    BY <1>2, <1>3, <1>6, <1>8, <2>1
  <2>3. Rewrites(g, WriteOn(g, i, bytes, 0), i, Bytes(g, g.dir[i]) \o bytes)
    BY <1>3, <2>2, WriteOnRewrites
  <2>4. Bytes(g, g.dir[i]) = Bytes(f, f.dir[i])
    BY <1>3 DEF Bytes, Cells
  <2>5. Rewrites(g, h, i, Bytes(f, f.dir[i]) \o bytes)
    BY <1>8, <2>3, <2>4
  <2>6. Rewrites(f, h, i, Bytes(f, f.dir[i]) \o bytes)
    <3>1. PICK B, T : B = Bytes(f, f.dir[i]) \o bytes /\ T = BlocksOf(f.blocks, f.dir[i])
      OBVIOUS
    <3>2. Rewrites(g, h, i, B) /\ BlocksOf(g.blocks, g.dir[i]) = T
      BY <1>3, <2>5, <3>1
    <3>3. Spares(g, h, T)
      BY <3>2 DEF Rewrites
    <3>4. Spares(f, h, T)
      BY <1>3, <3>3 DEF Spares
    <3>5. Rewrites(f, h, i, B)
      BY <1>3, <3>1, <3>2, <3>4 DEF Rewrites
    <3> QED BY <3>1, <3>5
  <2> QED BY <1>2, <2>6
<1> QED BY <1>1, <1>7, <1>8

\* In h there is a file e more than in f.
Makes(f, h, name, bytes) ==
  /\ Spares(f, h, {})
  /\ \E e \in Entry : /\ h.dir = Append(f.dir, e)
                      /\ e.name = name /\ e.perm = {"r", "w"} /\ Bytes(h, e) = bytes

\* A new file.
LEMMA CreateMakes ==
  ASSUME EofIsNoBlock, NEW f, NEW k, Sound(f, k), NEW name \in Name,
         NEW bytes \in Seq(Content), NEW at \in Addr, Create(f, name, bytes, at).ok,
         Innocent(Create(f, name, bytes, at).fs)
  PROVE  Makes(f, Create(f, name, bytes, at).fs, name, bytes)
<1> DEFINE t == f.blocks
           c == FirstFree(t, 1, 1)
           first == IF bytes = <<>> THEN 0 ELSE c
           e == [name |-> name, size |-> Len(bytes), perm |-> {"r", "w"}, at |-> at,
                 firstBlock |-> first]
           needed == Needed(f, Len(bytes))
           w == Write(f, t, c, 0, bytes)
           h == [w EXCEPT !.dir = Append(@, e), !.freeBlocks = @ - needed]
<1>0. DOMAIN f = Fields
  BY DEF Sound
<1>1. ~(f.freeBlocks < needed) /\ Create(f, name, bytes, at).fs = h
  BY DEF Create, Done, Failed
<1>2. Beside(f, w)
  BY <1>0, WriteBeside
<1> HIDE DEF c, w, needed
<1>3. /\ h.damage = w.damage /\ h.data = w.data /\ h.blocks = w.blocks
      /\ h.dir = Append(f.dir, e)
  <2> HIDE DEF e
  <2>1. DOMAIN w = Fields /\ w.dir = f.dir
    BY <1>2 DEF Beside
  <2> QED BY <2>1 DEF Fields
<1>4. Innocent(h)
  BY <1>1
<1> HIDE DEF h, t
<1>5. /\ DataOK(f.data) /\ f.dir \in Seq(Entry) /\ Layout(f.blocks, f.dir, k)
      /\ f.freeBlocks \in Nat
      /\ f.freeBlocks + Lacking(f.dir, k) <= Cardinality(Free(f.blocks) \ {1})
  BY DEF Sound
<1>6. Len(bytes) \in Nat
  BY LenProperties
<1>7. PICK q : q = bytesToBlocks(Len(bytes))
  OBVIOUS
<1>8. q \in Nat /\ needed \in Nat /\ q <= needed
  <2>1. q \in Nat
    BY <1>6, <1>7, BlocksPositive
  <2>2. needed = q \/ needed = q + 1
    BY <1>7, <2>1 DEF needed, Needed
  <2> QED BY <2>1, <2>2
<1>9. t \in Links /\ k \in Nat
  BY <1>5 DEF Layout, t
<1>10. q <= Cardinality(Free(t) \ {1})
  <2>1. Lacking(f.dir, k) \in Nat /\ Cardinality(Free(f.blocks) \ {1}) \in Nat
    BY <1>5, <1>9, LackingIs, FreeFinite
  <2> QED BY <1>1, <1>5, <1>8, <2>1 DEF t
<1>11. Innocent(w)
  BY <1>3, <1>4 DEF Innocent
<1>12. first \in Index /\ Spares(f, h, {}) /\ \A x : SizedAt(x, Len(bytes), first) => Bytes(h, x) = bytes
  <2>1. CASE bytes = <<>>
    <3>1. Len(bytes) = 0 /\ first \in Index
      BY <2>1, FatAssumption DEF Index
    <3>2. h.data = f.data /\ h.blocks = f.blocks
      BY <1>0, <1>3, <2>1, NothingWritten DEF w, t
    <3>3. Spares(f, h, {})
      BY <3>2 DEF Spares
    <3>4. ASSUME NEW x, SizedAt(x, Len(bytes), first) PROVE Bytes(h, x) = bytes
      <4>1. x.size = 0
        BY <3>1, <3>4 DEF SizedAt
      <4> QED BY <2>1, <4>1, NoBytes
    <3> QED BY <3>1, <3>3, <3>4
  <2>2. CASE bytes # <<>>
    <3>1. /\ c \in Free(t) \ {1}
          /\ \E n \in Nat : /\ n + 1 = bytesToBlocks(Len(bytes))
                            /\ \E s : WrittenAlong(f, w, t, c, 0, bytes, n, s)
      BY <1>0, <1>7, <1>9, <1>10, <1>11, <2>2, FreshTrail DEF c, w
    <3>2. PICK n \in Nat : /\ n + 1 = bytesToBlocks(Len(bytes))
                           /\ \E s : WrittenAlong(f, w, t, c, 0, bytes, n, s)
      BY <3>1
    <3>3. PICK s : WrittenAlong(f, w, t, c, 0, bytes, n, s)
      BY <3>2
    <3>4. WrittenAlong(f, h, t, c, 0, bytes, n, s)
      BY <1>3, <3>3 DEF WrittenAlong
    <3>5. Spares(f, h, {})
      <4>1. Prepares(f, t, c, {})
        BY <3>1 DEF Prepares, Free, t
      <4> QED BY <3>4, <4>1, WriteSpares
    <3>6. first = c /\ c \in Index
      BY <2>2, <3>1 DEF Free
    <3> HIDE DEF first
    <3>7. ASSUME NEW x, SizedAt(x, Len(bytes), first) PROVE Bytes(h, x) = bytes
      BY <2>2, <3>2, <3>4, <3>6, <3>7, TextWritten
    <3> QED BY <3>5, <3>6, <3>7
  <2> QED BY <2>1, <2>2
<1> HIDE DEF first
<1>13. e \in Entry /\ e.size = Len(bytes) /\ e.firstBlock = first
  BY <1>6, <1>12 DEF Entry, Perms
<1>14. e.name = name /\ e.perm = {"r", "w"}
  OBVIOUS
<1> HIDE DEF e
<1>15. Bytes(h, e) = bytes
  BY <1>12, <1>13 DEF SizedAt
<1>16. Makes(f, h, name, bytes)
  BY <1>3, <1>12, <1>13, <1>14, <1>15 DEF Makes
<1> QED BY <1>1, <1>16

\* File i of f is gone in h.
Removes(f, h, i) ==
  i \in DOMAIN f.dir /\ Spares(f, h, BlocksOf(f.blocks, f.dir[i])) /\ h.dir = RemoveAt(f.dir, i)

\* A file is deleted.
LEMMA DeleteRemoves ==
  ASSUME NEW f, NEW k, Sound(f, k), NEW i \in DOMAIN f.dir
  PROVE  Removes(f, Delete(f, i), i)
<1> DEFINE h == Delete(f, i)
           S == BlocksOf(f.blocks, f.dir[i])
<1>1. h.data = f.data /\ h.dir = RemoveAt(f.dir, i) /\ h.blocks = Released(f, i)
  BY DEF Delete, Released, Sound, Fields
<1> HIDE DEF h, S
<1>2. f.blocks \in Links
  BY DEF Sound, Layout
<1>3. h.blocks = Cleared(f.blocks, S)
  BY <1>1, <1>2, ReleasedIs DEF S
<1>4. \A b \in Index : f.blocks[b] # 0 /\ b \notin S => h.blocks[b] = f.blocks[b]
  BY <1>3 DEF Cleared
<1>5. Spares(f, h, S)
  BY <1>1, <1>4, NothingTouched
<1> QED BY <1>1, <1>5 DEF Removes, h, S

\* The files of directory d read the same in h as in f.
Preserves(f, d, h) == \A i \in DOMAIN d : Bytes(h, d[i]) = Bytes(f, d[i])

\* What spares all but free blocks and those of the directory does so.
LEMMA SparedPreserved ==
  ASSUME EofIsNoBlock, NEW f, NEW d, NEW k, Layout(f.blocks, d, k),
         NEW h, NEW S, S \subseteq Chain(f.blocks, 1), Spares(f, h, S)
  PROVE  Preserves(f, d, h)
<1>1. ASSUME NEW i \in DOMAIN d PROVE Bytes(h, d[i]) = Bytes(f, d[i])
  <2>1. FileSound(f.blocks, d[i]) /\ BlocksOf(f.blocks, d[i]) \cap S = {}
    BY DEF Layout
  <2>2. SamePlace(d[i], d[i])
    BY DEF SamePlace
  <2> QED BY <2>1, <2>2, BytesSpared
<1> QED BY <1>1 DEF Preserves

\* The bytes of a file follow from the links and the data.
LEMMA SameBytes ==
  ASSUME NEW f, NEW h, h.blocks = f.blocks, h.data = f.data
  PROVE  \A d : Preserves(f, d, h)
BY DEF Preserves, Bytes, Cells

\* Saving the directory leaves the files alone.
LEMMA SavePreserves ==
  ASSUME EofIsNoBlock, NEW f, NEW k, Sound(f, k), Innocent(saveFat(f))
  PROVE  Preserves(f, f.dir, saveFat(f))
<1> DEFINE S == Chain(f.blocks, 1)
           t == Cleared(f.blocks, S)
           h == saveFat(f)
<1>1. /\ DOMAIN f = Fields /\ f.dir \in Seq(Entry)
      /\ Layout(f.blocks, f.dir, k) /\ f.freeBlocks \in Nat
      /\ f.freeBlocks + Lacking(f.dir, k) <= Cardinality(Free(f.blocks) \ {1})
  BY DEF Sound
<1>2. deleteFileHelper(f.blocks, 1, 1) = t
  BY DEF deleteFileHelper, Cleared
<1>3. /\ Layout(t, f.dir, 1) /\ t[1] = 0
      /\ Cardinality(Free(t) \ {1}) = Cardinality(Free(f.blocks) \ {1}) + (k - 1)
  BY <1>1, DirectoryReleased
<1>4. \A b \in Index : f.blocks[b] # 0 /\ b \notin S => t[b] = f.blocks[b]
  BY DEF Cleared
<1> HIDE DEF t
<1>5. k \in Nat \ {0} /\ t \in Links
  BY <1>1, <1>3 DEF Layout
<1>6. h.data = f.data /\ \A b \in Index : f.blocks[b] # 0 /\ b \notin S => h.blocks[b] = f.blocks[b]
  <2>1. CASE f.dir = <<>>
    <3>1. h = [f EXCEPT !.blocks = t]
      BY <1>2, <2>1 DEF saveFat
    <3>2. h.data = f.data /\ h.blocks = t
      BY <1>1, <3>1 DEF Fields
    <3> QED BY <1>4, <3>2
  <2>2. CASE f.dir # <<>>
    <3>1. PICK l \in Nat \ {0} : l = Len(f.dir)
      BY <1>1, <2>2, Places, EmptySeq
    <3>2. PICK n \in Nat \ {0} : n = DirBlocks(l)
      BY DirBlocksFacts
    <3>3. PICK m \in Nat : m = n - 1 /\ n = m + 1
      <4>1. n - 1 \in Nat /\ n = (n - 1) + 1
        OBVIOUS
      <4> QED BY <4>1
    <3>4. PICK g : g = Grow(t, 1, m)[m]
      OBVIOUS
    <3>5. h = Terminate([[f EXCEPT !.blocks = t] EXCEPT !.disk = f.dir], g)
          \/ h = Terminate([f EXCEPT !.disk = f.dir], g)
      BY <1>2, <2>2, <3>1, <3>2, <3>3, <3>4 DEF saveFat
    <3>6. h.data = f.data /\ h.blocks = Ended(g) /\ (~g.clean => "no_room_behind" \in h.damage)
      BY <1>1, <3>5 DEF Terminate, Fields, Ended, Flag
    <3>7. g.clean
      BY <3>6 DEF Innocent, Forbidden
    <3>8. m <= Cardinality(Free(t) \ {1})
      <4>1. /\ Lacking(f.dir, k) \in Nat /\ DirBlocks(Len(f.dir)) <= k + Lacking(f.dir, k)
            /\ Cardinality(Free(f.blocks) \ {1}) \in Nat
        BY <1>1, <1>5, LackingIs, FreeFinite
      <4>2. n <= k + Lacking(f.dir, k)
        BY <3>1, <3>2, <4>1
      <4> QED BY <1>1, <1>3, <1>5, <3>3, <4>1, <4>2
    <3>9. TakesDirectory(t, h.blocks, m + 1)
      BY <1>3, <1>5, <3>4, <3>6, <3>7, <3>8, DirectoryChain
    <3>10. ASSUME NEW b \in Index, f.blocks[b] # 0, b \notin S PROVE h.blocks[b] = f.blocks[b]
      <4>1. t[b] = f.blocks[b]
        BY <1>4, <3>10
      <4>2. b \notin Chain(h.blocks, 1)
        BY <3>9, <3>10, <4>1 DEF TakesDirectory, Free
      <4> QED BY <3>9, <4>1, <4>2 DEF TakesDirectory
    <3> QED BY <3>6, <3>10
  <2> QED BY <2>1, <2>2
<1> HIDE DEF h, S
<1>7. Spares(f, h, S)
  BY <1>6, NothingTouched
<1>8. Preserves(f, f.dir, h)
  BY <1>1, <1>7, SparedPreserved DEF S
<1> QED BY <1>8 DEF h

\* Nor does loading it touch them.
LEMMA LoadPreserves ==
  ASSUME EofIsNoBlock, NEW f, DOMAIN f = Fields, NEW d, NEW k, Layout(f.blocks, d, k)
  PROVE  Preserves(f, d, loadFat(f))
<1> DEFINE h == loadFat(f)
<1>1. h.data = f.data /\ h.blocks = [f.blocks EXCEPT ![1] = IF @ = 0 THEN Eof ELSE @]
  BY DEF loadFat, Fields
<1> HIDE DEF h
<1>2. f.blocks \in Links
  BY DEF Layout
<1>3. \A b \in Index : f.blocks[b] # 0 /\ b \notin {} => h.blocks[b] = f.blocks[b]
  BY <1>1, <1>2 DEF Links
<1>4. Spares(f, h, {})
  BY <1>1, <1>3, NothingTouched
<1>5. Preserves(f, d, h)
  BY <1>4, SparedPreserved
<1> QED BY <1>5 DEF h

\* What Settle keeps is all that is read.
LEMMA SettlePreserves ==
  ASSUME NEW f, DOMAIN f = Fields, \A i \in DOMAIN f.dir : f.dir[i].size \in Nat
  PROVE  /\ Preserves(f, f.dir, Settle(f))
         /\ f.disk # Outdated => Preserves(f, f.disk, Settle(f))
<1> DEFINE held(dir) == UNION {Range(Cells(f, dir[i])) : i \in DOMAIN dir}
           kept == held(f.dir) \cup (IF f.disk = Outdated THEN {} ELSE held(f.disk))
           h == Settle(f)
<1>1. h = [f EXCEPT !.data = Restrict(@, DOMAIN @ \cap kept)]
  BY DEF Settle
<1>2. h.blocks = f.blocks /\ h.data = Restrict(f.data, DOMAIN f.data \cap kept)
  <2> HIDE DEF kept, h
  <2> QED BY <1>1 DEF Fields
<1>3. \A x \in kept : x \in DOMAIN h.data <=> x \in DOMAIN f.data
  <2> HIDE DEF kept, h
  <2> QED BY <1>2 DEF Restrict
<1>4. \A x \in DOMAIN h.data : h.data[x] = f.data[x]
  <2> HIDE DEF kept, h
  <2> QED BY <1>2 DEF Restrict
<1>5. ASSUME NEW e, Range(Cells(f, e)) \subseteq kept
      PROVE  Bytes(h, e) = Bytes(f, e)
  <2> HIDE DEF kept, h
  <2>1. Cells(h, e) = Cells(f, e)
    BY <1>2 DEF Cells
  <2>2. PICK cell : cell = Cells(f, e)
    OBVIOUS
  <2>3. ASSUME NEW j \in 1..e.size PROVE cell[j] \in kept
    <3>1. j \in DOMAIN cell
      BY <2>2 DEF Cells
    <3>2. cell[j] \in Range(cell)
      BY <3>1 DEF Range
    <3> QED BY <1>5, <2>2, <3>2
  <2>4. \A j \in 1..e.size :
          (IF cell[j] \in DOMAIN h.data THEN h.data[cell[j]] ELSE Junk)
            = (IF cell[j] \in DOMAIN f.data THEN f.data[cell[j]] ELSE Junk)
    BY <1>3, <1>4, <2>3
  <2> QED BY <2>1, <2>2, <2>4 DEF Bytes
<1>6. Preserves(f, f.dir, h)
  <2>1. \A i \in DOMAIN f.dir : Range(Cells(f, f.dir[i])) \subseteq kept
    OBVIOUS
  <2> HIDE DEF kept, h
  <2> QED BY <1>5, <2>1 DEF Preserves
<1>7. f.disk # Outdated => Preserves(f, f.disk, h)
  <2>1. f.disk # Outdated => \A i \in DOMAIN f.disk : Range(Cells(f, f.disk[i])) \subseteq kept
    OBVIOUS
  <2> HIDE DEF kept, h
  <2> QED BY <1>5, <2>1 DEF Preserves
<1> QED BY <1>6, <1>7
=============================================================================
