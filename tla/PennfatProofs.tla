---------------------------- MODULE PennfatProofs ----------------------------
(***************************************************************************)
(* Under the commands of pennfat the file system stays sound, whatever     *)
(* fails and whenever it is mounted and unmounted: each command is a       *)
(* sequence of functions of file.c, which keep it sound, and a save if     *)
(* none of them has failed.                                                *)
(*                                                                         *)
(* And its users see files: what the directory shows (Shows) changes with  *)
(* each command as Files says, and not at all when the file system is      *)
(* saved, given up or loaded.                                              *)
(***************************************************************************)
EXTENDS Pennfat, FatProofs

-----------------------------------------------------------------------------
(***************************************************************************)
(* Lists of files.                                                         *)
(***************************************************************************)
\* What touch, rm and cat do with one element of their list.
Do(f, x) ==
  IF x.remove THEN deleteFileFromFAT(f, x.name) ELSE write(f, x.name, x.bytes, x.append)

DoNext(r, x) == IF r.ok THEN Do(r.fs, x) ELSE r

\* The results for the elements of x, one after the other.
ResultsOf(r, n, x) == r[0] = Done(fs) /\ \A i \in 1..n : r[i] = DoNext(r[i - 1], x[i])

\* it is the function by which InTurn is defined.
FoldsUp(it, n, x) ==
  it = [s \in SUBSET (1..n) |->
          IF s = {} THEN Done(fs) ELSE DoNext(it[s \ {Max(s)}], x[Max(s)])]

\* There is such a function ...
LEMMA FoldExists ==
  ASSUME NEW n \in Nat, NEW x
  PROVE  \E it : FoldsUp(it, n, x)
<1> DEFINE T == {m \in 0..n : \E it : FoldsUp(it, m, x)}
<1>1. 0 \in T
  <2> DEFINE it == [s \in SUBSET (1..0) |-> Done(fs)]
  <2>1. FoldsUp(it, 0, x)
    BY DEF FoldsUp
  <2> HIDE DEF it
  <2> QED BY <2>1
<1>2. ASSUME NEW m \in 0..(n - 1), m \in T PROVE m + 1 \in T
  <2>1. PICK it : FoldsUp(it, m, x)
    BY <1>2
  <2>2. m \in Nat /\ m + 1 \in Nat /\ (m + 1) - 1 = m
    OBVIOUS
  <2> DEFINE new == [s \in SUBSET (1..(m + 1)) |->
                       IF m + 1 \in s THEN DoNext(it[s \ {m + 1}], x[m + 1]) ELSE it[s]]
  <2>3. ASSUME NEW s \in SUBSET (1..(m + 1))
        PROVE  new[s] = IF s = {} THEN Done(fs) ELSE DoNext(new[s \ {Max(s)}], x[Max(s)])
    <3>1. /\ s # {} => Max(s) \in s
          /\ m + 1 \in s => Max(s) = m + 1 /\ s \ {Max(s)} \in SUBSET (1..m)
          /\ m + 1 \notin s => s \in SUBSET (1..m)
      BY <2>2, TopIs
    <3>2. m + 1 \notin 1..m
      BY <2>2
    <3>3. \A y \in SUBSET (1..m) : y \in SUBSET (1..(m + 1)) /\ m + 1 \notin y /\ new[y] = it[y]
      BY <2>2, <3>2
    <3>4. CASE m + 1 \in s
      <4>1. new[s] = DoNext(it[s \ {m + 1}], x[m + 1])
        BY <3>4
      <4>2. new[s \ {m + 1}] = it[s \ {m + 1}]
        BY <3>1, <3>3, <3>4
      <4> HIDE DEF new
      <4> QED BY <3>1, <3>4, <4>1, <4>2
    <3>5. CASE m + 1 \notin s
      <4>1. s \in SUBSET (1..m) /\ s \ {Max(s)} \in SUBSET (1..m)
        BY <3>1, <3>5
      <4>2. new[s] = it[s] /\ new[s \ {Max(s)}] = it[s \ {Max(s)}]
        BY <3>3, <4>1
      <4>3. it[s] = IF s = {} THEN Done(fs) ELSE DoNext(it[s \ {Max(s)}], x[Max(s)])
        BY <2>1, <4>1 DEF FoldsUp
      <4> HIDE DEF new
      <4> QED BY <4>2, <4>3
    <3> QED BY <3>4, <3>5
  <2>4. new = [s \in SUBSET (1..(m + 1)) |-> new[s]]
    OBVIOUS
  <2>5. FoldsUp(new, m + 1, x)
    <3> HIDE DEF new
    <3> QED BY <2>3, <2>4 DEF FoldsUp
  <2> HIDE DEF new
  <2>6. m + 1 \in 0..n
    OBVIOUS
  <2> QED BY <2>5, <2>6
<1>3. n \in T
  <2>1. \A m \in 0..(n - 1) : m \in T => m + 1 \in T
    BY <1>2
  <2> HIDE DEF T
  <2>2. \A m \in 0..n : m \in T
    BY <1>1, <2>1, UpTo
  <2>3. n \in 0..n
    OBVIOUS
  <2> QED BY <2>2, <2>3
<1> QED BY <1>3

\* ... and what it yields for the whole list is the last result.
LEMMA FoldIs ==
  ASSUME NEW n \in Nat, NEW x, NEW it, FoldsUp(it, n, x)
  PROVE  \E r : ResultsOf(r, n, x) /\ r[n] = it[1..n]
<1> DEFINE r == [i \in 0..n |-> it[1..i]]
<1>1. r[0] = Done(fs)
  <2>1. 1..0 = {} /\ {} \in SUBSET (1..n) /\ 0 \in 0..n
    OBVIOUS
  <2> QED BY <2>1 DEF FoldsUp
<1>2. ASSUME NEW i \in 1..n PROVE r[i] = DoNext(r[i - 1], x[i])
  <2>0. /\ i \in 0..n /\ i - 1 \in 0..n /\ i \in Nat /\ i \in 1..i
        /\ \A j \in 1..i : j \in 1..n
    OBVIOUS
  <2>1. /\ i \in 0..n /\ i - 1 \in 0..n /\ 1..i \in SUBSET (1..n) /\ 1..i # {}
        /\ i \in Nat /\ i \in 1..i /\ 1..i \in SUBSET (1..i)
    BY <2>0
  <2>2. Max(1..i) = i
    BY <2>1, TopIs
  <2>3. (1..i) \ {i} = 1..(i - 1)
    OBVIOUS
  <2>4. it[1..i] = DoNext(it[(1..i) \ {Max(1..i)}], x[Max(1..i)])
    BY <2>1 DEF FoldsUp
  <2> QED BY <2>1, <2>2, <2>3, <2>4
<1>3. r[n] = it[1..n]
  OBVIOUS
<1> HIDE DEF r
<1> QED BY <1>1, <1>2, <1>3 DEF ResultsOf

\* A list of such elements.
Tasks(x, n) ==
  \A i \in 1..n : x[i].name \in Name /\ x[i].bytes \in Seq(Content)

\* One of them keeps a file system sound.
LEMMA DoKeeps ==
  ASSUME EofIsNoBlock, Addr # {}, NEW r, NEW g, g = r.fs, DOMAIN g = Fields,
         NEW x, x.name \in Name, x.bytes \in Seq(Content), NEW k
  PROVE  Keeps(g, DoNext(r, x).fs, k)
<1>1. At \in Addr
  BY DEF At
<1>2. CASE ~r.ok
  <2>1. DoNext(r, x).fs = g
    BY <1>2 DEF DoNext
  <2> QED BY <2>1, KeepsStill
<1>3. CASE r.ok /\ x.remove
  <2>1. DoNext(r, x) = deleteFileFromFAT(g, x.name)
    BY <1>3 DEF DoNext, Do
  <2>2. Keeps(g, deleteFileFromFAT(g, x.name).fs, k)
    BY DeleteFileKeeps
  <2> QED BY <2>1, <2>2
<1>4. CASE r.ok /\ ~x.remove
  <2>1. DoNext(r, x) = writeFileToFAT(g, x.name, x.bytes, 0, x.append, At)
    BY <1>4 DEF DoNext, Do, write
  <2>2. Keeps(g, writeFileToFAT(g, x.name, x.bytes, 0, x.append, At).fs, k)
    BY <1>1, WriteFileKeeps
  <2> QED BY <2>1, <2>2
<1> QED BY <1>2, <1>3, <1>4

\* The results keep it sound one after the other.
LEMMA ResultsKeep ==
  ASSUME EofIsNoBlock, Addr # {}, NEW n \in Nat, NEW x, Tasks(x, n), NEW r, ResultsOf(r, n, x),
         DOMAIN fs = Fields, NEW k
  PROVE  \A i \in 0..n : Keeps(fs, r[i].fs, k)
<1> DEFINE T == {i \in 0..n : Keeps(fs, r[i].fs, k)}
<1>1. 0 \in T
  <2>1. r[0].fs = fs
    BY DEF ResultsOf, Done
  <2> QED BY <2>1, KeepsStill
<1>2. ASSUME NEW i \in 0..(n - 1), i \in T PROVE i + 1 \in T
  <2>1. PICK j \in 1..n : j = i + 1 /\ j - 1 = i
    OBVIOUS
  <2>2. r[j] = DoNext(r[i], x[j])
    BY <2>1 DEF ResultsOf
  <2>3. PICK g : g = r[i].fs
    OBVIOUS
  <2>4. Keeps(fs, g, k) /\ DOMAIN g = Fields
    BY <1>2, <2>3 DEF Keeps, Grows
  <2>5. x[j].name \in Name /\ x[j].bytes \in Seq(Content)
    BY DEF Tasks
  <2>6. Keeps(g, r[j].fs, k)
    BY <2>2, <2>3, <2>4, <2>5, DoKeeps
  <2>7. Keeps(fs, r[j].fs, k)
    BY <2>4, <2>6, KeepsOn
  <2> QED BY <2>1, <2>7
<1>3. \A i \in 0..(n - 1) : i \in T => i + 1 \in T
  BY <1>2
<1> HIDE DEF T
<1>4. \A i \in 0..n : i \in T
  BY <1>1, <1>3, UpTo
<1> QED BY <1>4 DEF T

\* q is what InTurn yields for n elements.
InTurns(q, n, x) == \E r : ResultsOf(r, n, x) /\ q = r[n]

\* So it does by its definition.
LEMMA FoldTurns ==
  ASSUME NEW n \in Nat, NEW x, NEW it, FoldsUp(it, n, x)
  PROVE  InTurns(it[1..n], n, x)
BY FoldIs DEF InTurns

\* It keeps the file system sound.
LEMMA TurnsKeep ==
  ASSUME EofIsNoBlock, Addr # {}, NEW n \in Nat, NEW x, Tasks(x, n), NEW q, InTurns(q, n, x),
         DOMAIN fs = Fields, NEW k
  PROVE  Keeps(fs, q.fs, k)
<1>1. PICK r : ResultsOf(r, n, x) /\ q = r[n]
  BY DEF InTurns
<1>2. Keeps(fs, r[n].fs, k)
  BY <1>1, ResultsKeep
<1> QED BY <1>1, <1>2

\* touch.
TouchTasks(names) ==
  [i \in DOMAIN names |-> [remove |-> FALSE, name |-> names[i], bytes |-> <<>>, append |-> TRUE]]

LEMMA TouchTurns ==
  ASSUME NEW names \in Seq(Name), NEW n \in Nat, n = Len(names)
  PROVE  /\ Tasks(TouchTasks(names), n)
         /\ InTurns(InTurn(LAMBDA f, name : write(f, name, <<>>, TRUE), names), n,
                    TouchTasks(names))
<1>1. DOMAIN names = 1..n /\ \A i \in 1..n : names[i] \in Name
  BY LenProperties, ElementOfSeq
<1> DEFINE x == TouchTasks(names)
           Q(it) == it = [s \in SUBSET (1..n) |->
                            IF s = {} THEN Done(fs)
                            ELSE IF it[s \ {Max(s)}].ok
                              THEN write(it[s \ {Max(s)}].fs, names[Max(s)], <<>>, TRUE)
                            ELSE it[s \ {Max(s)}]]
           fold == CHOOSE it : Q(it)
<1>2. InTurn(LAMBDA f, name : write(f, name, <<>>, TRUE), names) = fold[1..n]
  BY <1>1 DEF InTurn, FoldLeft, MapThenFoldSet
<1>3. \A s \in SUBSET (1..n) : s # {} => Max(s) \in 1..n
  BY TopIs
<1>4. \A r : \A i \in 1..n :
         DoNext(r, x[i]) = IF r.ok THEN write(r.fs, names[i], <<>>, TRUE) ELSE r
  BY <1>1 DEF DoNext, Do, TouchTasks
<1>5. Tasks(x, n)
  <2>1. <<>> \in Seq(Content)
    BY EmptySeq
  <2> QED BY <1>1, <2>1 DEF TouchTasks, Tasks
<1> HIDE DEF x
<1>6. ASSUME NEW it PROVE Q(it) <=> FoldsUp(it, n, x)
  <2>1. ASSUME NEW s \in SUBSET (1..n), s # {}
        PROVE  DoNext(it[s \ {Max(s)}], x[Max(s)])
                 = IF it[s \ {Max(s)}].ok
                     THEN write(it[s \ {Max(s)}].fs, names[Max(s)], <<>>, TRUE)
                     ELSE it[s \ {Max(s)}]
    BY <1>3, <1>4, <2>1
  <2> QED BY <2>1 DEF FoldsUp
<1> HIDE DEF Q
<1>7. FoldsUp(fold, n, x)
  <2>1. \E it : Q(it)
    BY <1>6, FoldExists
  <2> QED BY <1>6, <2>1
<1> HIDE DEF fold
<1>8. InTurns(fold[1..n], n, x)
  BY <1>7, FoldTurns
<1> QED BY <1>2, <1>5, <1>8 DEF x

\* rm.
RemoveTasks(names) ==
  [i \in DOMAIN names |-> [remove |-> TRUE, name |-> names[i], bytes |-> <<>>, append |-> TRUE]]

LEMMA RemoveTurns ==
  ASSUME NEW names \in Seq(Name), NEW n \in Nat, n = Len(names)
  PROVE  /\ Tasks(RemoveTasks(names), n)
         /\ InTurns(InTurn(deleteFileFromFAT, names), n, RemoveTasks(names))
<1>1. DOMAIN names = 1..n /\ \A i \in 1..n : names[i] \in Name
  BY LenProperties, ElementOfSeq
<1> DEFINE x == RemoveTasks(names)
           Q(it) == it = [s \in SUBSET (1..n) |->
                            IF s = {} THEN Done(fs)
                            ELSE IF it[s \ {Max(s)}].ok
                              THEN deleteFileFromFAT(it[s \ {Max(s)}].fs, names[Max(s)])
                            ELSE it[s \ {Max(s)}]]
           fold == CHOOSE it : Q(it)
<1>2. InTurn(deleteFileFromFAT, names) = fold[1..n]
  BY <1>1 DEF InTurn, FoldLeft, MapThenFoldSet
<1>3. \A s \in SUBSET (1..n) : s # {} => Max(s) \in 1..n
  BY TopIs
<1>4. \A r : \A i \in 1..n :
         DoNext(r, x[i]) = IF r.ok THEN deleteFileFromFAT(r.fs, names[i]) ELSE r
  BY <1>1 DEF DoNext, Do, RemoveTasks
<1>5. Tasks(x, n)
  <2>1. <<>> \in Seq(Content)
    BY EmptySeq
  <2> QED BY <1>1, <2>1 DEF RemoveTasks, Tasks
<1> HIDE DEF x
<1>6. ASSUME NEW it PROVE Q(it) <=> FoldsUp(it, n, x)
  <2>1. ASSUME NEW s \in SUBSET (1..n), s # {}
        PROVE  DoNext(it[s \ {Max(s)}], x[Max(s)])
                 = IF it[s \ {Max(s)}].ok
                     THEN deleteFileFromFAT(it[s \ {Max(s)}].fs, names[Max(s)])
                     ELSE it[s \ {Max(s)}]
    BY <1>3, <1>4, <2>1
  <2> QED BY <2>1 DEF FoldsUp
<1> HIDE DEF Q
<1>7. FoldsUp(fold, n, x)
  <2>1. \E it : Q(it)
    BY <1>6, FoldExists
  <2> QED BY <1>6, <2>1
<1> HIDE DEF fold
<1>8. InTurns(fold[1..n], n, x)
  BY <1>7, FoldTurns
<1> QED BY <1>2, <1>5, <1>8 DEF x

\* cat of files, the bytes of which have been read.
CatTasks(part, name) ==
  [i \in DOMAIN part |-> [remove |-> FALSE, name |-> name, bytes |-> part[i].bytes,
                          append |-> part[i].append]]

LEMMA CatTurns ==
  ASSUME NEW n \in Nat, NEW part, DOMAIN part = 1..n,
         \A i \in 1..n : part[i].bytes \in Seq(Content), NEW name \in Name
  PROVE  /\ Tasks(CatTasks(part, name), n)
         /\ InTurns(InTurn(LAMBDA f, p : write(f, name, p.bytes, p.append), part), n,
                    CatTasks(part, name))
<1> DEFINE x == CatTasks(part, name)
           Q(it) == it = [s \in SUBSET (1..n) |->
                            IF s = {} THEN Done(fs)
                            ELSE IF it[s \ {Max(s)}].ok
                              THEN write(it[s \ {Max(s)}].fs, name, part[Max(s)].bytes,
                                         part[Max(s)].append)
                            ELSE it[s \ {Max(s)}]]
           fold == CHOOSE it : Q(it)
<1>2. InTurn(LAMBDA f, p : write(f, name, p.bytes, p.append), part) = fold[1..n]
  BY DEF InTurn, FoldLeft, MapThenFoldSet
<1>3. \A s \in SUBSET (1..n) : s # {} => Max(s) \in 1..n
  BY TopIs
<1>4. \A r : \A i \in 1..n :
         DoNext(r, x[i]) = IF r.ok THEN write(r.fs, name, part[i].bytes, part[i].append) ELSE r
  BY DEF DoNext, Do, CatTasks
<1>5. Tasks(x, n)
  BY DEF CatTasks, Tasks
<1> HIDE DEF x
<1>6. ASSUME NEW it PROVE Q(it) <=> FoldsUp(it, n, x)
  <2>1. ASSUME NEW s \in SUBSET (1..n), s # {}
        PROVE  DoNext(it[s \ {Max(s)}], x[Max(s)])
                 = IF it[s \ {Max(s)}].ok
                     THEN write(it[s \ {Max(s)}].fs, name, part[Max(s)].bytes,
                                part[Max(s)].append)
                     ELSE it[s \ {Max(s)}]
    BY <1>3, <1>4, <2>1
  <2> QED BY <2>1 DEF FoldsUp
<1> HIDE DEF Q
<1>7. FoldsUp(fold, n, x)
  <2>1. \E it : Q(it)
    BY <1>6, FoldExists
  <2> QED BY <1>6, <2>1
<1> HIDE DEF fold
<1>8. InTurns(fold[1..n], n, x)
  BY <1>7, FoldTurns
<1> QED BY <1>2, <1>5, <1>8 DEF x

\* What a command leaves.
Left(r) == Settle(Unsaved(IF r.ok THEN saveFat(r.fs) ELSE r.fs))

\* A command that has kept the file system sound leaves it intact, saved or not.
LEMMA RunIntact ==
  ASSUME EofIsNoBlock, Careful, NEW f, NEW k, Sound(f, k), DirectorySaved(f, k),
         NEW r, Keeps(f, r.fs, k), Left(r).damage \subseteq Situations
  PROVE  Intact(Left(r), TRUE)
<1> DEFINE h == IF r.ok THEN saveFat(r.fs) ELSE r.fs
<1>1. "load_unsaved" \notin Situations
  BY DEF Careful, Forbidden
<1>2. DOMAIN h = Fields
  BY SaveFatAdds DEF Keeps, Grows
<1>3. Left(r) = Settle(Unsaved(h))
  BY DEF Left
<1>4. Innocent(h)
  <2> HIDE DEF h
  <2>1. Tidied(h, Unsaved(h))
    BY <1>1, <1>2, UnsavedIs
  <2>2. Tidied(Unsaved(h), Settle(Unsaved(h)))
    BY <2>1, SettleIs DEF Tidied
  <2> QED BY <1>3, <2>1, <2>2, AllowedIsInnocent DEF Tidied
<1>5. Settled(h)
  <2>1. CASE r.ok
    BY <1>4, <2>1, SaveSettled
  <2>2. CASE ~r.ok
    BY <1>4, <2>2, KeptSettled
  <2> QED BY <2>1, <2>2
<1> QED BY <1>1, <1>3, <1>5, SettledIntact

\* A new file system.
LEMMA NewFatIntact ==
  ASSUME EofIsNoBlock
  PROVE  Intact(NewFat, TRUE)
<1>1. PICK t : t = NewFat.blocks
  OBVIOUS
<1>2. /\ DOMAIN NewFat = Fields /\ NewFat.data = <<>> /\ NewFat.dir = <<>>
      /\ NewFat.disk = <<>> /\ NewFat.freeBlocks = NumEntries - 2
  BY DEF NewFat, Fields
<1>3. /\ 0 \in Index /\ 1 \in Index /\ Data = Index \ {0, 1}
      /\ t = [b \in Index |-> CASE b = 0 -> Header [] b = 1 -> Eof [] OTHER -> 0]
  BY <1>1, FatAssumption DEF NewFat, Index, Data
<1>4. t \in Links /\ t[1] = Eof /\ \A b \in Data : t[b] = 0
  <2>1. \A b \in Index :
          t[b] \in Index \cup {Eof, Header} /\ (b # 0 => t[b] \in {Eof, 0})
    BY <1>3
  <2>2. Header # Eof /\ Header # 0
    BY <1>3, FatAssumption
  <2> QED BY <1>3, <2>1, <2>2 DEF Links
<1>5. IsChain(t, 1, 1, {0, Eof})
  <2> DEFINE p == [j \in 1..1 |-> 1]
  <2>1. IsPath(t, p, 1)
    BY <1>3 DEF IsPath
  <2>2. p[1] = 1 /\ t[p[1]] \in {0, Eof}
    BY <1>4
  <2> QED BY <2>1, <2>2 DEF IsChain
<1>6. Chain(t, 1) = {1}
  <2>1. PICK E : E = {0, Eof}
    OBVIOUS
  <2>2. PICK n \in Nat \ {0} : n = 1
    OBVIOUS
  <2>3. EndLinks(E) /\ IsChain(t, 1, n, E)
    BY <1>5, <2>1, <2>2, EofEnds
  <2>4. /\ 1 \in Chain(t, 1) /\ IsFiniteSet(Chain(t, 1)) /\ Cardinality(Chain(t, 1)) = n
    BY ONLY <2>3, ChainFacts
  <2> QED BY <2>2, <2>4, FS_Singleton
<1>7. Layout(t, <<>>, 1)
  BY <1>4, <1>5, <1>6 DEF Layout
<1>8. <<>> \in Seq(Entry) /\ Len(<<>>) = 0 /\ DirBlocks(0) = 0
  BY EmptySeq, DirBlocksFacts
<1>9. UsedBlocks(<<>>) = 0
  <2>1. \E u : SumsOf(u, <<>>, 0) /\ UsedBlocks(<<>>) = u[0]
    BY UsedBlocksSums
  <2> QED BY <2>1 DEF SumsOf
<1>10. Cardinality(Free(t) \ {1}) = NumEntries - 2
  <2>1. PICK d : d = <<>>
    OBVIOUS
  <2>2. d \in Seq(Entry) /\ Layout(t, d, 1) /\ UsedBlocks(d) = 0
    BY <1>7, <1>8, <1>9, <2>1
  <2>3. Cardinality(Free(t) \ {1}) = NumEntries - 2 - UsedBlocks(d)
    BY <2>2, FreeIfOneBlock
  <2> QED BY <2>2, <2>3, FatAssumption
<1>11. DataOK(<<>>)
  BY DEF DataOK, Range
<1>12. Lacking(<<>>, 1) = 0
  BY <1>8 DEF Lacking
<1>13. NumEntries - 2 \in Nat
  BY FatAssumption
<1>14. Sound(NewFat, 1)
  BY <1>1, <1>2, <1>7, <1>8, <1>10, <1>11, <1>12, <1>13 DEF Sound
<1>15. DirectorySaved(NewFat, 1)
  BY <1>2, <1>8 DEF DirectorySaved
<1> QED BY <1>2, <1>14, <1>15 DEF Intact

-----------------------------------------------------------------------------
(***************************************************************************)
(* The invariant.                                                          *)
(***************************************************************************)
IInv ==
  /\ mounted \in BOOLEAN /\ user = Contents(fs, mounted)
  /\ fs.damage \subseteq Situations /\ Intact(fs, mounted)

\* A new file system is intact.
LEMMA InitInv ==
  ASSUME EofIsNoBlock, Init
  PROVE  IInv
<1>1. fs.damage = {}
  BY DEF Init, NewFat
<1> QED BY <1>1, NewFatIntact DEF Init, IInv

\* A command on the mounted file system.
LEMMA RunStep ==
  ASSUME EofIsNoBlock, Careful, IInv, NEW r,
         \A k : Sound(fs, k) => Keeps(fs, r.fs, k),
         Run(r), fs'.damage \subseteq Situations
  PROVE  Intact(fs', mounted')
<1>1. fs' = Left(r) /\ mounted /\ mounted' = mounted /\ mounted = TRUE
  BY DEF Run, Left, IInv
<1>2. PICK k : Sound(fs, k) /\ DirectorySaved(fs, k)
  BY <1>1 DEF IInv, Intact
<1>3. Keeps(fs, r.fs, k) /\ Left(r).damage \subseteq Situations
  BY <1>1, <1>2
<1>4. Intact(Left(r), TRUE)
  BY <1>2, <1>3, RunIntact
<1> QED BY <1>1, <1>4

\* A mounted file system is given up.
LEMMA FreeStep ==
  ASSUME Careful, NEW f, NEW k, Sound(f, k), DirectorySaved(f, k), freeFat(f).damage \subseteq Situations
  PROVE  Stored(freeFat(f), k)
BY AllowedIsInnocent, FreeFatStored

\* Every command leaves it so.
LEMMA NextInv ==
  ASSUME EofIsNoBlock, Careful, IInv, Next
  PROVE  IInv'
<1>1. /\ mounted \in BOOLEAN /\ fs.damage \subseteq Situations /\ Intact(fs, mounted)
      /\ Command /\ fs'.damage \subseteq Situations /\ user' = Contents(fs', mounted')
  BY DEF IInv, Next
<1>2. Addr # {} /\ Texts \subseteq Seq(Byte) /\ Lists \subseteq Seq(Name) /\ Granted \subseteq Perms
  BY PennfatAssumption
<1>3. \A text \in Texts \cup {<<>>} : text \in Seq(Content)
  <2>1. Byte \subseteq Content
    BY DEF Content
  <2> QED BY <1>2, <2>1, SeqMonotonic, EmptySeq
<1>4. mounted => \E k : Sound(fs, k) /\ DirectorySaved(fs, k)
  BY <1>1 DEF Intact
<1>5. mounted => /\ DOMAIN fs = Fields /\ DataOK(fs.data) /\ fs.dir \in Seq(Entry)
  BY <1>4 DEF Sound
<1>6. At \in Addr
  BY <1>2 DEF At
<1>7. mounted' \in BOOLEAN /\ Intact(fs', mounted')
  <2>1. ASSUME NEW r, Run(r), \A k : Keeps(fs, r.fs, k)
        PROVE  mounted' \in BOOLEAN /\ Intact(fs', mounted')
    BY <1>1, <2>1, RunStep DEF Run
  <2>2. ASSUME NEW names \in Lists, handleTouchCommand(names)
        PROVE  mounted' \in BOOLEAN /\ Intact(fs', mounted')
    <3>1. PICK r : r = InTurn(LAMBDA f, name : write(f, name, <<>>, TRUE), names)
      OBVIOUS
    <3>2. Run(r)
      BY <2>2, <3>1 DEF handleTouchCommand
    <3>3. ASSUME NEW k PROVE Keeps(fs, r.fs, k)
      <4>1. PICK n \in Nat : n = Len(names)
        BY <1>2, LenProperties
      <4>2. Tasks(TouchTasks(names), n) /\ InTurns(r, n, TouchTasks(names))
        BY <1>2, <3>1, <4>1, TouchTurns
      <4> QED BY <1>2, <1>5, <3>2, <4>2, TurnsKeep DEF Run
    <3> QED BY <2>1, <3>2, <3>3
  <2>3. ASSUME NEW old \in Name, NEW new \in Name, handleMoveCommand(old, new)
        PROVE  mounted' \in BOOLEAN /\ Intact(fs', mounted')
    <3>1. PICK r : r = renameFile(fs, old, new)
      OBVIOUS
    <3>2. Run(r)
      BY <2>3, <3>1 DEF handleMoveCommand
    <3>3. ASSUME NEW k PROVE Keeps(fs, r.fs, k)
      BY <1>5, <3>1, <3>2, RenameKeeps DEF Run
    <3> QED BY <2>1, <3>2, <3>3
  <2>4. ASSUME NEW names \in Lists, handleRemoveCommand(names)
        PROVE  mounted' \in BOOLEAN /\ Intact(fs', mounted')
    <3>1. PICK r : r = InTurn(deleteFileFromFAT, names)
      OBVIOUS
    <3>2. Run(r)
      BY <2>4, <3>1 DEF handleRemoveCommand
    <3>3. ASSUME NEW k PROVE Keeps(fs, r.fs, k)
      <4>1. PICK n \in Nat : n = Len(names)
        BY <1>2, LenProperties
      <4>2. Tasks(RemoveTasks(names), n) /\ InTurns(r, n, RemoveTasks(names))
        BY <1>2, <3>1, <4>1, RemoveTurns
      <4> QED BY <1>2, <1>5, <3>2, <4>2, TurnsKeep DEF Run
    <3> QED BY <2>1, <3>2, <3>3
  <2>5. ASSUME NEW text \in Texts, NEW appending \in BOOLEAN, NEW name \in Name,
               CatLine(text, appending, name)
        PROVE  mounted' \in BOOLEAN /\ Intact(fs', mounted')
    <3>1. PICK r : r = write(fs, name, text, appending)
      OBVIOUS
    <3>2. Run(r)
      BY <2>5, <3>1 DEF CatLine
    <3>3. ASSUME NEW k PROVE Keeps(fs, r.fs, k)
      BY <1>3, <1>5, <1>6, <3>1, <3>2, WriteFileKeeps DEF Run, write
    <3> QED BY <2>1, <3>2, <3>3
  <2>6. ASSUME NEW sources \in Lists, NEW appending \in BOOLEAN, NEW name \in Name,
               CatFiles(sources, appending, name)
        PROVE  mounted' \in BOOLEAN /\ Intact(fs', mounted')
    <3>1. PICK part : part = [i \in DOMAIN sources |->
                                [bytes |-> readFileFromFAT(fs, sources[i]),
                                 append |-> appending \/ i > 1]]
      OBVIOUS
    <3>2. PICK all : all = InTurn(LAMBDA f, p : write(f, name, p.bytes, p.append), part)
      OBVIOUS
    <3>3. PICK r : r = IF \A i \in DOMAIN sources : Readable(fs, sources[i]) THEN all
                       ELSE Failed(fs)
      OBVIOUS
    <3>4. Run(r)
      BY <2>6, <3>1, <3>2, <3>3 DEF CatFiles
    <3>5. mounted /\ DOMAIN fs = Fields
      BY <1>5, <3>4 DEF Run
    <3>6. ASSUME NEW k PROVE Keeps(fs, r.fs, k)
      <4>1. CASE \A i \in DOMAIN sources : Readable(fs, sources[i])
        <5>1. PICK n \in Nat : n = Len(sources) /\ DOMAIN sources = 1..n
          BY <1>2, LenProperties
        <5>2. DOMAIN part = 1..n /\ \A i \in 1..n : part[i].bytes \in Seq(Content)
          BY <1>5, <3>1, <3>5, <4>1, <5>1, ReadOK
        <5>3. Tasks(CatTasks(part, name), n) /\ InTurns(all, n, CatTasks(part, name))
          BY <3>2, <5>2, CatTurns
        <5>4. Keeps(fs, all.fs, k)
          BY <1>2, <3>5, <5>3, TurnsKeep
        <5> QED BY <3>3, <4>1, <5>4
      <4>2. CASE ~ \A i \in DOMAIN sources : Readable(fs, sources[i])
        BY <3>3, <3>5, <4>2, KeepsStill DEF Failed
      <4> QED BY <4>1, <4>2
    <3> QED BY <2>1, <3>4, <3>6
  <2>7. ASSUME NEW text \in Texts, NEW name \in Name, CopyFromHost(text, name)
        PROVE  mounted' \in BOOLEAN /\ Intact(fs', mounted')
    <3>1. PICK f : f = write(fs, name, <<>>, FALSE)
      OBVIOUS
    <3>2. PICK r : r = IF text # <<>> THEN write(fs, name, text, FALSE)
                       ELSE IF f.ok THEN write(f.fs, name, <<>>, FALSE) ELSE f
      OBVIOUS
    <3>3. Run(r)
      BY <2>7, <3>1, <3>2 DEF CopyFromHost
    <3>4. DOMAIN fs = Fields
      BY <1>5, <3>3 DEF Run
    <3>5. ASSUME NEW k PROVE Keeps(fs, r.fs, k)
      <4>1. Keeps(fs, write(fs, name, text, FALSE).fs, k) /\ Keeps(fs, f.fs, k)
        BY <1>3, <1>6, <3>1, <3>4, WriteFileKeeps DEF write
      <4>2. DOMAIN f.fs = Fields
        BY <4>1 DEF Keeps, Grows
      <4>3. Keeps(f.fs, write(f.fs, name, <<>>, FALSE).fs, k)
        BY <1>3, <1>6, <4>2, WriteFileKeeps DEF write
      <4>4. Keeps(fs, write(f.fs, name, <<>>, FALSE).fs, k)
        BY <4>1, <4>3, KeepsOn
      <4> QED BY <3>2, <4>1, <4>4
    <3> QED BY <2>1, <3>3, <3>5
  <2>8. ASSUME NEW source \in Name, NEW name \in Name, CopyFile(source, name)
        PROVE  mounted' \in BOOLEAN /\ Intact(fs', mounted')
    <3>1. PICK bytes : bytes = readFileFromFAT(fs, source)
      OBVIOUS
    <3>2. PICK r : r = IF Readable(fs, source) THEN write(fs, name, bytes, FALSE) ELSE Failed(fs)
      OBVIOUS
    <3>3. Run(r)
      BY <2>8, <3>1, <3>2 DEF CopyFile
    <3>4. mounted
      BY <3>3 DEF Run
    <3>5. ASSUME NEW k PROVE Keeps(fs, r.fs, k)
      <4>1. CASE Readable(fs, source)
        <5>1. bytes \in Seq(Content)
          BY <1>5, <3>1, <3>4, <4>1, ReadOK
        <5>2. Keeps(fs, write(fs, name, bytes, FALSE).fs, k)
          BY <1>5, <1>6, <3>4, <5>1, WriteFileKeeps DEF write
        <5> QED BY <3>2, <4>1, <5>2
      <4>2. CASE ~Readable(fs, source)
        BY <1>5, <3>2, <3>4, <4>2, KeepsStill DEF Failed
      <4> QED BY <4>1, <4>2
    <3> QED BY <2>1, <3>3, <3>5
  <2>9. ASSUME NEW name \in Name, NEW perm \in Granted, handleChmodCommand(name, perm)
        PROVE  mounted' \in BOOLEAN /\ Intact(fs', mounted')
    <3>1. PICK r : r = chmodFile(fs, name, perm)
      OBVIOUS
    <3>2. Run(r)
      BY <2>9, <3>1 DEF handleChmodCommand
    <3>3. ASSUME NEW k PROVE Keeps(fs, r.fs, k)
      BY <1>2, <1>5, <3>1, <3>2, ChmodKeeps DEF Run
    <3> QED BY <2>1, <3>2, <3>3
  <2>10. ASSUME NEW valid \in BOOLEAN, handleMakeFsCommand(valid)
         PROVE  mounted' \in BOOLEAN /\ Intact(fs', mounted')
    <3>1. mounted' = valid
      BY <2>10 DEF handleMakeFsCommand
    <3>2. CASE valid
      BY <2>10, <3>1, <3>2, NewFatIntact DEF handleMakeFsCommand
    <3>3. CASE ~valid /\ ~mounted
      BY <1>1, <2>10, <3>1, <3>3 DEF handleMakeFsCommand
    <3>4. CASE ~valid /\ mounted
      <4>1. fs' = Settle(freeFat(fs))
        BY <2>10, <3>4 DEF handleMakeFsCommand
      <4>2. PICK k : Sound(fs, k) /\ DirectorySaved(fs, k)
        BY <1>4, <3>4
      <4>3. freeFat(fs).damage \subseteq Situations
        BY <1>1, <1>5, <3>4, <4>1, FreeFatAdds, SettleIs DEF Tidied
      <4>4. Stored(freeFat(fs), k)
        BY <4>2, <4>3, FreeStep
      <4>5. Intact(freeFat(fs), FALSE)
        BY <4>4 DEF Intact
      <4>6. Intact(Settle(freeFat(fs)), FALSE)
        BY <4>5, SettleIntact
      <4> QED BY <3>1, <3>4, <4>1, <4>6
    <3> QED BY <3>2, <3>3, <3>4
  <2>11. ASSUME handleMountCommand PROVE mounted' \in BOOLEAN /\ Intact(fs', mounted')
    <3>1. PICK f : f = IF mounted THEN freeFat(fs) ELSE fs
      OBVIOUS
    <3>2. /\ f.damage \subseteq Situations
          /\ fs' = Settle(IF Loadable(f) THEN loadFat(f) ELSE f)
          /\ mounted' = Loadable(f)
      BY <2>11, <3>1 DEF handleMountCommand
    <3>3. \E k : Stored(f, k)
      <4>1. CASE mounted
        BY <1>4, <3>1, <3>2, <4>1, FreeStep
      <4>2. CASE ~mounted
        BY <1>1, <3>1, <4>2 DEF Intact
      <4> QED BY <4>1, <4>2
    <3>4. PICK k : Stored(f, k)
      BY <3>3
    <3>5. mounted' \in BOOLEAN
      BY <3>2 DEF Loadable
    <3>6. CASE ~Loadable(f)
      <4>1. Intact(f, FALSE)
        BY <3>4 DEF Intact
      <4> QED BY <3>2, <3>5, <3>6, <4>1, SettleIntact
    <3>7. CASE Loadable(f)
      <4>1. PICK g : g = loadFat(f)
        OBVIOUS
      <4>2. DOMAIN g = Fields
        BY <3>4, <4>1 DEF loadFat, Fields, Stored
      <4>3. fs' = Settle(g) /\ mounted' = TRUE
        BY <3>2, <3>7, <4>1
      <4>4. g.damage \subseteq Situations
        BY <1>1, <4>2, <4>3, SettleIs DEF Tidied
      <4>5. Innocent(g)
        BY <4>4, AllowedIsInnocent
      <4>6. Sound(g, k) /\ DirectorySaved(g, k) /\ g.dir = g.disk
        BY <3>4, <4>1, <4>5, LoadFatSound DEF Stored
      <4>7. Intact(g, TRUE)
        BY <4>6 DEF Intact
      <4> QED BY <4>3, <4>7, SettleIntact
    <3> QED BY <3>6, <3>7
  <2>12. ASSUME handleUnmountCommand PROVE mounted' \in BOOLEAN /\ Intact(fs', mounted')
    <3>1. PICK g : g = saveFat(fs)
      OBVIOUS
    <3>2. fs' = Settle(freeFat(g)) /\ mounted' = FALSE /\ mounted
      BY <2>12, <3>1 DEF handleUnmountCommand
    <3>3. DOMAIN g = Fields
      BY <1>5, <3>1, <3>2, SaveFatAdds
    <3>4. DOMAIN freeFat(g) = Fields /\ g.damage \subseteq freeFat(g).damage
      BY <3>3, FreeFatAdds
    <3>5. freeFat(g).damage \subseteq Situations
      BY <1>1, <3>2, <3>4, SettleIs DEF Tidied
    <3>6. Innocent(g) /\ Innocent(freeFat(g))
      BY <3>4, <3>5, AllowedIsInnocent
    <3>7. PICK k : Sound(fs, k)
      BY <1>4, <3>2
    <3>8. PICK m : /\ Sound(g, m) /\ g.dir = fs.dir
                   /\ m = (IF DirBlocks(Len(fs.dir)) > 1 THEN DirBlocks(Len(fs.dir)) ELSE 1)
      BY <3>1, <3>6, <3>7, SaveFatSound
    <3>9. g.dir = g.disk
      BY <3>3, <3>6 DEF Innocent, Forbidden, freeFat, Fields, Flag
    <3>10. DirectorySaved(g, m)
      BY <3>8, <3>9 DEF DirectorySaved
    <3>11. Intact(freeFat(g), FALSE)
      BY <3>5, <3>8, <3>10, FreeStep DEF Intact
    <3> QED BY <3>2, <3>11, SettleIntact
  <2>13. ASSUME Quit PROVE mounted' \in BOOLEAN /\ Intact(fs', mounted')
    <3>1. fs' = Settle(freeFat(fs)) /\ mounted' = FALSE /\ mounted
      BY <2>13 DEF Quit
    <3>2. freeFat(fs).damage \subseteq Situations
      BY <1>1, <1>5, <3>1, FreeFatAdds, SettleIs DEF Tidied
    <3>3. Intact(freeFat(fs), FALSE)
      BY <1>4, <3>1, <3>2, FreeStep DEF Intact
    <3> QED BY <3>1, <3>3, SettleIntact
  <2> QED BY <1>1, <2>2, <2>3, <2>4, <2>5, <2>6, <2>7, <2>8, <2>9, <2>10, <2>11, <2>12, <2>13
          DEF Command
<1> QED BY <1>1, <1>7 DEF IInv

-----------------------------------------------------------------------------
(***************************************************************************)
(* What the user sees.                                                     *)
(***************************************************************************)
\* A file by its entry.
FileOf(f, e) == [bytes |-> Bytes(f, e), perm |-> e.perm]

\* The files that may be seen.
Views == [Name -> [bytes: Seq(Content), perm: Perms] \cup {NoFile}]

\* Directory d of f has the files of v, each once.
Shows(f, d, v) ==
  /\ v \in Views
  /\ \A i, j \in DOMAIN d : d[i].name = d[j].name => i = j
  /\ \A i \in DOMAIN d : v[d[i].name] = FileOf(f, d[i])
  /\ \A name \in Name : (\A i \in DOMAIN d : d[i].name # name) => v[name] = NoFile

\* Nothing is not a file.
LEMMA NoFileIsNone ==
  ASSUME NEW f, DataOK(f.data), NEW e \in Entry
  PROVE  FileOf(f, e) \in [bytes: Seq(Content), perm: Perms] /\ FileOf(f, e) # NoFile
<1>1. Bytes(f, e) \in Seq(Content) /\ e.perm \in Perms
  BY BytesOK DEF Entry
<1>2. FileOf(f, e) \in [bytes: Seq(Content), perm: Perms]
  BY <1>1 DEF FileOf
<1>3. NoFile \notin [bytes: Seq(Content), perm: Perms]
  BY PennfatAssumption DEF Content
<1> QED BY <1>2, <1>3

\* It is what Contents yields.
LEMMA ShownContents ==
  ASSUME NEW f, NEW m, NEW d \in Seq(Entry), d = Directory(f, m), NEW v, Shows(f, d, v)
  PROVE  Contents(f, m) = v
<1> DEFINE named(name) == {i \in DOMAIN d : d[i].name = name}
           shown(name) == IF named(name) = {} THEN NoFile
                          ELSE LET e == d[Min(named(name))]
                               IN  [bytes |-> Bytes(f, e), perm |-> e.perm]
<1>1. DOMAIN d \subseteq Nat
  BY Places
<1>2. ASSUME NEW name \in Name PROVE shown(name) = v[name]
  <2>1. CASE named(name) = {}
    BY <2>1 DEF Shows
  <2>2. CASE named(name) # {}
    <3>1. PICK i : i = Min(named(name))
      OBVIOUS
    <3>2. i \in named(name)
      <4>1. named(name) \subseteq Nat
        BY <1>1
      <4> HIDE DEF named
      <4> QED BY <2>2, <3>1, <4>1, MinOfNaturals
    <3>3. i \in DOMAIN d /\ d[i].name = name
      BY <3>2
    <3>4. v[name] = FileOf(f, d[i])
      BY <3>3 DEF Shows
    <3>5. shown(name) = FileOf(f, d[i])
      BY <2>2, <3>1 DEF FileOf
    <3> QED BY <3>4, <3>5
  <2> QED BY <2>1, <2>2
<1>3. Contents(f, m) = [name \in Name |-> shown(name)]
  BY DEF Contents
<1> HIDE DEF shown
<1>4. v = [name \in Name |-> v[name]]
  BY DEF Shows, Views
<1> QED BY <1>2, <1>3, <1>4

\* The file found is the one seen.
LEMMA FoundShown ==
  ASSUME NEW f, NEW k, Sound(f, k), NEW v, Shows(f, f.dir, v), NEW name \in Name
  PROVE  /\ Find(f, name) = 0 <=> v[name] = NoFile
         /\ Find(f, name) # 0 =>
              /\ Find(f, name) \in DOMAIN f.dir /\ f.dir[Find(f, name)].name = name
              /\ v[name].bytes = Bytes(f, f.dir[Find(f, name)])
              /\ v[name].perm = f.dir[Find(f, name)].perm
<1> DEFINE places == {i \in DOMAIN f.dir : f.dir[i].name = name}
<1>1. f.dir \in Seq(Entry) /\ DataOK(f.data)
  BY DEF Sound
<1>2. PICK i : i = Find(f, name)
  OBVIOUS
<1>3. places \subseteq Nat \ {0}
  BY <1>1, Places
<1>4. i = FirstOf(places)
  BY <1>2 DEF Find
<1>5. (i = 0 <=> places = {}) /\ (places # {} => i \in places)
  <2> HIDE DEF places
  <2> QED BY <1>3, <1>4, FirstOfPlaces
<1>6. i = 0 => v[name] = NoFile
  BY <1>5 DEF Shows
<1>7. ASSUME i # 0
      PROVE  /\ v[name] # NoFile /\ i \in DOMAIN f.dir /\ f.dir[i].name = name
             /\ v[name].bytes = Bytes(f, f.dir[i]) /\ v[name].perm = f.dir[i].perm
  <2>1. i \in DOMAIN f.dir /\ f.dir[i].name = name
    BY <1>5, <1>7
  <2>2. v[name] = FileOf(f, f.dir[i])
    BY <2>1 DEF Shows
  <2>3. f.dir[i] \in Entry
    BY <1>1, <2>1, Places
  <2>4. FileOf(f, f.dir[i]) # NoFile
    BY <1>1, <2>3, NoFileIsNone
  <2> QED BY <2>1, <2>2, <2>4 DEF FileOf
<1> QED BY <1>2, <1>6, <1>7

\* Where nothing of the directory changes.
LEMMA ShownStill ==
  ASSUME NEW f, NEW d, NEW v, Shows(f, d, v), NEW h, Preserves(f, d, h)
  PROVE  Shows(h, d, v)
<1>1. \A i \in DOMAIN d : FileOf(h, d[i]) = FileOf(f, d[i])
  BY DEF FileOf, Preserves
<1> QED BY <1>1 DEF Shows

-----------------------------------------------------------------------------
(***************************************************************************)
(* What the functions of file.c make of it.                                *)
(***************************************************************************)
\* v with other bytes under a name.
Held(v, name, bytes) ==
  [v EXCEPT ![name] = [bytes |-> bytes,
                       perm |-> IF v[name] # NoFile THEN v[name].perm ELSE {"r", "w"}]]

\* The files other than i, if only the blocks of i are touched.
LEMMA OthersSpared ==
  ASSUME EofIsNoBlock, NEW f, NEW k, Sound(f, k), NEW i \in DOMAIN f.dir, NEW h,
         Spares(f, h, BlocksOf(f.blocks, f.dir[i]))
  PROVE  \A j \in DOMAIN f.dir : j # i => FileOf(h, f.dir[j]) = FileOf(f, f.dir[j])
<1>1. ASSUME NEW j \in DOMAIN f.dir, j # i PROVE Bytes(h, f.dir[j]) = Bytes(f, f.dir[j])
  <2>1. BlocksOf(f.blocks, f.dir[j]) \cap BlocksOf(f.blocks, f.dir[i]) = {}
    BY <1>1 DEF Sound, Layout
  <2>2. SamePlace(f.dir[j], f.dir[j])
    BY DEF SamePlace
  <2> QED BY <2>1, <2>2, FileSpared
<1> QED BY <1>1 DEF FileOf

\* A file gets other bytes.
LEMMA RewrittenShown ==
  ASSUME EofIsNoBlock, NEW f, NEW k, Sound(f, k), NEW v, Shows(f, f.dir, v),
         NEW h, NEW i, NEW bytes \in Seq(Content), Rewrites(f, h, i, bytes)
  PROVE  Shows(h, h.dir, Held(v, f.dir[i].name, bytes))
<1>1. /\ i \in DOMAIN f.dir /\ f.dir \in Seq(Entry) /\ DataOK(f.data)
      /\ Spares(f, h, BlocksOf(f.blocks, f.dir[i]))
  BY DEF Rewrites, Sound
<1>2. PICK e \in Entry : /\ h.dir = [f.dir EXCEPT ![i] = e]
                         /\ e.name = f.dir[i].name /\ e.perm = f.dir[i].perm
                         /\ Bytes(h, e) = bytes
  BY DEF Rewrites
<1>3. PICK d, x, name : d = f.dir /\ x = h.dir /\ name = f.dir[i].name
  OBVIOUS
<1>4. IsReplaced(d, i, e, x)
  BY <1>1, <1>2, <1>3, Replaced
<1>5. /\ DOMAIN x = DOMAIN d /\ x[i] = e /\ \A j \in DOMAIN d \ {i} : x[j] = d[j]
      /\ \A j \in DOMAIN d : d[j].name \in Name
      /\ i \in DOMAIN d /\ name \in Name /\ e.name = name
  BY <1>1, <1>2, <1>3, <1>4, Places DEF IsReplaced
<1>6. \A j \in DOMAIN d : x[j].name = d[j].name
  BY <1>3, <1>5
<1>7. /\ v \in Views
      /\ \A j, m \in DOMAIN d : d[j].name = d[m].name => j = m
      /\ \A j \in DOMAIN d : v[d[j].name] = FileOf(f, d[j])
      /\ \A y \in Name : (\A j \in DOMAIN d : d[j].name # y) => v[y] = NoFile
  BY <1>3 DEF Shows
<1>8. PICK w : w = Held(v, name, bytes)
  OBVIOUS
<1>9. v[name] # NoFile /\ v[name].perm = e.perm /\ e.perm \in Perms
  <2>1. v[name] = FileOf(f, d[i]) /\ d[i] \in Entry
    BY <1>1, <1>3, <1>5, <1>7, Places
  <2>2. FileOf(f, d[i]) # NoFile
    BY <1>1, <2>1, NoFileIsNone
  <2> QED BY <1>2, <1>3, <2>1, <2>2 DEF FileOf, Entry
<1>10. w = [v EXCEPT ![name] = [bytes |-> bytes, perm |-> e.perm]]
  BY <1>8, <1>9 DEF Held
<1>11. w \in Views /\ w[name] = FileOf(h, e) /\ \A y \in Name \ {name} : w[y] = v[y]
  BY <1>2, <1>5, <1>7, <1>9, <1>10 DEF Views, FileOf
<1>12. ASSUME NEW j \in DOMAIN d PROVE w[x[j].name] = FileOf(h, x[j])
  <2>1. CASE j = i
    BY <1>5, <1>11, <2>1
  <2>2. CASE j # i
    <3>1. x[j] = d[j] /\ d[j].name # name
      BY <1>3, <1>5, <1>7, <2>2
    <3>2. FileOf(h, d[j]) = FileOf(f, d[j])
      BY <1>1, <1>3, <2>2, OthersSpared
    <3> QED BY <1>5, <1>7, <1>11, <3>1, <3>2
  <2> QED BY <2>1, <2>2
<1>13. ASSUME NEW y \in Name, \A j \in DOMAIN x : x[j].name # y PROVE w[y] = NoFile
  BY <1>5, <1>6, <1>7, <1>11, <1>13
<1>14. Shows(h, x, w)
  BY <1>5, <1>6, <1>7, <1>11, <1>12, <1>13 DEF Shows
<1> QED BY <1>3, <1>8, <1>14

\* There is a new file.
LEMMA MadeShown ==
  ASSUME EofIsNoBlock, NEW f, NEW k, Sound(f, k), NEW v, Shows(f, f.dir, v),
         NEW h, NEW name \in Name, v[name] = NoFile,
         NEW bytes \in Seq(Content), Makes(f, h, name, bytes)
  PROVE  Shows(h, h.dir, Held(v, name, bytes))
<1>1. /\ f.dir \in Seq(Entry) /\ DataOK(f.data) /\ Spares(f, h, {})
  BY DEF Makes, Sound
<1>2. PICK e \in Entry : /\ h.dir = Append(f.dir, e)
                         /\ e.name = name /\ e.perm = {"r", "w"} /\ Bytes(h, e) = bytes
  BY DEF Makes
<1>3. PICK d, x : d = f.dir /\ x = h.dir
  OBVIOUS
<1>4. PICK n : n = Len(d) + 1
  OBVIOUS
<1>5. /\ DOMAIN x = DOMAIN d \cup {n} /\ n \notin DOMAIN d
      /\ x[n] = e /\ \A j \in DOMAIN d : x[j] = d[j]
      /\ \A j \in DOMAIN d : d[j].name \in Name /\ d[j] \in Entry
  <2>1. IsAppended(d, e, x)
    BY <1>1, <1>2, <1>3, Appended
  <2> QED BY <1>1, <1>3, <1>4, <2>1, Places DEF IsAppended
<1>6. /\ v \in Views
      /\ \A j, m \in DOMAIN d : d[j].name = d[m].name => j = m
      /\ \A j \in DOMAIN d : v[d[j].name] = FileOf(f, d[j])
      /\ \A y \in Name : (\A j \in DOMAIN d : d[j].name # y) => v[y] = NoFile
  BY <1>3 DEF Shows
<1>7. \A j \in DOMAIN d : d[j].name # name
  BY <1>1, <1>5, <1>6, NoFileIsNone
<1>8. PICK w : w = Held(v, name, bytes)
  OBVIOUS
<1>9. w = [v EXCEPT ![name] = [bytes |-> bytes, perm |-> {"r", "w"}]]
  BY <1>8 DEF Held
<1>10. w \in Views /\ w[name] = FileOf(h, e) /\ \A y \in Name \ {name} : w[y] = v[y]
  BY <1>2, <1>6, <1>9 DEF Views, FileOf, Perms
<1>11. ASSUME NEW j \in DOMAIN x PROVE w[x[j].name] = FileOf(h, x[j])
  <2>1. CASE j = n
    BY <1>2, <1>5, <1>10, <2>1
  <2>2. CASE j \in DOMAIN d
    <3>1. x[j] = d[j] /\ d[j].name # name /\ d[j].name \in Name
      BY <1>5, <1>7, <2>2
    <3>2. Bytes(h, d[j]) = Bytes(f, d[j])
      <4>1. SamePlace(d[j], d[j]) /\ BlocksOf(f.blocks, d[j]) \cap {} = {}
        BY DEF SamePlace
      <4> QED BY <1>1, <1>3, <2>2, <4>1, FileSpared
    <3> QED BY <1>6, <1>10, <2>2, <3>1, <3>2 DEF FileOf
  <2> QED BY <1>5, <2>1, <2>2
<1>12. \A j, m \in DOMAIN x : x[j].name = x[m].name => j = m
  BY <1>2, <1>5, <1>6, <1>7
<1>13. ASSUME NEW y \in Name, \A j \in DOMAIN x : x[j].name # y PROVE w[y] = NoFile
  BY <1>2, <1>5, <1>6, <1>10, <1>13
<1>14. Shows(h, x, w)
  BY <1>10, <1>11, <1>12, <1>13 DEF Shows
<1> QED BY <1>3, <1>8, <1>14

\* A file is gone.
LEMMA RemovedShown ==
  ASSUME EofIsNoBlock, NEW f, NEW k, Sound(f, k), NEW v, Shows(f, f.dir, v),
         NEW h, NEW i, Removes(f, h, i)
  PROVE  Shows(h, h.dir, [v EXCEPT ![f.dir[i].name] = NoFile])
<1>1. /\ i \in DOMAIN f.dir /\ f.dir \in Seq(Entry)
      /\ Spares(f, h, BlocksOf(f.blocks, f.dir[i])) /\ h.dir = RemoveAt(f.dir, i)
  BY DEF Removes, Sound
<1>2. PICK d, x, name : d = f.dir /\ x = h.dir /\ name = f.dir[i].name
  OBVIOUS
<1>3. PICK n : n = Len(d)
  OBVIOUS
<1>4. /\ n \in Nat /\ n - 1 \in Nat /\ DOMAIN d = 1..n /\ DOMAIN x = 1..(n - 1)
      /\ \A j \in 1..(n - 1) : x[j] = IF j < i THEN d[j] ELSE d[j + 1]
  BY <1>1, <1>2, <1>3, Removed, Places
<1>5. /\ i \in 1..n /\ name \in Name /\ d[i].name = name
      /\ \A j \in 1..n : d[j].name \in Name
  BY <1>1, <1>2, <1>4, Places
<1>6. /\ v \in Views
      /\ \A j, m \in 1..n : d[j].name = d[m].name => j = m
      /\ \A j \in 1..n : v[d[j].name] = FileOf(f, d[j])
      /\ \A y \in Name : (\A j \in 1..n : d[j].name # y) => v[y] = NoFile
  BY <1>2, <1>4 DEF Shows
<1>7. PICK w : w = [v EXCEPT ![name] = NoFile]
  OBVIOUS
<1>8. w \in Views /\ w[name] = NoFile /\ \A y \in Name \ {name} : w[y] = v[y]
  BY <1>5, <1>6, <1>7 DEF Views
<1>9. \A j \in 1..(n - 1) : \E m \in 1..n : m # i /\ x[j] = d[m] /\ m = IF j < i THEN j ELSE j + 1
  BY <1>4, <1>5
<1>10. \A m \in 1..n : m # i => \E j \in 1..(n - 1) : x[j] = d[m]
  <2>1. ASSUME NEW m \in 1..n, m < i PROVE \E j \in 1..(n - 1) : x[j] = d[m]
    <3>1. m \in 1..(n - 1)
      BY <1>4, <1>5, <2>1
    <3> QED BY <1>4, <2>1, <3>1
  <2>2. ASSUME NEW m \in 1..n, m > i PROVE \E j \in 1..(n - 1) : x[j] = d[m]
    <3>1. m - 1 \in 1..(n - 1) /\ ~(m - 1 < i) /\ (m - 1) + 1 = m
      BY <1>4, <1>5, <2>2
    <3>2. x[m - 1] = d[m]
      BY <1>4, <3>1
    <3> QED BY <3>1, <3>2
  <2>3. \A m \in 1..n : m # i => m < i \/ m > i
    BY <1>5
  <2> QED BY <2>1, <2>2, <2>3
<1>11. ASSUME NEW j \in DOMAIN x PROVE w[x[j].name] = FileOf(h, x[j])
  <2>1. PICK m \in 1..n : m # i /\ x[j] = d[m]
    BY <1>4, <1>9
  <2>2. d[m].name # name /\ d[m].name \in Name
    BY <1>5, <1>6, <2>1
  <2>3. FileOf(h, d[m]) = FileOf(f, d[m])
    BY <1>1, <1>2, <1>4, <2>1, OthersSpared
  <2> QED BY <1>6, <1>8, <2>1, <2>2, <2>3
<1>12. ASSUME NEW j \in DOMAIN x, NEW m \in DOMAIN x, x[j].name = x[m].name PROVE j = m
  <2>1. PICK a \in 1..n : x[j] = d[a] /\ a = IF j < i THEN j ELSE j + 1
    BY <1>4, <1>9
  <2>2. PICK b \in 1..n : x[m] = d[b] /\ b = IF m < i THEN m ELSE m + 1
    BY <1>4, <1>9
  <2>3. a = b
    BY <1>6, <1>12, <2>1, <2>2
  <2> QED BY <1>4, <1>5, <2>1, <2>2, <2>3
<1>13. ASSUME NEW y \in Name, \A j \in DOMAIN x : x[j].name # y PROVE w[y] = NoFile
  <2>1. CASE y = name
    BY <1>8, <2>1
  <2>2. CASE y # name
    <3>1. \A m \in 1..n : d[m].name # y
      BY <1>4, <1>5, <1>10, <1>13, <2>2
    <3> QED BY <1>6, <1>8, <2>2, <3>1
  <2> QED BY <2>1, <2>2
<1>14. Shows(h, x, w)
  BY <1>8, <1>11, <1>12, <1>13 DEF Shows
<1> QED BY <1>2, <1>7, <1>14

\* v with the file old under another name, or with other permissions.
Relabelled(v, old, new, perm) ==
  [name \in Name |-> IF name = new THEN [bytes |-> v[old].bytes, perm |-> perm]
                     ELSE IF name = old THEN NoFile ELSE v[name]]

\* An entry gets another name or other permissions.
LEMMA RelabelledShown ==
  ASSUME NEW f, f.dir \in Seq(Entry), DataOK(f.data), NEW v, Shows(f, f.dir, v),
         NEW i \in DOMAIN f.dir, NEW e \in Entry, SamePlace(f.dir[i], e),
         e.name = f.dir[i].name \/ v[e.name] = NoFile,
         NEW h, h.blocks = f.blocks, h.data = f.data, IsReplaced(f.dir, i, e, h.dir)
  PROVE  Shows(h, h.dir, Relabelled(v, f.dir[i].name, e.name, e.perm))
<1>1. PICK d, x, name : d = f.dir /\ x = h.dir /\ name = f.dir[i].name
  OBVIOUS
<1>2. /\ DOMAIN x = DOMAIN d /\ x[i] = e /\ \A j \in DOMAIN d \ {i} : x[j] = d[j]
      /\ \A j \in DOMAIN d : d[j].name \in Name /\ d[j] \in Entry
      /\ i \in DOMAIN d /\ d[i].name = name /\ e.name \in Name /\ e.perm \in Perms
  <2>1. \A j \in DOMAIN d : d[j].name \in Name /\ d[j] \in Entry
    BY <1>1, Places
  <2>2. e.name \in Name /\ e.perm \in Perms
    BY DEF Entry
  <2> QED BY <1>1, <2>1, <2>2 DEF IsReplaced
<1>3. /\ v \in Views
      /\ \A j, m \in DOMAIN d : d[j].name = d[m].name => j = m
      /\ \A j \in DOMAIN d : v[d[j].name] = FileOf(f, d[j])
      /\ \A y \in Name : (\A j \in DOMAIN d : d[j].name # y) => v[y] = NoFile
  BY <1>1 DEF Shows
<1>4. \A j \in DOMAIN d : v[d[j].name] # NoFile
  BY <1>2, <1>3, NoFileIsNone
<1>5. \A j \in DOMAIN d \ {i} : d[j].name # name /\ d[j].name # e.name
  BY <1>1, <1>2, <1>3, <1>4
<1>6. \A y : Bytes(h, y) = Bytes(f, y)
  BY DEF Bytes, Cells
<1>7. Bytes(f, e) = Bytes(f, d[i])
  BY <1>1 DEF Bytes, Cells, SamePlace
<1>8. v[name] = FileOf(f, d[i]) /\ v[name] \in [bytes: Seq(Content), perm: Perms]
  BY <1>2, <1>3, NoFileIsNone
<1>9. PICK w : w = Relabelled(v, name, e.name, e.perm)
  OBVIOUS
<1>10. /\ w \in Views /\ w[e.name] = FileOf(h, e)
       /\ name # e.name => w[name] = NoFile
       /\ \A y \in Name : y # name /\ y # e.name => w[y] = v[y]
  <2>1. PICK bytes : bytes = v[name].bytes
    OBVIOUS
  <2>2. bytes \in Seq(Content) /\ bytes = Bytes(h, e)
    BY <1>6, <1>7, <1>8, <2>1 DEF FileOf
  <2>3. [bytes |-> bytes, perm |-> e.perm] \in [bytes: Seq(Content), perm: Perms]
    BY <1>2, <2>2
  <2>4. w = [y \in Name |-> IF y = e.name THEN [bytes |-> bytes, perm |-> e.perm]
                            ELSE IF y = name THEN NoFile ELSE v[y]]
    BY <1>9, <2>1 DEF Relabelled
  <2>5. [bytes |-> bytes, perm |-> e.perm] = FileOf(h, e)
    BY <2>2 DEF FileOf
  <2>6. w \in Views
    BY <1>3, <2>3, <2>4 DEF Views
  <2> QED BY <1>2, <2>4, <2>5, <2>6
<1>11. ASSUME NEW j \in DOMAIN x PROVE w[x[j].name] = FileOf(h, x[j])
  <2>1. CASE j = i
    BY <1>2, <1>10, <2>1
  <2>2. CASE j # i
    <3>1. x[j] = d[j] /\ w[x[j].name] = v[d[j].name]
      BY <1>2, <1>5, <1>10, <2>2
    <3> QED BY <1>2, <1>3, <1>6, <3>1 DEF FileOf
  <2> QED BY <2>1, <2>2
<1>12. \A j, m \in DOMAIN x : x[j].name = x[m].name => j = m
  BY <1>2, <1>3, <1>5
<1>13. ASSUME NEW y \in Name, \A j \in DOMAIN x : x[j].name # y PROVE w[y] = NoFile
  <2>1. y # e.name
    BY <1>2, <1>13
  <2>2. CASE y = name
    BY <1>10, <2>1, <2>2
  <2>3. CASE y # name
    <3>1. \A j \in DOMAIN d : d[j].name # y
      BY <1>2, <1>13, <2>3
    <3> QED BY <1>3, <1>10, <2>1, <2>3, <3>1
  <2> QED BY <2>2, <2>3
<1>14. Shows(h, x, w)
  BY <1>10, <1>11, <1>12, <1>13 DEF Shows
<1> QED BY <1>1, <1>9, <1>14

\* chmod.
LEMMA ChmodShown ==
  ASSUME NEW f, NEW k, Sound(f, k), NEW v, Shows(f, f.dir, v), NEW name \in Name,
         NEW perm \in Perms, NEW r, r = chmodFile(f, name, perm)
  PROVE  /\ ~r.ok => r.fs = f
         /\ r.ok => /\ v[name] # NoFile
                    /\ Shows(r.fs, r.fs.dir, [v EXCEPT ![name].perm = perm])
<1>1. PICK i : i = Find(f, name)
  OBVIOUS
<1>2. f.dir \in Seq(Entry) /\ DataOK(f.data) /\ DOMAIN f = Fields
  BY DEF Sound
<1>3. CASE i = 0
  BY <1>1, <1>3 DEF chmodFile, Failed
<1>4. CASE i # 0
  <2>1. r = [ok |-> TRUE, fs |-> [f EXCEPT !.dir[i].perm = perm]]
    BY <1>1, <1>4 DEF chmodFile, Done
  <2>2. v[name] # NoFile /\ i \in DOMAIN f.dir /\ f.dir[i].name = name
    BY <1>1, <1>4, FoundShown
  <2>3. PICK e : e = [f.dir[i] EXCEPT !.perm = perm]
    OBVIOUS
  <2>4. PICK h : h = [f EXCEPT !.dir[i].perm = perm]
    OBVIOUS
  <2>5. h.blocks = f.blocks /\ h.data = f.data /\ h.dir = [f.dir EXCEPT ![i] = e]
    BY <1>2, <2>3, <2>4 DEF Fields
  <2>6. e \in Entry /\ e.name = name /\ e.perm = perm /\ SamePlace(f.dir[i], e)
    <3>1. f.dir[i] \in Entry
      BY <1>2, <2>2, Places
    <3> QED BY <2>2, <2>3, <3>1 DEF Entry, SamePlace
  <2>7. IsReplaced(f.dir, i, e, h.dir)
    BY <1>2, <2>2, <2>5, <2>6, Replaced
  <2>8. Shows(h, h.dir, Relabelled(v, f.dir[i].name, e.name, e.perm))
    BY <1>2, <2>2, <2>5, <2>6, <2>7, RelabelledShown
  <2>9. Relabelled(v, name, name, perm) = [v EXCEPT ![name].perm = perm]
    <3>1. v \in Views /\ v[name] \in [bytes: Seq(Content), perm: Perms]
      BY <2>2 DEF Shows, Views
    <3>2. [v[name] EXCEPT !.perm = perm] = [bytes |-> v[name].bytes, perm |-> perm]
      BY <3>1
    <3>3. [v EXCEPT ![name].perm = perm] = [v EXCEPT ![name] = [bytes |-> v[name].bytes, perm |-> perm]]
      BY <3>2
    <3>4. PICK e1 : e1 = [bytes |-> v[name].bytes, perm |-> perm]
      OBVIOUS
    <3>5. [v EXCEPT ![name] = e1] = [y \in Name |-> IF y = name THEN e1 ELSE v[y]]
      BY <3>1 DEF Views
    <3>6. Relabelled(v, name, name, perm) = [y \in Name |-> IF y = name THEN e1 ELSE v[y]]
      BY <3>4 DEF Relabelled
    <3> QED BY <3>3, <3>4, <3>5, <3>6
  <2>10. Shows(h, h.dir, [v EXCEPT ![name].perm = perm])
    BY <2>2, <2>6, <2>8, <2>9
  <2>11. r.ok /\ r.fs = h
    BY <2>1, <2>4
  <2> QED BY <2>2, <2>10, <2>11
<1> QED BY <1>3, <1>4

\* v with the file old under the name new.
Moved(v, old, new) == [v EXCEPT ![new] = v[old], ![old] = NoFile]

\* It is the same file there.
LEMMA MovedIs ==
  ASSUME NEW v \in Views, NEW old \in Name, NEW new \in Name, old # new, v[old] # NoFile
  PROVE  /\ Relabelled(v, old, new, v[old].perm) = Moved(v, old, new)
         /\ Relabelled([v EXCEPT ![new] = NoFile], old, new, v[old].perm) = Moved(v, old, new)
<1>1. v[old] \in [bytes: Seq(Content), perm: Perms]
  BY DEF Views
<1>2. [bytes |-> v[old].bytes, perm |-> v[old].perm] = v[old]
  BY <1>1
<1>3. PICK u : u = [v EXCEPT ![new] = NoFile]
  OBVIOUS
<1>4. u[old] = v[old] /\ \A name \in Name \ {new} : u[name] = v[name]
  BY <1>3 DEF Views
<1>5. Moved(v, old, new) = [name \in Name |-> IF name = new THEN v[old]
                                              ELSE IF name = old THEN NoFile ELSE v[name]]
  BY DEF Moved, Views
<1>6. Relabelled(v, old, new, v[old].perm)
        = [name \in Name |-> IF name = new THEN v[old]
                             ELSE IF name = old THEN NoFile ELSE v[name]]
  BY <1>2 DEF Relabelled
<1>7. Relabelled(u, old, new, v[old].perm)
        = [name \in Name |-> IF name = new THEN v[old]
                             ELSE IF name = old THEN NoFile ELSE u[name]]
  BY <1>2, <1>4 DEF Relabelled
<1>8. [name \in Name |-> IF name = new THEN v[old] ELSE IF name = old THEN NoFile ELSE u[name]]
        = [name \in Name |-> IF name = new THEN v[old]
                             ELSE IF name = old THEN NoFile ELSE v[name]]
  BY <1>4
<1> QED BY <1>3, <1>5, <1>6, <1>7, <1>8

\* Where an entry is when another has gone.
LEMMA ReplacedRemoved ==
  ASSUME NEW d \in Seq(Entry), NEW i \in DOMAIN d, NEW j \in DOMAIN d, i # j, NEW e \in Entry,
         NEW m, m = IF i < j THEN i ELSE i - 1
  PROVE  /\ m \in DOMAIN RemoveAt(d, j) /\ RemoveAt(d, j)[m] = d[i]
         /\ IsReplaced(RemoveAt(d, j), m, e, RemoveAt([d EXCEPT ![i] = e], j))
<1>1. PICK x : x = [d EXCEPT ![i] = e]
  OBVIOUS
<1>2. IsReplaced(d, i, e, x)
  BY <1>1, Replaced
<1>3. PICK n : n = Len(d)
  OBVIOUS
<1>4. n \in Nat /\ DOMAIN d = 1..n /\ i \in 1..n /\ j \in 1..n
  BY <1>3, Places
<1>5. x \in Seq(Entry) /\ Len(x) = n /\ DOMAIN x = 1..n
  BY <1>2, <1>3, <1>4 DEF IsReplaced
<1>6. PICK a, b : a = RemoveAt(d, j) /\ b = RemoveAt(x, j)
  OBVIOUS
<1>7. /\ a \in Seq(Entry) /\ Len(a) = n - 1 /\ DOMAIN a = 1..(n - 1)
      /\ \A l \in 1..(n - 1) : a[l] = IF l < j THEN d[l] ELSE d[l + 1]
  BY <1>3, <1>4, <1>6, Removed
<1>8. /\ b \in Seq(Entry) /\ Len(b) = n - 1 /\ DOMAIN b = 1..(n - 1)
      /\ \A l \in 1..(n - 1) : b[l] = IF l < j THEN x[l] ELSE x[l + 1]
  BY <1>4, <1>5, <1>6, Removed
<1>9. m \in 1..(n - 1) /\ (IF m < j THEN m ELSE m + 1) = i
  BY <1>4
<1>10. a[m] = d[i] /\ b[m] = e
  BY <1>2, <1>7, <1>8, <1>9 DEF IsReplaced
<1>11. ASSUME NEW l \in 1..(n - 1), l # m PROVE b[l] = a[l]
  <2>1. PICK c : c = IF l < j THEN l ELSE l + 1
    OBVIOUS
  <2>2. c \in 1..n /\ c # i
    BY <1>4, <1>11, <2>1
  <2>3. x[c] = d[c]
    BY <1>2, <1>4, <2>2 DEF IsReplaced
  <2> QED BY <1>7, <1>8, <2>1, <2>3
<1>12. IsReplaced(a, m, e, b)
  BY <1>7, <1>8, <1>10, <1>11 DEF IsReplaced
<1> QED BY <1>1, <1>6, <1>7, <1>9, <1>10, <1>12

\* mv, neither of a file to itself nor onto one that must not be written.
LEMMA RenameShown ==
  ASSUME EofIsNoBlock, NEW f, NEW k, Sound(f, k), NEW v, Shows(f, f.dir, v),
         NEW old \in Name, NEW new \in Name, NEW r, r = renameFile(f, old, new),
         "mv_over_readonly" \notin r.fs.damage, "mv_to_itself" \notin r.fs.damage
  PROVE  /\ ~r.ok => r.fs = f
         /\ r.ok => /\ old # new /\ v[old] # NoFile /\ "w" \in v[old].perm
                    /\ v[new] # NoFile => "w" \in v[new].perm
                    /\ Shows(r.fs, r.fs.dir, Moved(v, old, new))
<1> DEFINE i == Find(f, old)
           j == Find(f, new)
           e == [f.dir[i] EXCEPT !.name = new]
           g == [f EXCEPT !.dir[i].name = new]
           h == Delete(g, j)
           S == Flag("mv_to_itself", i = j)
<1>0. f.dir \in Seq(Entry) /\ DataOK(f.data) /\ DOMAIN f = Fields
  BY DEF Sound
<1>1. \/ (i = 0 \/ "w" \notin f.dir[i].perm) /\ r = [ok |-> FALSE, fs |-> f]
      \/ i # 0 /\ "w" \in f.dir[i].perm /\ j = 0 /\ r = [ok |-> TRUE, fs |-> g]
      \/ /\ i # 0 /\ "w" \in f.dir[i].perm /\ j # 0 /\ "w" \in f.dir[j].perm
         /\ r = [ok |-> TRUE, fs |-> [h EXCEPT !.damage = @ \cup S]]
      \/ r = [ok |-> TRUE, fs |-> [g EXCEPT !.damage = @ \cup {"mv_over_readonly"}]]
  <2>1. CASE i = 0 \/ "w" \notin f.dir[i].perm
    BY <2>1 DEF renameFile, Failed
  <2>2. CASE ~(i = 0 \/ "w" \notin f.dir[i].perm) /\ j = 0
    BY <2>2 DEF renameFile, Done
  <2>3. CASE ~(i = 0 \/ "w" \notin f.dir[i].perm) /\ j # 0 /\ "w" \in f.dir[j].perm
    BY <1>0, <2>3 DEF renameFile, Done, Delete
  <2>4. CASE ~(i = 0 \/ "w" \notin f.dir[i].perm) /\ j # 0 /\ "w" \notin f.dir[j].perm
    <3>1. "w" \notin g.dir[j].perm \/ "w" \notin f.dir[j].perm
      BY <2>4
    <3> QED BY <2>4 DEF renameFile, Done
  <2> QED BY <2>1, <2>2, <2>3, <2>4
<1>2. /\ g.blocks = f.blocks /\ g.data = f.data /\ g.dir = [f.dir EXCEPT ![i] = e]
      /\ DOMAIN g = Fields
  BY <1>0 DEF Fields
<1>3. /\ h.blocks = Released(g, j) /\ h.data = g.data /\ h.dir = RemoveAt(g.dir, j)
      /\ DOMAIN h = Fields
  <2> HIDE DEF g
  <2> QED BY <1>2 DEF Delete, Released, Fields
<1> HIDE DEF g, h
<1>4. "mv_over_readonly" \in [g EXCEPT !.damage = @ \cup {"mv_over_readonly"}].damage
  BY <1>2 DEF Fields
<1>5. [h EXCEPT !.damage = @ \cup S].damage = h.damage \cup S
  BY <1>3 DEF Fields
<1>6. /\ [h EXCEPT !.damage = @ \cup S].dir = h.dir
      /\ [h EXCEPT !.damage = @ \cup S].blocks = h.blocks
      /\ [h EXCEPT !.damage = @ \cup S].data = h.data
  BY <1>3 DEF Fields
<1>7. /\ i # 0 => /\ i \in DOMAIN f.dir /\ f.dir[i].name = old /\ v[old] # NoFile
                  /\ v[old].perm = f.dir[i].perm
      /\ j # 0 => /\ j \in DOMAIN f.dir /\ f.dir[j].name = new /\ v[new] # NoFile
                  /\ v[new].perm = f.dir[j].perm
      /\ j = 0 => v[new] = NoFile
  BY FoundShown
<1> HIDE DEF i, j
<1>8. i # 0 => /\ f.dir[i] \in Entry
               /\ e \in Entry /\ e.name = new /\ e.perm = f.dir[i].perm /\ SamePlace(f.dir[i], e)
  BY <1>0, <1>7, Places DEF Entry, SamePlace
<1> HIDE DEF e
<1>9. v \in Views
  BY DEF Shows
<1>10. CASE (i = 0 \/ "w" \notin f.dir[i].perm) /\ r = [ok |-> FALSE, fs |-> f]
  BY <1>10
<1>11. CASE i # 0 /\ "w" \in f.dir[i].perm /\ j = 0 /\ r = [ok |-> TRUE, fs |-> g]
  <2>1. r.ok /\ r.fs = g
    BY <1>11
  <2>2. IsReplaced(f.dir, i, e, g.dir)
    BY <1>0, <1>2, <1>7, <1>8, <1>11, Replaced
  <2>3. Shows(g, g.dir, Relabelled(v, f.dir[i].name, e.name, e.perm))
    BY <1>0, <1>2, <1>7, <1>8, <1>11, <2>2, RelabelledShown
  <2>4. old # new /\ v[old] # NoFile /\ v[new] = NoFile /\ "w" \in v[old].perm
    BY <1>7, <1>11
  <2>5. Relabelled(v, old, new, v[old].perm) = Moved(v, old, new)
    BY <1>9, <2>4, MovedIs
  <2>6. Shows(g, g.dir, Moved(v, old, new))
    BY <1>7, <1>8, <1>11, <2>3, <2>5
  <2> QED BY <2>1, <2>4, <2>6
<1>12. CASE /\ i # 0 /\ "w" \in f.dir[i].perm /\ j # 0 /\ "w" \in f.dir[j].perm
            /\ r = [ok |-> TRUE, fs |-> [h EXCEPT !.damage = @ \cup S]]
  <2>0. PICK q : q = [h EXCEPT !.damage = @ \cup S]
    OBVIOUS
  <2> HIDE DEF S
  <2>18. r.ok /\ r.fs = q
    BY <1>12, <2>0
  <2>1. i # j
    <3>1. "mv_to_itself" \notin S
      BY <1>5, <2>0, <2>18
    <3> QED BY <3>1 DEF S, Flag
  <2>2. old # new
    BY <1>7, <1>12, <2>1 DEF Shows
  <2>3. PICK x : x = Delete(f, j)
    OBVIOUS
  <2>4. /\ x.blocks = Released(f, j) /\ x.data = f.data /\ x.dir = RemoveAt(f.dir, j)
    BY <1>0, <2>3 DEF Delete, Released, Fields
  <2>5. g.dir[j] = f.dir[j]
    BY <1>2, <1>7, <1>12, <2>1
  <2>6. h.blocks = x.blocks /\ h.data = x.data
    BY <1>2, <1>3, <2>4, <2>5 DEF Released
  <2>7. PICK u : u = [v EXCEPT ![new] = NoFile]
    OBVIOUS
  <2>8. Shows(x, x.dir, u)
    <3>1. Removes(f, x, j)
      BY <1>7, <1>12, <2>3, DeleteRemoves
    <3>2. Shows(x, x.dir, [v EXCEPT ![f.dir[j].name] = NoFile])
      BY <3>1, RemovedShown
    <3> QED BY <1>7, <1>12, <2>7, <3>2
  <2>9. PICK m : m = IF i < j THEN i ELSE i - 1
    OBVIOUS
  <2>10. /\ m \in DOMAIN x.dir /\ x.dir[m] = f.dir[i] /\ IsReplaced(x.dir, m, e, h.dir)
    BY <1>0, <1>2, <1>3, <1>7, <1>8, <1>12, <2>1, <2>4, <2>9, ReplacedRemoved
  <2>11. x.dir \in Seq(Entry)
    BY <1>0, <1>7, <1>12, <2>4, Removed
  <2>12. u[new] = NoFile /\ u[old] = v[old]
    BY <1>9, <2>2, <2>7 DEF Views
  <2>13. Shows(h, h.dir, Relabelled(u, x.dir[m].name, e.name, e.perm))
    <3>1. DataOK(x.data) /\ SamePlace(x.dir[m], e) /\ u[e.name] = NoFile
      BY <1>0, <1>8, <1>12, <2>4, <2>10, <2>12
    <3> QED BY <1>8, <1>12, <2>6, <2>8, <2>10, <2>11, <3>1, RelabelledShown
  <2>14. Relabelled(u, old, new, v[old].perm) = Moved(v, old, new)
    BY <1>7, <1>9, <1>12, <2>2, <2>7, MovedIs
  <2>15. Shows(h, h.dir, Moved(v, old, new))
    BY <1>7, <1>8, <1>12, <2>10, <2>13, <2>14
  <2>16. Shows(q, q.dir, Moved(v, old, new))
    <3>1. q.dir = h.dir /\ q.blocks = h.blocks /\ q.data = h.data
      BY <1>6, <2>0
    <3>2. Preserves(h, h.dir, q)
      BY <3>1, SameBytes
    <3> QED BY <2>15, <3>1, <3>2, ShownStill
  <2>17. v[old] # NoFile /\ "w" \in v[old].perm /\ "w" \in v[new].perm
    BY <1>7, <1>12
  <2>19. Shows(r.fs, r.fs.dir, Moved(v, old, new))
    BY <2>16, <2>18
  <2> QED BY <1>7, <1>12, <2>18, <2>2, <2>17, <2>19
<1>13. CASE r = [ok |-> TRUE, fs |-> [g EXCEPT !.damage = @ \cup {"mv_over_readonly"}]]
  <2>1. PICK q : q = [g EXCEPT !.damage = @ \cup {"mv_over_readonly"}]
    OBVIOUS
  <2>2. r.fs = q
    BY <1>13, <2>1
  <2> QED BY <1>4, <2>1, <2>2
<1> QED BY <1>1, <1>10, <1>11, <1>12, <1>13

\* The bytes seen under a name, and whether they may be written.
BytesIn(v, name) == IF v[name] # NoFile THEN v[name].bytes ELSE <<>>
MayWrite(v, name) == v[name] # NoFile => "w" \in v[name].perm

\* What a write puts under a name.
Put(v, name, bytes, appending) ==
  Held(v, name, (IF appending THEN BytesIn(v, name) ELSE <<>>) \o bytes)

\* They are bytes.
LEMMA BytesInOK ==
  ASSUME NEW v \in Views, NEW name \in Name
  PROVE  BytesIn(v, name) \in Seq(Content)
<1>1. v[name] = NoFile \/ v[name].bytes \in Seq(Content)
  BY DEF Views
<1> QED BY <1>1, EmptySeq DEF BytesIn

\* A write that ends with r puts the bytes there, or does nothing.
Writes(r, f, v, name, bytes, appending) ==
  /\ ~r.ok => r.fs = f
  /\ r.ok => MayWrite(v, name) /\ Shows(r.fs, r.fs.dir, Put(v, name, bytes, appending))

LEMMA WriteShown ==
  ASSUME EofIsNoBlock, Addr # {}, NEW f, NEW k, Sound(f, k), NEW v, Shows(f, f.dir, v),
         NEW name \in Name, NEW bytes \in Seq(Content), NEW appending,
         NEW r, r = write(f, name, bytes, appending), Innocent(r.fs)
  PROVE  Writes(r, f, v, name, bytes, appending)
<1> SUFFICES /\ ~r.ok => r.fs = f
             /\ r.ok => /\ MayWrite(v, name)
                        /\ Shows(r.fs, r.fs.dir, Put(v, name, bytes, appending))
  BY DEF Writes
<1> DEFINE i == Find(f, name)
<1>1. At \in Addr
  BY DEF At
<1>2. \/ i = 0 /\ r = Create(f, name, bytes, At)
      \/ i # 0 /\ "w" \notin f.dir[i].perm /\ r = Failed(f)
      \/ i # 0 /\ "w" \in f.dir[i].perm /\ appending /\ r = AppendTo(f, i, bytes)
      \/ i # 0 /\ "w" \in f.dir[i].perm /\ ~appending /\ r = Overwrite(f, i, bytes)
  BY DEF write, writeFileToFAT
<1>3. /\ i = 0 => v[name] = NoFile
      /\ i # 0 => /\ i \in DOMAIN f.dir /\ f.dir[i].name = name /\ v[name] # NoFile
                  /\ v[name].perm = f.dir[i].perm /\ v[name].bytes = Bytes(f, f.dir[i])
  BY FoundShown
<1> HIDE DEF i
<1>4. v \in Views /\ f.dir \in Seq(Entry) /\ DataOK(f.data)
  BY DEF Shows, Sound
<1>5. <<>> \o bytes = bytes
  BY ConcatEmptySeq
<1>6. CASE i = 0 /\ r = Create(f, name, bytes, At)
  <2>1. ~r.ok => r.fs = f
    BY <1>6 DEF Create, Done, Failed
  <2>2. ASSUME r.ok PROVE Shows(r.fs, r.fs.dir, Held(v, name, bytes))
    <3>1. Makes(f, r.fs, name, bytes)
      BY <1>1, <1>6, <2>2, CreateMakes
    <3> QED BY <1>3, <1>6, <3>1, MadeShown
  <2>3. BytesIn(v, name) = <<>>
    BY <1>3, <1>6 DEF BytesIn
  <2>4. Put(v, name, bytes, appending) = Held(v, name, bytes)
    BY <1>5, <2>3 DEF Put
  <2> QED BY <1>3, <1>6, <2>1, <2>2, <2>4 DEF MayWrite
<1>7. CASE i # 0 /\ "w" \notin f.dir[i].perm /\ r = Failed(f)
  BY <1>7 DEF Failed
<1>8. CASE i # 0 /\ "w" \in f.dir[i].perm /\ appending /\ r = AppendTo(f, i, bytes)
  <2>1. ~r.ok => r.fs = f
    <3>1. r = Failed(f) \/ \E h : r = Done(h)
      BY <1>8 DEF AppendTo
    <3> QED BY <3>1 DEF Done, Failed
  <2>2. PICK all : all = Bytes(f, f.dir[i]) \o bytes
    OBVIOUS
  <2>3. all \in Seq(Content)
    <3>1. f.dir[i].size \in Nat
      BY <1>3, <1>4, <1>8, Places
    <3>2. Bytes(f, f.dir[i]) \in Seq(Content)
      BY <1>4, <3>1, BytesOK
    <3> QED BY <2>2, <3>2, ConcatProperties
  <2>4. ASSUME r.ok PROVE Shows(r.fs, r.fs.dir, Held(v, name, all))
    <3>1. Rewrites(f, r.fs, i, all)
      BY <1>3, <1>8, <2>2, <2>4, AppendRewrites
    <3>2. Shows(r.fs, r.fs.dir, Held(v, f.dir[i].name, all))
      BY <2>3, <3>1, RewrittenShown
    <3> QED BY <1>3, <1>8, <3>2
  <2>5. Put(v, name, bytes, appending) = Held(v, name, all)
    BY <1>3, <1>8, <2>2 DEF Put, BytesIn
  <2>6. MayWrite(v, name)
    BY <1>3, <1>8 DEF MayWrite
  <2> QED BY <2>1, <2>4, <2>5, <2>6
<1>9. CASE i # 0 /\ "w" \in f.dir[i].perm /\ ~appending /\ r = Overwrite(f, i, bytes)
  <2>1. ~r.ok => r.fs = f
    BY <1>9 DEF Overwrite, Done, Failed
  <2>2. ASSUME r.ok PROVE Shows(r.fs, r.fs.dir, Held(v, name, bytes))
    <3>1. Rewrites(f, r.fs, i, bytes)
      BY <1>3, <1>9, <2>2, OverwriteRewrites
    <3>2. Shows(r.fs, r.fs.dir, Held(v, f.dir[i].name, bytes))
      BY <3>1, RewrittenShown
    <3> QED BY <1>3, <1>9, <3>2
  <2>3. Put(v, name, bytes, appending) = Held(v, name, bytes)
    BY <1>5, <1>9 DEF Put
  <2>4. MayWrite(v, name)
    BY <1>3, <1>9 DEF MayWrite
  <2> QED BY <2>1, <2>2, <2>3, <2>4
<1> QED BY <1>2, <1>6, <1>7, <1>8, <1>9

\* A removal.
LEMMA DeleteFileShown ==
  ASSUME EofIsNoBlock, NEW f, NEW k, Sound(f, k), NEW v, Shows(f, f.dir, v),
         NEW name \in Name, NEW r, r = deleteFileFromFAT(f, name)
  PROVE  /\ ~r.ok => r.fs = f
         /\ r.ok => /\ v[name] # NoFile /\ MayWrite(v, name)
                    /\ Shows(r.fs, r.fs.dir, [v EXCEPT ![name] = NoFile])
<1> DEFINE i == Find(f, name)
<1>1. \/ (i = 0 \/ "w" \notin f.dir[i].perm) /\ r = Failed(f)
      \/ i # 0 /\ "w" \in f.dir[i].perm /\ r = Done(Delete(f, i))
  BY DEF deleteFileFromFAT
<1>2. i # 0 => /\ i \in DOMAIN f.dir /\ f.dir[i].name = name /\ v[name] # NoFile
               /\ v[name].perm = f.dir[i].perm
  BY FoundShown
<1> HIDE DEF i
<1>3. CASE r = Failed(f)
  BY <1>3 DEF Failed
<1>4. CASE i # 0 /\ "w" \in f.dir[i].perm /\ r = Done(Delete(f, i))
  <2>1. r.ok /\ r.fs = Delete(f, i)
    BY <1>4 DEF Done
  <2>2. Removes(f, r.fs, i)
    BY <1>2, <1>4, <2>1, DeleteRemoves
  <2>3. Shows(r.fs, r.fs.dir, [v EXCEPT ![name] = NoFile])
    BY <1>2, <1>4, <2>2, RemovedShown
  <2> QED BY <1>2, <1>4, <2>1, <2>3 DEF MayWrite
<1> QED BY <1>1, <1>3, <1>4

-----------------------------------------------------------------------------
(***************************************************************************)
(* Lists of files.                                                         *)
(***************************************************************************)
\* What an element of the list of touch, rm or cat does to what is seen, and
\* when it may.
Effect(v, x) ==
  IF x.remove THEN [v EXCEPT ![x.name] = NoFile] ELSE Put(v, x.name, x.bytes, x.append)

Allows(v, x) == (x.remove => v[x.name] # NoFile) /\ MayWrite(v, x.name)

\* It does so, or nothing.
LEMMA DoShown ==
  ASSUME EofIsNoBlock, Addr # {}, NEW f, NEW k, Sound(f, k), NEW v, Shows(f, f.dir, v),
         NEW x, x.name \in Name, x.bytes \in Seq(Content),
         NEW r, r = Do(f, x), Innocent(r.fs)
  PROVE  /\ ~r.ok => r.fs = f
         /\ r.ok => Allows(v, x) /\ Shows(r.fs, r.fs.dir, Effect(v, x))
<1>1. CASE x.remove
  <2>1. PICK name : name = x.name
    OBVIOUS
  <2>2. r = deleteFileFromFAT(f, name) /\ name \in Name
    BY <1>1, <2>1 DEF Do
  <2>3. /\ ~r.ok => r.fs = f
        /\ r.ok => /\ v[name] # NoFile /\ MayWrite(v, name)
                   /\ Shows(r.fs, r.fs.dir, [v EXCEPT ![name] = NoFile])
    BY <2>2, DeleteFileShown
  <2> QED BY <1>1, <2>1, <2>3 DEF Effect, Allows
<1>2. CASE ~x.remove
  <2>1. PICK name, bytes, appending :
          name = x.name /\ bytes = x.bytes /\ appending = x.append
    OBVIOUS
  <2>2. r = write(f, name, bytes, appending) /\ name \in Name /\ bytes \in Seq(Content)
    BY <1>2, <2>1 DEF Do
  <2>3. /\ ~r.ok => r.fs = f
        /\ r.ok => MayWrite(v, name) /\ Shows(r.fs, r.fs.dir, Put(v, name, bytes, appending))
    BY <2>2, WriteShown DEF Writes
  <2> QED BY <1>2, <2>1, <2>3 DEF Effect, Allows
<1> QED BY <1>1, <1>2

\* w[i] is what is seen after the first i elements.
Follows(w, n, x) ==
  \A i \in 1..n : w[i - 1] \in Views /\ Allows(w[i - 1], x[i]) => w[i] = Effect(w[i - 1], x[i])

\* The first a elements have been done, and they were all if there was no failure.
Reached(q, w, a, n, x) ==
  /\ Shows(q.fs, q.fs.dir, w[a])
  /\ \A i \in 1..a : w[i - 1] \in Views /\ Allows(w[i - 1], x[i])
  /\ q.ok => a = n

\* Of the list that is done one after the other some first part has been done.
LEMMA TurnsShown ==
  ASSUME EofIsNoBlock, Addr # {}, NEW n \in Nat, NEW x, Tasks(x, n), NEW q, InTurns(q, n, x),
         NEW k, Sound(fs, k), NEW w, Shows(fs, fs.dir, w[0]), Follows(w, n, x),
         Innocent(q.fs)
  PROVE  \E a \in 0..n : Reached(q, w, a, n, x)
<1>1. PICK r : ResultsOf(r, n, x) /\ q = r[n]
  BY DEF InTurns
<1>2. DOMAIN fs = Fields
  BY DEF Sound
<1>3. \A i \in 0..n : Keeps(fs, r[i].fs, k)
  BY <1>1, <1>2, ResultsKeep
<1> DEFINE T == {i \in 0..n : Innocent(r[i].fs) => \E a \in 0..i : Reached(r[i], w, a, i, x)}
<1>4. 0 \in T
  <2>1. r[0].fs = fs
    BY <1>1 DEF ResultsOf, Done
  <2>2. Reached(r[0], w, 0, 0, x)
    BY <2>1 DEF Reached
  <2>3. 0 \in 0..n /\ 0 \in 0..0
    OBVIOUS
  <2> QED BY <2>2, <2>3
<1>5. ASSUME NEW i \in 0..(n - 1), i \in T PROVE i + 1 \in T
  <2>1. PICK j \in 1..n : j = i + 1 /\ j - 1 = i /\ i \in 0..n /\ j \in 0..n
    OBVIOUS
  <2>2. r[j] = DoNext(r[i], x[j])
    BY <1>1, <2>1 DEF ResultsOf
  <2>3. PICK g : g = r[i].fs
    OBVIOUS
  <2>4. Keeps(fs, g, k) /\ DOMAIN g = Fields
    BY <1>3, <2>1, <2>3 DEF Keeps, Grows
  <2>5. x[j].name \in Name /\ x[j].bytes \in Seq(Content)
    BY DEF Tasks
  <2>6. Keeps(g, r[j].fs, k)
    BY <2>2, <2>3, <2>4, <2>5, DoKeeps
  <2>7. ASSUME Innocent(r[j].fs) PROVE \E a \in 0..j : Reached(r[j], w, a, j, x)
    <3>1. Innocent(g)
      BY <2>6, <2>7 DEF Keeps, Grows, Innocent
    <3>2. Sound(g, k)
      BY <2>4, <3>1 DEF Keeps
    <3>3. PICK a \in 0..i : Reached(r[i], w, a, i, x)
      BY <1>5, <2>3, <3>1
    <3>4. a \in 0..j
      BY <2>1
    <3>5. CASE ~r[i].ok
      <4>1. r[j] = r[i]
        BY <2>2, <3>5 DEF DoNext
      <4>2. Reached(r[j], w, a, j, x)
        BY <3>3, <3>5, <4>1 DEF Reached
      <4> QED BY <3>4, <4>2
    <3>6. CASE r[i].ok
      <4>1. a = i /\ Shows(g, g.dir, w[i])
        BY <2>3, <3>3, <3>6 DEF Reached
      <4>2. r[j] = Do(g, x[j])
        BY <2>2, <2>3, <3>6 DEF DoNext
      <4>3. /\ ~r[j].ok => r[j].fs = g
            /\ r[j].ok => Allows(w[i], x[j]) /\ Shows(r[j].fs, r[j].fs.dir, Effect(w[i], x[j]))
        BY <2>5, <2>7, <3>2, <4>1, <4>2, DoShown
      <4>4. CASE ~r[j].ok
        <5>1. Reached(r[j], w, a, j, x)
          BY <2>3, <3>3, <4>3, <4>4 DEF Reached
        <5> QED BY <3>4, <5>1
      <4>5. CASE r[j].ok
        <5>1. w[j - 1] \in Views /\ Allows(w[j - 1], x[j])
          BY <2>1, <4>1, <4>3, <4>5 DEF Shows
        <5>2. w[j] = Effect(w[i], x[j])
          BY <2>1, <5>1 DEF Follows
        <5>3. Shows(r[j].fs, r[j].fs.dir, w[j])
          BY <4>3, <4>5, <5>2
        <5>4. \A l \in 1..j : w[l - 1] \in Views /\ Allows(w[l - 1], x[l])
          <6>1. \A l \in 1..j : l \in 1..i \/ l = j
            BY <2>1
          <6> QED BY <3>3, <4>1, <5>1, <6>1 DEF Reached
        <5>5. Reached(r[j], w, j, j, x) /\ j \in 0..j
          BY <2>1, <5>3, <5>4 DEF Reached
        <5> QED BY <5>5
      <4> QED BY <4>4, <4>5
    <3> QED BY <3>5, <3>6
  <2> QED BY <2>1, <2>7
<1>6. \A i \in 0..(n - 1) : i \in T => i + 1 \in T
  BY <1>5
<1> HIDE DEF T
<1>7. \A i \in 0..n : i \in T
  BY <1>4, <1>6, UpTo
<1>8. n \in T
  BY <1>7
<1> QED BY <1>1, <1>8 DEF T

\* What is seen when the files S have been touched, or removed.
Touched(v, S) ==
  [name \in Name |-> IF name \in S /\ v[name] = NoFile THEN [bytes |-> <<>>, perm |-> {"r", "w"}]
                     ELSE v[name]]
Unlinked(v, S) == [name \in Name |-> IF name \in S THEN NoFile ELSE v[name]]

\* The first i of a list.
LEMMA UptoNext ==
  ASSUME NEW n \in Nat, NEW i \in 1..n, NEW list
  PROVE  F!Upto(list, i) = F!Upto(list, i - 1) \cup {list[i]} /\ F!Upto(list, 0) = {}
<1>1. \A j : j \in 1..i <=> j \in 1..(i - 1) \/ j = i
  OBVIOUS
<1>2. 1..0 = {}
  OBVIOUS
<1> QED BY <1>1, <1>2 DEF F!Upto

\* An empty file may be seen.
LEMMA EmptyFileOK ==
  [bytes |-> <<>>, perm |-> {"r", "w"}] \in [bytes: Seq(Content), perm: Perms] \ {NoFile}
<1>1. <<>> \in Seq(Content) /\ {"r", "w"} \in Perms
  BY EmptySeq DEF Perms
<1>2. NoFile \notin [bytes: Seq(Content), perm: Perms]
  BY PennfatAssumption DEF Content
<1>3. [bytes |-> <<>>, perm |-> {"r", "w"}] \in [bytes: Seq(Content), perm: Perms]
  <2>1. PICK bytes, perm : bytes = <<>> /\ perm = {"r", "w"}
    OBVIOUS
  <2>2. [bytes |-> bytes, perm |-> perm] \in [bytes: Seq(Content), perm: Perms]
    BY <1>1, <2>1
  <2> QED BY <2>1, <2>2
<1> QED BY <1>2, <1>3

\* A file to which nothing is added.
LEMMA NothingAdded ==
  ASSUME NEW v \in Views, NEW name \in Name
  PROVE  Put(v, name, <<>>, TRUE) = Touched(v, {name})
<1>1. BytesIn(v, name) \o <<>> = BytesIn(v, name)
  BY BytesInOK, ConcatEmptySeq
<1>2. Put(v, name, <<>>, TRUE) = Held(v, name, BytesIn(v, name))
  BY <1>1 DEF Put
<1>3. CASE v[name] = NoFile
  <2>1. PICK e : e = [bytes |-> <<>>, perm |-> {"r", "w"}]
    OBVIOUS
  <2>2. Held(v, name, BytesIn(v, name)) = [v EXCEPT ![name] = e]
    BY <1>3, <2>1 DEF Held, BytesIn
  <2>3. Touched(v, {name}) = [y \in Name |-> IF y \in {name} /\ v[y] = NoFile THEN e ELSE v[y]]
    BY <2>1 DEF Touched
  <2>4. [v EXCEPT ![name] = e] = [y \in Name |-> IF y = name THEN e ELSE v[y]]
    BY DEF Views
  <2> QED BY <1>2, <1>3, <2>2, <2>3, <2>4
<1>4. CASE v[name] # NoFile
  <2>1. v[name] \in [bytes: Seq(Content), perm: Perms]
    BY <1>4 DEF Views
  <2>2. [bytes |-> v[name].bytes, perm |-> v[name].perm] = v[name]
    BY <2>1
  <2>3. Held(v, name, BytesIn(v, name)) = [v EXCEPT ![name] = v[name]]
    BY <1>4, <2>2 DEF Held, BytesIn
  <2>4. [v EXCEPT ![name] = v[name]] = v /\ v = [y \in Name |-> v[y]]
    BY DEF Views
  <2>5. Touched(v, {name}) = [y \in Name |-> v[y]]
    BY <1>4 DEF Touched
  <2> QED BY <1>2, <2>3, <2>4, <2>5
<1> QED BY <1>3, <1>4

\* touch goes through these.
LEMMA TouchFollows ==
  ASSUME NEW names \in Seq(Name), NEW n \in Nat, n = Len(names), NEW v \in Views,
         NEW w, w = [i \in 0..n |-> Touched(v, F!Upto(names, i))]
  PROVE  w[0] = v /\ Follows(w, n, TouchTasks(names))
<1>1. DOMAIN names = 1..n /\ \A i \in 1..n : names[i] \in Name
  BY LenProperties, ElementOfSeq
<1>2. w[0] = v
  <2>1. F!Upto(names, 0) = {}
    BY DEF F!Upto
  <2>2. Touched(v, {}) = [y \in Name |-> v[y]] /\ v = [y \in Name |-> v[y]]
    BY DEF Touched, Views
  <2>3. w[0] = Touched(v, F!Upto(names, 0))
    <3>1. 0 \in 0..n
      OBVIOUS
    <3> QED BY <3>1
  <2> QED BY <2>1, <2>2, <2>3
<1>3. ASSUME NEW i \in 1..n, w[i - 1] \in Views
      PROVE  w[i] = Effect(w[i - 1], TouchTasks(names)[i])
  <2>1. PICK name, S, e : /\ name = names[i] /\ S = F!Upto(names, i - 1)
                          /\ e = [bytes |-> <<>>, perm |-> {"r", "w"}]
    OBVIOUS
  <2>2. i \in 0..n /\ i - 1 \in 0..n /\ name \in Name
    BY <1>1, <2>1
  <2>3. PICK u : u = w[i - 1]
    OBVIOUS
  <2>4. u = Touched(v, S) /\ u \in Views
    BY <1>3, <2>1, <2>2, <2>3
  <2>5. w[i] = Touched(v, S \cup {name})
    BY <2>1, <2>2, UptoNext
  <2>6. Effect(u, TouchTasks(names)[i]) = Touched(u, {name})
    <3>1. Effect(u, TouchTasks(names)[i]) = Put(u, name, <<>>, TRUE)
      BY <1>1, <2>1 DEF Effect, TouchTasks
    <3> QED BY <2>2, <2>4, <3>1, NothingAdded
  <2>7. e # NoFile
    BY <2>1, EmptyFileOK
  <2>8. u = [y \in Name |-> IF y \in S /\ v[y] = NoFile THEN e ELSE v[y]]
    BY <2>1, <2>4 DEF Touched
  <2>9. Touched(u, {name}) = [y \in Name |-> IF y \in {name} /\ u[y] = NoFile THEN e ELSE u[y]]
    BY <2>1 DEF Touched
  <2>10. Touched(v, S \cup {name})
           = [y \in Name |-> IF y \in S \cup {name} /\ v[y] = NoFile THEN e ELSE v[y]]
    BY <2>1 DEF Touched
  <2>11. \A y \in Name : (IF y \in {name} /\ u[y] = NoFile THEN e ELSE u[y])
                          = (IF y \in S \cup {name} /\ v[y] = NoFile THEN e ELSE v[y])
    BY <2>7, <2>8
  <2>12. Touched(u, {name}) = Touched(v, S \cup {name})
    BY ONLY <2>9, <2>10, <2>11
  <2> QED BY <2>3, <2>5, <2>6, <2>12
<1> QED BY <1>2, <1>3 DEF Follows

\* So does rm.
LEMMA RemoveFollows ==
  ASSUME NEW names \in Seq(Name), NEW n \in Nat, n = Len(names), NEW v \in Views,
         NEW w, w = [i \in 0..n |-> Unlinked(v, F!Upto(names, i))]
  PROVE  w[0] = v /\ Follows(w, n, RemoveTasks(names))
<1>1. DOMAIN names = 1..n /\ \A i \in 1..n : names[i] \in Name
  BY LenProperties, ElementOfSeq
<1>2. w[0] = v
  <2>1. F!Upto(names, 0) = {}
    BY DEF F!Upto
  <2>2. Unlinked(v, {}) = [y \in Name |-> v[y]] /\ v = [y \in Name |-> v[y]]
    BY DEF Unlinked, Views
  <2>3. w[0] = Unlinked(v, F!Upto(names, 0))
    <3>1. 0 \in 0..n
      OBVIOUS
    <3> QED BY <3>1
  <2> QED BY <2>1, <2>2, <2>3
<1>3. ASSUME NEW i \in 1..n
      PROVE  w[i] = Effect(w[i - 1], RemoveTasks(names)[i])
  <2>1. PICK name, S : name = names[i] /\ S = F!Upto(names, i - 1)
    OBVIOUS
  <2>2. i \in 0..n /\ i - 1 \in 0..n /\ name \in Name
    BY <1>1, <2>1
  <2>3. PICK u : u = w[i - 1]
    OBVIOUS
  <2>4. u = Unlinked(v, S)
    BY <1>3, <2>1, <2>2, <2>3
  <2>5. w[i] = Unlinked(v, S \cup {name})
    BY <2>1, <2>2, UptoNext
  <2>6. Effect(u, RemoveTasks(names)[i]) = [u EXCEPT ![name] = NoFile]
    BY <1>1, <2>1 DEF Effect, RemoveTasks
  <2>7. u = [y \in Name |-> IF y \in S THEN NoFile ELSE v[y]]
    BY <2>4 DEF Unlinked
  <2>8. [u EXCEPT ![name] = NoFile] = [y \in Name |-> IF y \in S \cup {name} THEN NoFile ELSE v[y]]
    BY <2>2, <2>7
  <2>9. Unlinked(v, S \cup {name}) = [y \in Name |-> IF y \in S \cup {name} THEN NoFile ELSE v[y]]
    BY DEF Unlinked
  <2> QED BY <2>3, <2>5, <2>6, <2>8, <2>9
<1> QED BY <1>2, <1>3 DEF Follows

\* p is the function by which FlattenSeq of the first n of b is defined.
Flattens(p, n, b) == p = [i \in 1..n |-> IF i = 1 THEN b[i] ELSE p[i - 1] \o b[i]]

\* There is such a function ...
LEMMA FlattensExists ==
  ASSUME NEW n \in Nat, NEW b
  PROVE  \E p : Flattens(p, n, b)
<1> DEFINE T == {m \in 0..n : \E p : Flattens(p, m, b)}
<1>1. 0 \in T
  <2> DEFINE p == [i \in 1..0 |-> b]
  <2>1. Flattens(p, 0, b)
    BY DEF Flattens
  <2> HIDE DEF p
  <2> QED BY <2>1
<1>2. ASSUME NEW m \in 0..(n - 1), m \in T PROVE m + 1 \in T
  <2>1. PICK p : Flattens(p, m, b)
    BY <1>2
  <2>2. m \in Nat /\ m + 1 \in 0..n /\ (m + 1) - 1 = m
    OBVIOUS
  <2> DEFINE new == [i \in 1..(m + 1) |-> IF i = m + 1 THEN (IF i = 1 THEN b[i] ELSE p[m] \o b[i])
                                          ELSE p[i]]
  <2>3. \A i \in 1..m : i # m + 1 /\ i \in 1..(m + 1) /\ new[i] = p[i]
    BY <2>2
  <2>4. new[m + 1] = IF m + 1 = 1 THEN b[m + 1] ELSE p[m] \o b[m + 1]
    BY <2>2
  <2>5. new = [i \in 1..(m + 1) |-> new[i]]
    OBVIOUS
  <2> HIDE DEF new
  <2>6. ASSUME NEW i \in 1..(m + 1)
        PROVE  new[i] = IF i = 1 THEN b[i] ELSE new[i - 1] \o b[i]
    <3>1. CASE i = m + 1
      <4>1. i # 1 => m \in 1..m /\ i - 1 = m
        BY <2>2, <3>1
      <4> QED BY <2>3, <2>4, <3>1, <4>1
    <3>2. CASE i # m + 1
      <4>1. i \in 1..m /\ (i # 1 => i - 1 \in 1..m)
        BY <2>2, <3>2
      <4>2. p[i] = IF i = 1 THEN b[i] ELSE p[i - 1] \o b[i]
        BY <2>1, <4>1 DEF Flattens
      <4> QED BY <2>3, <4>1, <4>2
    <3> QED BY <3>1, <3>2
  <2>7. Flattens(new, m + 1, b)
    BY <2>5, <2>6 DEF Flattens
  <2> QED BY <2>2, <2>7
<1>3. \A m \in 0..(n - 1) : m \in T => m + 1 \in T
  BY <1>2
<1> HIDE DEF T
<1>4. \A m \in 0..n : m \in T
  BY <1>1, <1>3, UpTo
<1>5. n \in T
  BY <1>4
<1> QED BY <1>5 DEF T

\* ... and only one.
LEMMA FlattensOnce ==
  ASSUME NEW n \in Nat, NEW b, NEW m \in Nat, n <= m, NEW p, Flattens(p, n, b),
         NEW q, Flattens(q, m, b)
  PROVE  \A i \in 1..n : p[i] = q[i]
<1> DEFINE T == {i \in 0..n : i # 0 => p[i] = q[i]}
<1>1. 0 \in T
  OBVIOUS
<1>2. ASSUME NEW i \in 0..(n - 1), i \in T PROVE i + 1 \in T
  <2>1. PICK j : j = i + 1
    OBVIOUS
  <2>2. j \in 1..n /\ j \in 1..m /\ j - 1 = i /\ (j # 1 => i # 0) /\ j \in 0..n
    BY <2>1
  <2>3. p[j] = IF j = 1 THEN b[j] ELSE p[i] \o b[j]
    BY <2>2 DEF Flattens
  <2>4. q[j] = IF j = 1 THEN b[j] ELSE q[i] \o b[j]
    BY <2>2 DEF Flattens
  <2>5. p[j] = q[j]
    BY <1>2, <2>2, <2>3, <2>4
  <2> QED BY <2>1, <2>2, <2>5
<1>3. \A i \in 0..(n - 1) : i \in T => i + 1 \in T
  BY <1>2
<1> HIDE DEF T
<1>4. \A i \in 0..n : i \in T
  BY <1>1, <1>3, UpTo
<1> QED BY <1>4 DEF T

\* The first n of b one behind the other.
Joint(b, n) == FlattenSeq([i \in 1..n |-> b[i]])

\* What it yields.
LEMMA JointIs ==
  ASSUME NEW S, NEW n \in Nat \ {0}, NEW b, \A i \in 1..n : b[i] \in S,
         NEW q, Flattens(q, n, b)
  PROVE  Joint(b, n) = q[n]
<1> DEFINE seqs == [i \in 1..n |-> b[i]]
           Q(p) == p = [i \in 1..n |-> IF i = 1 THEN seqs[i] ELSE p[i - 1] \o seqs[i]]
<1>1. seqs \in Seq(S) /\ Len(seqs) = n
  <2>1. seqs \in [1..n -> S]
    OBVIOUS
  <2> HIDE DEF seqs
  <2> QED BY <2>1
<1>2. FlattenSeq(seqs) = (CHOOSE p : Q(p))[n]
  BY <1>1 DEF FlattenSeq
<1>3. \A i \in 1..n : seqs[i] = b[i]
  OBVIOUS
<1> HIDE DEF seqs
<1>4. \A p : Q(p) <=> Flattens(p, n, b)
  BY <1>3 DEF Flattens
<1> HIDE DEF Q
<1>5. Q(CHOOSE p : Q(p))
  BY <1>4
<1>6. PICK p : p = CHOOSE x : Q(x)
  OBVIOUS
<1>7. Flattens(p, n, b)
  BY <1>4, <1>5, <1>6
<1>8. p[n] = q[n]
  BY <1>7, FlattensOnce
<1> QED BY <1>2, <1>6, <1>8 DEF Joint, seqs

\* One after the other.
LEMMA JointNext ==
  ASSUME NEW n \in Nat, NEW S, NEW b, \A i \in 1..n : b[i] \in Seq(S)
  PROVE  /\ n > 0 => Joint(b, 1) = b[1]
         /\ \A i \in 1..n : Joint(b, i) \in Seq(S)
         /\ \A i \in 2..n : Joint(b, i) = Joint(b, i - 1) \o b[i]
<1>1. PICK q : Flattens(q, n, b)
  BY FlattensExists
<1>2. ASSUME NEW i \in 1..n PROVE Joint(b, i) = q[i]
  <2>1. PICK p : Flattens(p, i, b)
    <3>1. i \in Nat
      OBVIOUS
    <3> QED BY <3>1, FlattensExists
  <2>2. p[i] = q[i]
    <3>1. i \in Nat /\ i \in 1..i /\ i <= n
      OBVIOUS
    <3>2. \A j \in 1..i : p[j] = q[j]
      BY <1>1, <2>1, <3>1, FlattensOnce
    <3> QED BY <3>1, <3>2
  <2>3. Joint(b, i) = p[i]
    <3>1. i \in Nat \ {0} /\ \A j \in 1..i : b[j] \in Seq(S)
      OBVIOUS
    <3> QED BY <2>1, <3>1, JointIs
  <2> QED BY <2>2, <2>3
<1>3. \A i \in 1..n : q[i] = IF i = 1 THEN b[i] ELSE q[i - 1] \o b[i]
  BY <1>1 DEF Flattens
<1> DEFINE T == {i \in 0..n : i # 0 => q[i] \in Seq(S)}
<1>4. \A i \in 0..n : i \in T
  <2>1. 0 \in T
    OBVIOUS
  <2>2. ASSUME NEW i \in 0..(n - 1), i \in T PROVE i + 1 \in T
    <3>1. PICK j : j = i + 1
      OBVIOUS
    <3>2. j \in 1..n /\ j - 1 = i /\ (j # 1 => i # 0) /\ j \in 0..n
      BY <3>1
    <3>3. q[j] = IF j = 1 THEN b[j] ELSE q[i] \o b[j]
      BY <1>3, <3>2
    <3>4. b[j] \in Seq(S)
      BY <3>2
    <3>5. j # 1 => q[i] \o b[j] \in Seq(S)
      BY <2>2, <3>2, <3>4, ConcatProperties
    <3> QED BY <3>1, <3>2, <3>3, <3>4, <3>5
  <2>3. \A i \in 0..(n - 1) : i \in T => i + 1 \in T
    BY <2>2
  <2> HIDE DEF T
  <2> QED BY <2>1, <2>3, UpTo
<1>5. n > 0 => Joint(b, 1) = b[1]
  <2>1. ASSUME n > 0 PROVE Joint(b, 1) = b[1]
    <3>1. PICK i \in 1..n : i = 1
      BY <2>1
    <3>2. q[i] = b[i]
      BY <1>3, <3>1
    <3>3. Joint(b, i) = b[i]
      BY <1>2, <3>2
    <3> QED BY <3>1, <3>3
  <2> QED BY <2>1
<1>6. \A i \in 1..n : Joint(b, i) \in Seq(S)
  BY <1>2, <1>4
<1>7. ASSUME NEW i \in 2..n PROVE Joint(b, i) = Joint(b, i - 1) \o b[i]
  <2>1. i \in 1..n /\ i - 1 \in 1..n /\ i # 1
    OBVIOUS
  <2> QED BY <1>2, <1>3, <2>1
<1> QED BY <1>5, <1>6, <1>7

\* What has been put under a name may be put there again.
LEMMA HeldIs ==
  ASSUME NEW v \in Views, NEW name \in Name, NEW bytes \in Seq(Content), NEW u,
         u = Held(v, name, bytes)
  PROVE  /\ u \in Views /\ u[name] # NoFile /\ BytesIn(u, name) = bytes
         /\ \A more : Held(u, name, more) = Held(v, name, more)
<1>1. PICK perm : perm = IF v[name] # NoFile THEN v[name].perm ELSE {"r", "w"}
  OBVIOUS
<1>2. PICK e : e = [bytes |-> bytes, perm |-> perm]
  OBVIOUS
<1>3. perm \in Perms
  <2>1. v[name] # NoFile => v[name].perm \in Perms
    BY DEF Views
  <2>2. {"r", "w"} \in Perms
    BY DEF Perms
  <2> QED BY <1>1, <2>1, <2>2
<1>4. e \in [bytes: Seq(Content), perm: Perms] /\ e.bytes = bytes /\ e.perm = perm
  BY <1>2, <1>3
<1>5. e # NoFile
  BY <1>4, PennfatAssumption DEF Content
<1>6. u = [v EXCEPT ![name] = e]
  BY <1>1, <1>2 DEF Held
<1>7. u \in Views /\ u[name] = e
  BY <1>4, <1>6 DEF Views
<1>8. ASSUME NEW more PROVE Held(u, name, more) = Held(v, name, more)
  <2>1. PICK x : x = [bytes |-> more, perm |-> perm]
    OBVIOUS
  <2>2. Held(u, name, more) = [u EXCEPT ![name] = x]
    BY <1>4, <1>5, <1>7, <2>1 DEF Held
  <2>3. Held(v, name, more) = [v EXCEPT ![name] = x]
    BY <1>1, <2>1 DEF Held
  <2>4. [u EXCEPT ![name] = x] = [v EXCEPT ![name] = x]
    BY <1>6 DEF Views
  <2> QED BY <2>2, <2>3, <2>4
<1> QED BY <1>4, <1>5, <1>7, <1>8 DEF BytesIn

\* Parts of a cat: the bytes b, all of them appended but perhaps the first.
IsParts(part, n, b, appending) ==
  /\ DOMAIN part = 1..n
  /\ \A i \in 1..n : part[i].bytes = b[i] /\ (part[i].append <=> appending \/ i > 1)

\* cat goes through these.
CatViews(v, name, n, b, start) ==
  [i \in 0..n |-> IF i = 0 THEN v ELSE Held(v, name, start \o Joint(b, i))]

\* What they are put after.
Ahead(v, name, appending) == IF appending THEN BytesIn(v, name) ELSE <<>>

LEMMA CatFollows ==
  ASSUME NEW v \in Views, NEW name \in Name, NEW n \in Nat, NEW b, \A i \in 1..n : b[i] \in Seq(Content),
         NEW appending, NEW part, IsParts(part, n, b, appending),
         NEW start, start = Ahead(v, name, appending),
         NEW w, w = CatViews(v, name, n, b, start)
  PROVE  w[0] = v /\ Follows(w, n, CatTasks(part, name))
<1> USE DEF Ahead
<1>1. start \in Seq(Content)
  BY BytesInOK, EmptySeq
<1>2. w[0] = v
  BY DEF CatViews
<1>3. \A i \in 1..n : w[i] = Held(v, name, start \o Joint(b, i))
  BY DEF CatViews
<1>4. /\ n > 0 => Joint(b, 1) = b[1]
      /\ \A i \in 1..n : Joint(b, i) \in Seq(Content)
      /\ \A i \in 2..n : Joint(b, i) = Joint(b, i - 1) \o b[i]
  BY JointNext
<1>5. ASSUME NEW i \in 1..n
      PROVE  w[i] = Effect(w[i - 1], CatTasks(part, name)[i])
  <2>1. PICK u, more : u = w[i - 1] /\ more = b[i]
    OBVIOUS
  <2>2. \/ Effect(u, CatTasks(part, name)[i]) = Put(u, name, more, TRUE) /\ (appending \/ i > 1)
        \/ Effect(u, CatTasks(part, name)[i]) = Put(u, name, more, FALSE) /\ ~(appending \/ i > 1)
    <3>1. PICK x : x = CatTasks(part, name)[i]
      OBVIOUS
    <3>2. /\ x.remove = FALSE /\ x.name = name /\ x.bytes = more
          /\ x.append <=> appending \/ i > 1
      BY <2>1, <3>1 DEF CatTasks, IsParts
    <3>3. Effect(u, x) = Put(u, name, more, x.append)
      BY <3>2 DEF Effect
    <3>4. CASE x.append
      <4>1. Put(u, name, more, x.append) = Put(u, name, more, TRUE)
        BY <3>4 DEF Put
      <4> QED BY <3>1, <3>2, <3>3, <3>4, <4>1
    <3>5. CASE ~x.append
      <4>1. Put(u, name, more, x.append) = Put(u, name, more, FALSE)
        BY <3>5 DEF Put
      <4> QED BY <3>1, <3>2, <3>3, <3>5, <4>1
    <3> QED BY <3>4, <3>5
  <2>3. Put(u, name, more, TRUE) = Held(u, name, BytesIn(u, name) \o more)
    BY DEF Put
  <2>4. Put(u, name, more, FALSE) = Held(u, name, <<>> \o more)
    BY DEF Put
  <2>5. CASE i = 1
    <3>1. u = v /\ more = b[1]
      BY <1>2, <2>1, <2>5
    <3>2. w[1] = Held(v, name, start \o more)
      BY <1>3, <1>4, <2>1, <2>5
    <3>3. Effect(u, CatTasks(part, name)[i]) = Held(v, name, start \o more)
      <4>1. ~(i > 1)
        BY <2>5
      <4>2. CASE appending
        BY <2>2, <2>3, <3>1, <4>2
      <4>3. CASE ~appending
        BY <2>2, <2>4, <3>1, <4>1, <4>3
      <4> QED BY <4>2, <4>3
    <3> QED BY <2>1, <2>5, <3>2, <3>3
  <2>6. CASE i # 1
    <3>1. i \in 2..n /\ i - 1 \in 1..n /\ i > 1
      BY <2>6
    <3>2. PICK old, all : old = start \o Joint(b, i - 1) /\ all = start \o Joint(b, i)
      OBVIOUS
    <3>3. u = Held(v, name, old) /\ w[i] = Held(v, name, all)
      BY <1>3, <2>1, <3>1, <3>2
    <3>4. old \in Seq(Content)
      BY <1>1, <1>4, <3>1, <3>2, ConcatProperties
    <3>5. old \o more = all
      <4>1. PICK j : j = Joint(b, i - 1)
        OBVIOUS
      <4>2. j \in Seq(Content) /\ more \in Seq(Content) /\ Joint(b, i) = j \o more
        BY <1>4, <2>1, <3>1, <4>1
      <4>3. (start \o j) \o more = start \o (j \o more)
        BY ONLY <1>1, <4>2, ConcatAssociative
      <4> QED BY <3>2, <4>1, <4>2, <4>3
    <3>6. BytesIn(u, name) = old /\ Held(u, name, all) = Held(v, name, all)
      BY <3>3, <3>4, HeldIs
    <3>7. Effect(u, CatTasks(part, name)[i]) = Held(u, name, BytesIn(u, name) \o more)
      BY <2>2, <2>3, <3>1
    <3> QED BY <2>1, <3>3, <3>5, <3>6, <3>7
  <2> QED BY <2>5, <2>6
<1> QED BY <1>2, <1>5 DEF Follows

-----------------------------------------------------------------------------
(***************************************************************************)
(* The commands.                                                           *)
(***************************************************************************)
\* The end of a command leaves what it has made of the files.
LEMMA LeftShown ==
  ASSUME EofIsNoBlock, Careful, NEW f, NEW k, Sound(f, k), NEW r, Keeps(f, r.fs, k),
         Left(r).damage \subseteq Situations, NEW v, Shows(r.fs, r.fs.dir, v)
  PROVE  Shows(Left(r), Left(r).dir, v)
<1>1. PICK h : h = IF r.ok THEN saveFat(r.fs) ELSE r.fs
  OBVIOUS
<1>2. PICK g : g = Unsaved(h)
  OBVIOUS
<1>3. Left(r) = Settle(g)
  BY <1>1, <1>2 DEF Left
<1>4. DOMAIN r.fs = Fields /\ DOMAIN h = Fields /\ r.fs.damage \subseteq h.damage
  BY <1>1, SaveFatAdds DEF Keeps, Grows
<1>5. g.blocks = h.blocks /\ g.data = h.data /\ g.dir = h.dir /\ g.damage = h.damage /\ DOMAIN g = Fields
  BY <1>2, <1>4 DEF Unsaved, Fields
<1>6. Tidied(g, Settle(g))
  BY <1>5, SettleIs
<1>7. Innocent(h) /\ Innocent(r.fs)
  BY <1>3, <1>4, <1>5, <1>6, AllowedIsInnocent DEF Tidied, Innocent
<1>8. Sound(r.fs, k)
  BY <1>7 DEF Keeps
<1>9. h.dir = r.fs.dir /\ Preserves(r.fs, r.fs.dir, h)
  <2>1. CASE r.ok
    <3>1. h = saveFat(r.fs)
      BY <1>1, <2>1
    <3>2. PICK q : q = r.fs
      OBVIOUS
    <3>3. Sound(q, k) /\ Innocent(saveFat(q))
      BY <1>7, <1>8, <3>1, <3>2
    <3>4. saveFat(q).dir = q.dir /\ Preserves(q, q.dir, saveFat(q))
      BY <3>3, SaveFatSound, SavePreserves
    <3> QED BY <3>1, <3>2, <3>4
  <2>2. CASE ~r.ok
    BY <1>1, <2>2 DEF Preserves
  <2> QED BY <2>1, <2>2
<1>10. Shows(h, h.dir, v)
  BY <1>9, ShownStill
<1>11. Shows(g, g.dir, v)
  <2>1. Preserves(h, h.dir, g)
    BY <1>5, SameBytes
  <2> QED BY <1>5, <1>10, <2>1, ShownStill
<1>12. \A i \in DOMAIN g.dir : g.dir[i].size \in Nat
  <2>1. g.dir \in Seq(Entry)
    BY <1>5, <1>8, <1>9 DEF Sound
  <2> QED BY <2>1, Places
<1>13. Preserves(g, g.dir, Settle(g))
  BY <1>5, <1>12, SettlePreserves
<1>14. Shows(Settle(g), g.dir, v)
  BY <1>11, <1>13, ShownStill
<1>15. Settle(g).dir = g.dir
  BY <1>6 DEF Tidied
<1> QED BY <1>3, <1>14, <1>15

\* The user sees the files of the file system.
Seen == Shows(fs, Directory(fs, mounted), user)

\* What is to be shown of a command.
Stepped == Seen' /\ [F!Next]_user

\* Whatever is shown by the next state is seen.
LEMMA SeenNext ==
  ASSUME NEW v, NEW d, d \in Seq(Entry), d = Directory(fs', mounted'), Shows(fs', d, v),
         user' = Contents(fs', mounted')
  PROVE  user' = v /\ Seen'
<1>1. user' = v
  BY ShownContents
<1> QED BY <1>1 DEF Seen

\* A command on the mounted file system makes the user see what it has made of it.
LEMMA RunShown ==
  ASSUME EofIsNoBlock, Careful, IInv, NEW k, Sound(fs, k), NEW r, Keeps(fs, r.fs, k),
         Run(r), fs'.damage \subseteq Situations, user' = Contents(fs', mounted'),
         NEW v, Shows(r.fs, r.fs.dir, v)
  PROVE  user' = v /\ Seen'
<1>1. fs' = Left(r) /\ mounted' = TRUE
  BY DEF Run, Left, IInv
<1>2. Shows(fs', fs'.dir, v)
  BY <1>1, LeftShown
<1>3. PICK d : d = fs'.dir
  OBVIOUS
<1>4. d = Directory(fs', mounted')
  BY <1>1, <1>3 DEF Directory
<1>5. d \in Seq(Entry)
  <2>1. PICK h : h = IF r.ok THEN saveFat(r.fs) ELSE r.fs
    OBVIOUS
  <2>2. DOMAIN r.fs = Fields /\ DOMAIN h = Fields /\ r.fs.damage \subseteq h.damage
    BY <2>1, SaveFatAdds DEF Keeps, Grows
  <2>3. PICK g : g = Unsaved(h)
    OBVIOUS
  <2>4. g.dir = h.dir /\ g.damage = h.damage /\ DOMAIN g = Fields
    BY <2>2, <2>3 DEF Unsaved, Fields
  <2>5. Tidied(g, Settle(g)) /\ fs' = Settle(g)
    BY <1>1, <2>1, <2>3, <2>4, SettleIs DEF Left
  <2>6. Innocent(h) /\ Innocent(r.fs)
    BY <2>2, <2>4, <2>5, AllowedIsInnocent DEF Tidied, Innocent
  <2>7. Sound(r.fs, k)
    BY <2>6 DEF Keeps
  <2>8. h.dir = r.fs.dir
    <3>1. PICK q : q = r.fs
      OBVIOUS
    <3>2. CASE r.ok
      <4>1. Sound(q, k) /\ Innocent(saveFat(q)) /\ h = saveFat(q)
        BY <2>1, <2>6, <2>7, <3>1, <3>2
      <4>2. saveFat(q).dir = q.dir
        BY <4>1, SaveFatSound
      <4> QED BY <3>1, <4>1, <4>2
    <3>3. CASE ~r.ok
      BY <2>1, <3>3
    <3> QED BY <3>2, <3>3
  <2> QED BY <1>3, <2>4, <2>5, <2>7, <2>8 DEF Tidied, Sound
<1> QED BY <1>2, <1>3, <1>4, <1>5, SeenNext

-----------------------------------------------------------------------------
(***************************************************************************)
(* What the commands make of it.                                           *)
(***************************************************************************)
\* A command that ends with r runs on the files of the user, and what r shows is
\* what the user sees then.
Serves(r, k) ==
  /\ mounted /\ Sound(fs, k) /\ user \in Views /\ Shows(fs, fs.dir, user)
  /\ Innocent(r.fs) /\ r.fs.damage \subseteq Situations
  /\ \A v : Shows(r.fs, r.fs.dir, v) => user' = v /\ Seen'

LEMMA RunServes ==
  ASSUME EofIsNoBlock, Careful, IInv, Seen, fs'.damage \subseteq Situations,
         user' = Contents(fs', mounted'), NEW r, Run(r), \A k : Keeps(fs, r.fs, k)
  PROVE  \E k : Serves(r, k)
<1>1. mounted /\ fs' = Left(r)
  BY DEF Run, Left
<1>2. PICK k : Sound(fs, k)
  BY <1>1 DEF IInv, Intact
<1>3. Shows(fs, fs.dir, user) /\ user \in Views
  BY <1>1 DEF Seen, Directory, Shows
<1>4. Keeps(fs, r.fs, k)
  OBVIOUS
<1>5. Innocent(r.fs) /\ r.fs.damage \subseteq Situations
  <2>1. PICK h : h = IF r.ok THEN saveFat(r.fs) ELSE r.fs
    OBVIOUS
  <2>2. DOMAIN r.fs = Fields /\ DOMAIN h = Fields /\ r.fs.damage \subseteq h.damage
    BY <1>4, <2>1, SaveFatAdds DEF Keeps, Grows
  <2>3. PICK g : g = Unsaved(h)
    OBVIOUS
  <2>4. g.damage = h.damage /\ DOMAIN g = Fields
    BY <2>2, <2>3 DEF Unsaved, Fields
  <2>5. Tidied(g, Settle(g)) /\ fs' = Settle(g)
    BY <1>1, <2>1, <2>3, <2>4, SettleIs DEF Left
  <2>6. r.fs.damage \subseteq Situations
    BY <2>2, <2>4, <2>5 DEF Tidied
  <2> QED BY <2>6, AllowedIsInnocent
<1>6. ASSUME NEW v, Shows(r.fs, r.fs.dir, v) PROVE user' = v /\ Seen'
  BY <1>2, <1>4, <1>6, RunShown
<1> QED BY <1>1, <1>2, <1>3, <1>5, <1>6 DEF Serves

\* One that has done nothing.
LEMMA NothingDone ==
  ASSUME NEW r, NEW k, Serves(r, k), r.fs = fs
  PROVE  Stepped
<1>1. Shows(r.fs, r.fs.dir, user)
  BY DEF Serves
<1>2. user' = user /\ Seen'
  BY <1>1 DEF Serves
<1> QED BY <1>2 DEF Stepped

\* One that has made the files v of them.
LEMMA StepTaken ==
  ASSUME NEW r, NEW k, Serves(r, k), NEW v, Shows(r.fs, r.fs.dir, v),
         user' = v => F!Next
  PROVE  Stepped
<1>1. user' = v /\ Seen'
  BY DEF Serves
<1> QED BY <1>1 DEF Stepped

\* Names and lists of them.
LEMMA ListOK ==
  ASSUME NEW names \in Lists
  PROVE  /\ names \in Seq(Name) /\ DOMAIN names = 1..Len(names) /\ Len(names) \in Nat \ {0}
         /\ \A i \in 1..Len(names) : names[i] \in Name
<1>1. names \in Seq(Name) /\ names # <<>>
  BY PennfatAssumption
<1> QED BY <1>1, LenProperties, EmptySeq, ElementOfSeq

\* touch.
LEMMA TouchStepped ==
  ASSUME EofIsNoBlock, NEW names \in Lists, NEW n \in Nat, n = Len(names), NEW r,
         Tasks(TouchTasks(names), n), InTurns(r, n, TouchTasks(names)), NEW k, Serves(r, k)
  PROVE  Stepped
<1>2. names \in Seq(Name) /\ DOMAIN names = 1..n /\ Addr # {}
  BY ListOK, PennfatAssumption
<1>3. PICK x : x = TouchTasks(names)
  OBVIOUS
<1>4. Tasks(x, n) /\ InTurns(r, n, x)
  BY <1>3
<1>5. PICK w : w = [i \in 0..n |-> Touched(user, F!Upto(names, i))]
  OBVIOUS
<1>6. w[0] = user /\ Follows(w, n, x)
  <2>1. user \in Views
    BY DEF Serves
  <2> QED BY <1>2, <1>3, <1>5, <2>1, TouchFollows
<1>7. Sound(fs, k) /\ Shows(fs, fs.dir, w[0]) /\ Innocent(r.fs)
  BY <1>6 DEF Serves
<1>8. PICK a \in 0..n : Reached(r, w, a, n, x)
  BY <1>2, <1>4, <1>6, <1>7, TurnsShown
<1>9. Shows(r.fs, r.fs.dir, w[a])
  BY <1>8 DEF Reached
<1>10. CASE a = 0
  <2>1. user' = user /\ Seen'
    BY <1>6, <1>9, <1>10 DEF Serves
  <2> QED BY <2>1 DEF Stepped
<1>11. CASE a # 0
  <2>1. a \in DOMAIN names
    <3>1. a \in 1..n
      BY <1>11
    <3> QED BY <1>2, <3>1
  <2>2. ASSUME user' = w[a] PROVE F!Next
    <3>1. user' = Touched(user, F!Upto(names, a))
      BY <1>5, <2>2
    <3>2. F!Touch(F!Upto(names, a))
      BY <3>1 DEF Touched, F!Touch, F!Exists
    <3> QED BY <2>1, <3>2 DEF F!Next
  <2> QED BY <1>9, <2>2, StepTaken
<1> QED BY <1>10, <1>11

\* rm.
LEMMA RemoveStepped ==
  ASSUME EofIsNoBlock, NEW names \in Lists, NEW r, r = InTurn(deleteFileFromFAT, names),
         NEW k, Serves(r, k)
  PROVE  Stepped
<1>1. PICK n \in Nat : n = Len(names)
  BY ListOK
<1>2. names \in Seq(Name) /\ DOMAIN names = 1..n /\ Addr # {}
  BY <1>1, ListOK, PennfatAssumption
<1>3. PICK x : x = RemoveTasks(names)
  OBVIOUS
<1>4. Tasks(x, n) /\ InTurns(r, n, x)
  BY <1>1, <1>2, <1>3, RemoveTurns
<1>5. PICK w : w = [i \in 0..n |-> Unlinked(user, F!Upto(names, i))]
  OBVIOUS
<1>6. w[0] = user /\ Follows(w, n, x)
  BY <1>1, <1>2, <1>3, <1>5, RemoveFollows DEF Serves
<1>7. Sound(fs, k) /\ Shows(fs, fs.dir, w[0]) /\ Innocent(r.fs)
  BY <1>6 DEF Serves
<1>8. PICK a \in 0..n : Reached(r, w, a, n, x)
  BY <1>2, <1>4, <1>6, <1>7, TurnsShown
<1>9. Shows(r.fs, r.fs.dir, w[a])
  BY <1>8 DEF Reached
<1>10. CASE a = 0
  <2>1. user' = user /\ Seen'
    BY <1>6, <1>9, <1>10 DEF Serves
  <2> QED BY <2>1 DEF Stepped
<1>11. CASE a # 0
  <2>1. a \in DOMAIN names
    BY <1>2, <1>11
  <2>2. ASSUME NEW i \in 1..a PROVE user[names[i]] # NoFile /\ "w" \in user[names[i]].perm
    <3>1. i \in 1..n /\ i - 1 \in 0..n
      OBVIOUS
    <3>2. Allows(w[i - 1], x[i]) /\ x[i].remove /\ x[i].name = names[i] /\ names[i] \in Name
      BY <1>1, <1>2, <1>3, <1>8, <3>1, ListOK DEF Reached, RemoveTasks
    <3>3. w[i - 1][names[i]] # NoFile /\ "w" \in w[i - 1][names[i]].perm
      BY <3>2 DEF Allows, MayWrite
    <3>4. w[i - 1] = Unlinked(user, F!Upto(names, i - 1))
      BY <1>5, <3>1
    <3>5. w[i - 1][names[i]] = user[names[i]]
      BY <3>2, <3>3, <3>4 DEF Unlinked
    <3> QED BY <3>3, <3>5
  <2>3. ASSUME user' = w[a] PROVE F!Next
    <3>1. user' = Unlinked(user, F!Upto(names, a))
      BY <1>5, <2>3
    <3>2. \A name \in F!Upto(names, a) : F!Exists(name) /\ F!CanWrite(name)
      BY <2>2 DEF F!Upto, F!Exists, F!CanWrite
    <3>3. F!Unlink(F!Upto(names, a))
      BY <3>1, <3>2 DEF Unlinked, F!Unlink
    <3> QED BY <2>1, <3>3 DEF F!Next
  <2> QED BY <1>9, <2>3, StepTaken
<1> QED BY <1>10, <1>11

\* mv.
LEMMA MoveStepped ==
  ASSUME EofIsNoBlock, "mv_over_readonly" \notin Situations, "mv_to_itself" \notin Situations,
         NEW old \in Name, NEW new \in Name, NEW r, r = renameFile(fs, old, new),
         NEW k, Serves(r, k)
  PROVE  Stepped
<1>1. /\ Sound(fs, k) /\ Shows(fs, fs.dir, user) /\ r.fs.damage \subseteq Situations
  BY DEF Serves
<1>2. PICK v : v = user
  OBVIOUS
<1>3. /\ ~r.ok => r.fs = fs
      /\ r.ok => /\ old # new /\ v[old] # NoFile /\ "w" \in v[old].perm
                 /\ v[new] # NoFile => "w" \in v[new].perm
                 /\ Shows(r.fs, r.fs.dir, Moved(v, old, new))
  <2>1. Shows(fs, fs.dir, v) /\ "mv_over_readonly" \notin r.fs.damage
        /\ "mv_to_itself" \notin r.fs.damage
    BY <1>1, <1>2
  <2> QED BY <1>1, <2>1, RenameShown
<1>4. CASE ~r.ok
  BY <1>3, <1>4, NothingDone
<1>5. CASE r.ok
  <2>1. ASSUME user' = Moved(v, old, new) PROVE F!Next
    <3>1. F!Move(old, new)
      BY <1>2, <1>3, <1>5, <2>1 DEF F!Move, F!Exists, F!CanWrite, Moved
    <3> QED BY <3>1 DEF F!Next
  <2> QED BY <1>3, <1>5, <2>1, StepTaken
<1> QED BY <1>4, <1>5

\* chmod.
LEMMA ChmodStepped ==
  ASSUME NEW name \in Name, NEW perm \in Granted, NEW r, r = chmodFile(fs, name, perm),
         NEW k, Serves(r, k)
  PROVE  Stepped
<1>1. Sound(fs, k) /\ perm \in Perms
  BY PennfatAssumption DEF Serves
<1>2. PICK v : v = user /\ Shows(fs, fs.dir, v)
  BY DEF Serves
<1>3. /\ ~r.ok => r.fs = fs
      /\ r.ok => v[name] # NoFile /\ Shows(r.fs, r.fs.dir, [v EXCEPT ![name].perm = perm])
  BY <1>1, <1>2, ChmodShown
<1>4. CASE ~r.ok
  BY <1>3, <1>4, NothingDone
<1>5. CASE r.ok
  <2>1. ASSUME user' = [v EXCEPT ![name].perm = perm] PROVE F!Next
    <3>1. F!Chmod(name, perm)
      BY <1>2, <1>3, <1>5, <2>1 DEF F!Chmod, F!Exists
    <3>2. perm \in F!Perms
      BY <1>1 DEF Perms, F!Perms
    <3> QED BY <3>1, <3>2 DEF F!Next
  <2> QED BY <1>3, <1>5, <2>1, StepTaken
<1> QED BY <1>4, <1>5

\* The words of Files.
LEMMA WordsOfFiles ==
  ASSUME NEW name
  PROVE  /\ F!CanWrite(name) <=> MayWrite(user, name)
         /\ F!BytesOf(name) = BytesIn(user, name)
         /\ \A bytes : F!Holding(name, bytes) = Held(user, name, bytes)
  BY DEF F!CanWrite, F!Exists, F!BytesOf, F!Holding, MayWrite, BytesIn, Held

\* A write.
LEMMA WriteStepped ==
  ASSUME EofIsNoBlock, NEW text \in Texts, NEW appending, NEW name \in Name,
         NEW r, r = write(fs, name, text, appending), NEW k, Serves(r, k)
  PROVE  Stepped
<1>1. /\ Sound(fs, k) /\ Innocent(r.fs) /\ Addr # {} /\ text \in Seq(Content) /\ user \in Views
  <2>1. Byte \subseteq Content
    BY DEF Content
  <2> QED BY <2>1, PennfatAssumption, SeqMonotonic DEF Serves
<1>2. PICK v : v = user /\ Shows(fs, fs.dir, v)
  BY DEF Serves
<1>3. /\ ~r.ok => r.fs = fs
      /\ r.ok => MayWrite(v, name) /\ Shows(r.fs, r.fs.dir, Put(v, name, text, appending))
  <2>1. Writes(r, fs, v, name, text, appending)
    BY <1>1, <1>2, WriteShown
  <2> QED BY <2>1 DEF Writes
<1>4. CASE ~r.ok
  BY <1>3, <1>4, NothingDone
<1>5. CASE r.ok
  <2>1. ASSUME user' = Put(v, name, text, appending) PROVE F!Next
    <3>1. F!CanWrite(name)
      BY <1>2, <1>3, <1>5, WordsOfFiles
    <3>2. CASE appending
      <4>1. F!Add(name, text)
        BY <1>2, <2>1, <3>1, <3>2, WordsOfFiles DEF Put, F!Add
      <4> QED BY <4>1 DEF F!Next
    <3>3. CASE ~appending
      <4>1. <<>> \o text = text
        BY <1>1, ConcatEmptySeq
      <4>2. F!Put(name, text)
        BY <1>2, <2>1, <3>1, <3>3, <4>1, WordsOfFiles DEF Put, F!Put
      <4> QED BY <4>2 DEF F!Next
    <3> QED BY <3>2, <3>3
  <2> QED BY <1>3, <1>5, <2>1, StepTaken
<1> QED BY <1>4, <1>5

\* cp of an empty file of the host.
LEMMA EmptyCopyStepped ==
  ASSUME EofIsNoBlock, <<>> \in Texts, NEW name \in Name, NEW f, f = write(fs, name, <<>>, FALSE),
         NEW r, r = (IF f.ok THEN write(f.fs, name, <<>>, FALSE) ELSE f), NEW k, Serves(r, k)
  PROVE  Stepped
<1>1. Sound(fs, k) /\ Innocent(r.fs) /\ Addr # {} /\ <<>> \in Seq(Content) /\ user \in Views
  BY PennfatAssumption, EmptySeq DEF Serves
<1>2. PICK v : v = user /\ Shows(fs, fs.dir, v)
  BY DEF Serves
<1>3. PICK g : g = f.fs
  OBVIOUS
<1>4. Keeps(fs, g, k) /\ DOMAIN g = Fields
  <2>1. At \in Addr
    BY <1>1 DEF At
  <2>2. DOMAIN fs = Fields
    BY <1>1 DEF Sound
  <2>3. Keeps(fs, f.fs, k)
    BY <1>1, <2>1, <2>2, WriteFileKeeps DEF write
  <2> QED BY <1>3, <2>3 DEF Keeps, Grows
<1>5. Innocent(g) /\ Sound(g, k)
  <2>1. g.damage \subseteq r.fs.damage
    <3>1. CASE f.ok
      <4>1. At \in Addr
        BY <1>1 DEF At
      <4>2. Keeps(g, write(g, name, <<>>, FALSE).fs, k)
        BY <1>1, <1>4, <4>1, WriteFileKeeps DEF write
      <4> QED BY <1>3, <3>1, <4>2 DEF Keeps, Grows
    <3>2. CASE ~f.ok
      BY <1>3, <3>2
    <3> QED BY <3>1, <3>2
  <2>2. Innocent(g)
    BY <1>1, <2>1 DEF Innocent
  <2> QED BY <1>1, <1>4, <2>2 DEF Keeps
<1>6. Writes(f, fs, v, name, <<>>, FALSE)
  BY <1>1, <1>2, <1>3, <1>5, WriteShown
<1>7. CASE ~f.ok
  BY <1>6, <1>7, NothingDone DEF Writes
<1>8. CASE f.ok
  <2>1. PICK u : u = Held(v, name, <<>>)
    OBVIOUS
  <2>2. <<>> \o <<>> = <<>>
    BY <1>1, ConcatEmptySeq
  <2>3. Shows(g, g.dir, u) /\ MayWrite(v, name)
    BY <1>3, <1>6, <1>8, <2>1, <2>2 DEF Writes, Put
  <2>4. PICK q : q = write(g, name, <<>>, FALSE)
    OBVIOUS
  <2>5. r = q
    BY <1>3, <1>8, <2>4
  <2>6. Writes(q, g, u, name, <<>>, FALSE)
    BY <1>1, <1>5, <2>3, <2>4, <2>5, WriteShown
  <2>7. Put(u, name, <<>>, FALSE) = u
    <3>1. PICK none \in Seq(Content) : none = <<>>
      BY <1>1
    <3>2. v \in Views /\ u = Held(v, name, none)
      BY <1>1, <1>2, <2>1, <3>1
    <3>3. \A more : Held(u, name, more) = Held(v, name, more)
      BY <3>2, HeldIs
    <3> QED BY <2>1, <2>2, <3>3 DEF Put
  <2>8. Shows(r.fs, r.fs.dir, u)
    BY <2>3, <2>5, <2>6, <2>7 DEF Writes
  <2>9. ASSUME user' = u PROVE F!Next
    <3>1. F!Put(name, <<>>)
      BY <1>2, <2>1, <2>3, <2>9, WordsOfFiles DEF F!Put
    <3> QED BY <3>1 DEF F!Next
  <2> QED BY <2>8, <2>9, StepTaken
<1> QED BY <1>7, <1>8

\* What is read is what the user sees.
LEMMA ReadShown ==
  ASSUME NEW k, Sound(fs, k), Shows(fs, fs.dir, user), NEW name \in Name, Readable(fs, name)
  PROVE  F!CanRead(name) /\ readFileFromFAT(fs, name) = BytesIn(user, name)
<1>1. PICK f, v : f = fs /\ v = user
  OBVIOUS
<1>2. PICK i : i = Find(f, name)
  OBVIOUS
<1>3. i # 0 /\ "r" \in f.dir[i].perm /\ readFileFromFAT(fs, name) = Bytes(f, f.dir[i])
  BY <1>1, <1>2 DEF Readable, readFileFromFAT
<1>4. v[name] # NoFile /\ v[name].bytes = Bytes(f, f.dir[i]) /\ v[name].perm = f.dir[i].perm
  BY <1>1, <1>2, <1>3, FoundShown
<1> QED BY <1>1, <1>3, <1>4 DEF F!CanRead, F!Exists, BytesIn

\* What is seen is made of bytes.
LEMMA SeenBytes ==
  ASSUME user \in Views, NEW sources \in Lists, NEW b, b = [i \in DOMAIN sources |-> BytesIn(user, sources[i])]
  PROVE  \A i \in 1..Len(sources) : b[i] \in Seq(Content)
<1>1. DOMAIN sources = 1..Len(sources) /\ \A i \in 1..Len(sources) : sources[i] \in Name
  BY ListOK
<1>2. ASSUME NEW i \in 1..Len(sources) PROVE b[i] \in Seq(Content)
  <2>1. PICK v, name : v = user /\ name = sources[i]
    OBVIOUS
  <2>2. BytesIn(v, name) \in Seq(Content)
    BY <1>1, <2>1, BytesInOK
  <2> QED BY <1>1, <2>1, <2>2
<1> QED BY <1>2

\* A first part of the files is joined.
LEMMA JointOfFiles ==
  ASSUME NEW sources \in Lists, NEW a, a \in DOMAIN sources, NEW b,
         b = [i \in DOMAIN sources |-> BytesIn(user, sources[i])]
  PROVE  Joint(b, a) = F!FlattenSeq([i \in 1..a |-> F!BytesOf(sources[i])])
<1>1. a \in 1..Len(sources) /\ DOMAIN sources = 1..Len(sources) /\ Len(sources) \in Nat
  BY ListOK
<1>2. [i \in 1..a |-> b[i]] = [i \in 1..a |-> F!BytesOf(sources[i])]
  <2>1. \A i \in 1..a : b[i] = F!BytesOf(sources[i])
    BY <1>1, WordsOfFiles
  <2> QED BY <2>1
<1>3. \A s : F!FlattenSeq(s) = FlattenSeq(s)
  BY DEF FlattenSeq, F!FlattenSeq
<1> QED BY <1>2, <1>3 DEF Joint

\* cat of files.
LEMMA CatStepped ==
  ASSUME EofIsNoBlock, NEW sources \in Lists, NEW n \in Nat, n = Len(sources), NEW appending,
         NEW name \in Name, \A i \in DOMAIN sources : Readable(fs, sources[i]),
         NEW b, b = [i \in DOMAIN sources |-> BytesIn(user, sources[i])],
         NEW part, IsParts(part, n, b, appending), NEW r, Tasks(CatTasks(part, name), n),
         InTurns(r, n, CatTasks(part, name)), NEW k, Serves(r, k)
  PROVE  Stepped
<1>1. Sound(fs, k) /\ Innocent(r.fs) /\ Addr # {} /\ user \in Views /\ Shows(fs, fs.dir, user)
  BY PennfatAssumption DEF Serves
<1>2. DOMAIN sources = 1..n /\ \A i \in 1..n : sources[i] \in Name
  BY ListOK
<1>3. PICK start : start = Ahead(user, name, appending)
  OBVIOUS
<1>4. PICK w : w = CatViews(user, name, n, b, start)
  OBVIOUS
<1>5. PICK x : x = CatTasks(part, name)
  OBVIOUS
<1>6. w[0] = user /\ Follows(w, n, x)
  <2>1. \A i \in 1..n : b[i] \in Seq(Content)
    BY <1>1, SeenBytes
  <2>2. PICK v : v = user
    OBVIOUS
  <2>3. v \in Views /\ w = CatViews(v, name, n, b, start)
        /\ start = Ahead(v, name, appending)
    BY <1>1, <1>3, <1>4, <2>2
  <2>4. w[0] = v /\ Follows(w, n, CatTasks(part, name))
    <3>1. w[0] = v
      BY <2>3 DEF CatViews
    <3>2. Follows(w, n, CatTasks(part, name))
      BY <2>1, <2>3, CatFollows
    <3> QED BY <3>1, <3>2
  <2> QED BY <1>5, <2>2, <2>4
<1>7. Shows(fs, fs.dir, w[0]) /\ Tasks(x, n) /\ InTurns(r, n, x)
  BY <1>1, <1>5, <1>6
<1>8. PICK a \in 0..n : Reached(r, w, a, n, x)
  BY <1>1, <1>6, <1>7, TurnsShown
<1>9. Shows(r.fs, r.fs.dir, w[a])
  BY <1>8 DEF Reached
<1>10. CASE a = 0
  <2>1. user' = user /\ Seen'
    BY <1>6, <1>9, <1>10 DEF Serves
  <2> QED BY <2>1 DEF Stepped
<1>11. CASE a # 0
  <2>1. a \in 1..n /\ a \in DOMAIN sources
    <3>1. a \in 1..n
      BY <1>11
    <3> QED BY <1>2, <3>1
  <2>2. F!CanWrite(name)
    <3>1. 1 \in 1..a /\ 1 \in 1..n
      BY <2>1
    <3>2. Allows(w[1 - 1], x[1]) /\ x[1].name = name
      BY <1>5, <1>8, <3>1 DEF Reached, CatTasks, IsParts
    <3>3. MayWrite(user, name)
      BY <1>6, <3>2 DEF Allows
    <3> QED BY <3>3, WordsOfFiles
  <2>3. \A i \in DOMAIN sources : F!CanRead(sources[i])
    BY <1>1, <1>2, ReadShown
  <2>4. ASSUME user' = w[a] PROVE F!Next
    <3>1. user' = Held(user, name, start \o Joint(b, a))
      BY <1>4, <1>11, <2>4 DEF CatViews
    <3>2. user' = F!Holding(name, start \o F!FlattenSeq([i \in 1..a |-> F!BytesOf(sources[i])]))
      BY <2>1, <3>1, JointOfFiles, WordsOfFiles
    <3>3. F!Cat(sources, a, start, name)
      BY <2>2, <2>3, <3>2 DEF F!Cat
    <3>4. start = <<>> \/ start = F!BytesOf(name)
      BY <1>3, WordsOfFiles DEF Ahead
    <3>5. F!Cat(sources, a, <<>>, name) \/ F!Cat(sources, a, F!BytesOf(name), name)
      BY <3>3, <3>4
    <3> QED BY <2>1, <3>5 DEF F!Next
  <2> QED BY <1>9, <2>4, StepTaken
<1> QED BY <1>10, <1>11

\* cp of a file.
LEMMA CopyStepped ==
  ASSUME EofIsNoBlock, NEW source \in Name, Readable(fs, source), NEW name \in Name,
         NEW bytes, bytes = readFileFromFAT(fs, source),
         NEW r, r = write(fs, name, bytes, FALSE), NEW k, Serves(r, k)
  PROVE  Stepped
<1>1. Sound(fs, k) /\ Innocent(r.fs) /\ Addr # {} /\ user \in Views /\ Shows(fs, fs.dir, user)
  BY PennfatAssumption DEF Serves
<1>2. PICK v : v = user /\ Shows(fs, fs.dir, v)
  BY <1>1
<1>3. bytes = BytesIn(user, source) /\ F!CanRead(source)
  BY <1>1, ReadShown
<1>4. bytes \in Seq(Content)
  BY <1>1, <1>2, <1>3, BytesInOK
<1>5. Writes(r, fs, v, name, bytes, FALSE)
  BY <1>1, <1>2, <1>4, WriteShown
<1>6. CASE ~r.ok
  BY <1>5, <1>6, NothingDone DEF Writes
<1>7. CASE r.ok
  <2>1. PICK sources : sources = <<source>>
    OBVIOUS
  <2>2. sources \in Lists /\ DOMAIN sources = 1..1 /\ sources[1] = source /\ Len(sources) = 1
    BY <2>1, PennfatAssumption
  <2>3. PICK b : b = [i \in DOMAIN sources |-> BytesIn(user, sources[i])]
    OBVIOUS
  <2>4. Joint(b, 1) = bytes
    <3>1. PICK n \in Nat : n = 1
      OBVIOUS
    <3>2. n > 0 /\ \A i \in 1..n : b[i] \in Seq(Content)
      BY <1>3, <1>4, <2>2, <2>3, <3>1
    <3>3. Joint(b, 1) = b[1]
      BY <3>2, JointNext
    <3> QED BY <1>3, <2>2, <2>3, <3>3
  <2>5. Joint(b, 1) = F!FlattenSeq([i \in 1..1 |-> F!BytesOf(sources[i])])
    <3>1. PICK a : a = 1
      OBVIOUS
    <3>2. a \in DOMAIN sources
      BY <2>2, <3>1
    <3>3. Joint(b, a) = F!FlattenSeq([i \in 1..a |-> F!BytesOf(sources[i])])
      BY <2>2, <2>3, <3>2, JointOfFiles
    <3> QED BY <3>1, <3>3
  <2>6. ASSUME user' = Put(v, name, bytes, FALSE) PROVE F!Next
    <3>1. user' = F!Holding(name, <<>> \o F!FlattenSeq([i \in 1..1 |-> F!BytesOf(sources[i])]))
      BY <1>2, <2>4, <2>5, <2>6, WordsOfFiles DEF Put
    <3>2. F!CanWrite(name)
      BY <1>2, <1>5, <1>7, WordsOfFiles DEF Writes
    <3>3. F!Cat(sources, 1, <<>>, name)
      BY <1>3, <2>2, <3>1, <3>2 DEF F!Cat
    <3> QED BY <2>2, <3>3 DEF F!Next
  <2> QED BY <1>5, <1>7, <2>6, StepTaken DEF Writes
<1> QED BY <1>6, <1>7

\* A file system that has been given up is shown by its directory on disk.
LEMMA FreedShown ==
  ASSUME Careful, NEW f, NEW k, Sound(f, k), DirectorySaved(f, k), Shows(f, f.dir, user),
         NEW g, g = freeFat(f), g.damage \subseteq Situations
  PROVE  Stored(g, k) /\ Shows(g, g.disk, user)
<1>1. Innocent(g) /\ DOMAIN f = Fields
  BY AllowedIsInnocent DEF Sound
<1>2. g.disk = f.dir /\ g.blocks = f.blocks /\ g.data = f.data
  BY <1>1 DEF freeFat, Fields, Flag, Innocent, Forbidden
<1>3. Shows(g, f.dir, user)
  BY <1>2, SameBytes, ShownStill
<1>4. Stored(g, k)
  BY FreeStep
<1> QED BY <1>2, <1>3, <1>4

\* If it is not mounted then, nothing has changed for the user.
LEMMA StoredStepped ==
  ASSUME NEW f, NEW k, Stored(f, k), Shows(f, f.disk, user), fs' = Settle(f), mounted' = FALSE,
         user' = Contents(fs', mounted')
  PROVE  Stepped
<1>1. PICK d : d = f.disk
  OBVIOUS
<1>2. DOMAIN f = Fields /\ d \in Seq(Entry) /\ f.dir = <<>> /\ d # Outdated
  BY <1>1, FatAssumption DEF Stored
<1>3. Preserves(f, d, fs')
  BY <1>1, <1>2, SettlePreserves
<1>4. Shows(fs', d, user)
  BY <1>1, <1>3, ShownStill
<1>5. d = Directory(fs', mounted')
  BY <1>1, <1>2, SettleIs DEF Directory
<1>6. PICK v : v = user
  OBVIOUS
<1>7. user' = v /\ Seen'
  BY <1>2, <1>4, <1>5, <1>6, SeenNext
<1> QED BY <1>6, <1>7 DEF Stepped

\* Nor has it by a mount.
LEMMA LoadedStepped ==
  ASSUME EofIsNoBlock, Careful, NEW f, NEW k, Stored(f, k), Shows(f, f.disk, user),
         fs' = Settle(loadFat(f)), mounted' = TRUE,
         fs'.damage \subseteq Situations, user' = Contents(fs', mounted')
  PROVE  Stepped
<1>1. PICK d, g : d = f.disk /\ g = loadFat(f)
  OBVIOUS
<1>2. DOMAIN f = Fields /\ DOMAIN g = Fields
  BY <1>1 DEF loadFat, Fields, Stored
<1>3. g.damage \subseteq Situations /\ fs'.dir = g.dir
  BY <1>1, <1>2, SettleIs DEF Tidied
<1>4. Innocent(g)
  BY <1>3, AllowedIsInnocent
<1>5. Sound(g, k) /\ g.dir = d
  BY <1>1, <1>4, LoadFatSound DEF Stored
<1>6. Shows(g, d, user)
  <2>1. Preserves(f, d, g)
    BY <1>1, <1>2, LoadPreserves DEF Stored
  <2> QED BY <1>1, <2>1, ShownStill
<1>7. d \in Seq(Entry)
  BY <1>5 DEF Sound
<1>8. Preserves(g, d, fs')
  <2>1. \A i \in DOMAIN g.dir : g.dir[i].size \in Nat
    BY <1>5, <1>7, Places
  <2> QED BY <1>1, <1>2, <1>5, <2>1, SettlePreserves
<1>9. Shows(fs', d, user)
  BY <1>6, <1>8, ShownStill
<1>10. d = Directory(fs', mounted')
  BY <1>3, <1>5 DEF Directory
<1>11. PICK v : v = user
  OBVIOUS
<1>12. user' = v /\ Seen'
  BY <1>7, <1>9, <1>10, <1>11, SeenNext
<1> QED BY <1>11, <1>12 DEF Stepped

\* mkfs.
LEMMA MakeStepped ==
  ASSUME fs' = NewFat, mounted' = TRUE, user' = Contents(fs', mounted')
  PROVE  Seen' /\ F!Make
<1>1. PICK v : v = [name \in Name |-> NoFile]
  OBVIOUS
<1>2. PICK d : d = <<>>
  OBVIOUS
<1>3. d \in Seq(Entry) /\ DOMAIN d = {}
  BY <1>2, EmptySeq
<1>4. v \in Views
  BY <1>1 DEF Views
<1>5. Shows(fs', d, v)
  BY <1>1, <1>3, <1>4 DEF Shows
<1>6. d = Directory(fs', mounted')
  BY <1>2 DEF Directory, NewFat
<1>7. user' = v /\ Seen'
  BY <1>3, <1>5, <1>6, SeenNext
<1> QED BY <1>1, <1>7 DEF F!Make

\* The situations in which mv forgets what it has replaced.
MovesClear == {"mv_over_readonly", "mv_to_itself"} \cap Situations = {}

\* Every command does to the files what Files says, or nothing.
LEMMA NextStepped ==
  ASSUME EofIsNoBlock, Careful, MovesClear, IInv, Seen, Next
  PROVE  Stepped
<1>1. /\ mounted \in BOOLEAN /\ fs.damage \subseteq Situations /\ Intact(fs, mounted)
      /\ Command /\ fs'.damage \subseteq Situations /\ user' = Contents(fs', mounted')
  BY DEF IInv, Next
<1>2. Addr # {} /\ Texts \subseteq Seq(Byte) /\ Granted \subseteq Perms /\ At \in Addr
  BY PennfatAssumption DEF At
<1>3. \A text \in Texts \cup {<<>>} : text \in Seq(Content)
  <2>1. Byte \subseteq Content
    BY DEF Content
  <2> QED BY <1>2, <2>1, SeqMonotonic, EmptySeq
<1>4. mounted => \E k : Sound(fs, k) /\ DirectorySaved(fs, k)
  BY <1>1 DEF Intact
<1>5. mounted => /\ DOMAIN fs = Fields /\ DataOK(fs.data) /\ fs.dir \in Seq(Entry)
                 /\ Shows(fs, fs.dir, user)
  BY <1>4 DEF Sound, Seen, Directory
<1>7. ASSUME NEW names \in Lists, handleTouchCommand(names) PROVE Stepped
  <2>1. PICK r : r = InTurn(LAMBDA f, name : write(f, name, <<>>, TRUE), names)
    OBVIOUS
  <2>2. Run(r)
    BY <1>7, <2>1 DEF handleTouchCommand
  <2>3. PICK n \in Nat : n = Len(names)
    BY ListOK
  <2>4. names \in Seq(Name)
    BY ListOK
  <2>5. Tasks(TouchTasks(names), n) /\ InTurns(r, n, TouchTasks(names))
    BY ONLY <2>1, <2>3, <2>4, TouchTurns
  <2> HIDE <2>1
  <2>6. \A k : Keeps(fs, r.fs, k)
    BY <1>2, <1>5, <2>2, <2>5, TurnsKeep DEF Run
  <2>7. PICK k : Serves(r, k)
    BY <1>1, <2>2, <2>6, RunServes
  <2> QED BY <2>3, <2>5, <2>7, TouchStepped
<1>8. ASSUME NEW old \in Name, NEW new \in Name, handleMoveCommand(old, new) PROVE Stepped
  <2>1. PICK r : r = renameFile(fs, old, new)
    OBVIOUS
  <2>2. Run(r)
    BY <1>8, <2>1 DEF handleMoveCommand
  <2>3. \A k : Keeps(fs, r.fs, k)
    BY <1>5, <2>1, <2>2, RenameKeeps DEF Run
  <2>4. PICK k : Serves(r, k)
    BY <1>1, <2>2, <2>3, RunServes
  <2> QED BY <2>1, <2>4, MoveStepped DEF MovesClear
<1>9. ASSUME NEW names \in Lists, handleRemoveCommand(names) PROVE Stepped
  <2>1. PICK r : r = InTurn(deleteFileFromFAT, names)
    OBVIOUS
  <2>2. Run(r)
    BY <1>9, <2>1 DEF handleRemoveCommand
  <2>3. PICK n \in Nat : n = Len(names)
    BY ListOK
  <2>4. names \in Seq(Name)
    BY ListOK
  <2>5. Tasks(RemoveTasks(names), n) /\ InTurns(r, n, RemoveTasks(names))
    BY <2>1, <2>3, <2>4, RemoveTurns
  <2>6. \A k : Keeps(fs, r.fs, k)
    BY <1>2, <1>5, <2>2, <2>5, TurnsKeep DEF Run
  <2>7. PICK k : Serves(r, k)
    BY <1>1, <2>2, <2>6, RunServes
  <2> QED BY <2>1, <2>7, RemoveStepped
<1>10. ASSUME NEW text \in Texts, NEW appending \in BOOLEAN, NEW name \in Name,
              CatLine(text, appending, name)
       PROVE  Stepped
  <2>1. PICK r : r = write(fs, name, text, appending)
    OBVIOUS
  <2>2. Run(r)
    BY <1>10, <2>1 DEF CatLine
  <2>3. \A k : Keeps(fs, r.fs, k)
    BY <1>2, <1>3, <1>5, <2>1, <2>2, WriteFileKeeps DEF Run, write
  <2>4. PICK k : Serves(r, k)
    BY <1>1, <2>2, <2>3, RunServes
  <2> QED BY <2>1, <2>4, WriteStepped
<1>11. ASSUME NEW sources \in Lists, NEW appending \in BOOLEAN, NEW name \in Name,
              CatFiles(sources, appending, name)
       PROVE  Stepped
  <2>1. PICK part : part = [i \in DOMAIN sources |->
                              [bytes |-> readFileFromFAT(fs, sources[i]),
                               append |-> appending \/ i > 1]]
    OBVIOUS
  <2>2. PICK all : all = InTurn(LAMBDA f, p : write(f, name, p.bytes, p.append), part)
    OBVIOUS
  <2>3. PICK r : r = IF \A i \in DOMAIN sources : Readable(fs, sources[i]) THEN all
                     ELSE Failed(fs)
    OBVIOUS
  <2>4. Run(r)
    BY <1>11, <2>1, <2>2, <2>3 DEF CatFiles
  <2>5. mounted /\ DOMAIN fs = Fields /\ Shows(fs, fs.dir, user)
    BY <1>5, <2>4 DEF Run
  <2>6. PICK n \in Nat : n = Len(sources)
    BY ListOK
  <2>7. DOMAIN sources = 1..n /\ \A i \in 1..n : sources[i] \in Name
    BY <2>6, ListOK
  <2>8. CASE \A i \in DOMAIN sources : Readable(fs, sources[i])
    <3>1. DOMAIN part = 1..n /\ \A i \in 1..n : part[i].bytes \in Seq(Content)
      BY <1>5, <2>1, <2>5, <2>7, <2>8, ReadOK
    <3>2. Tasks(CatTasks(part, name), n) /\ InTurns(all, n, CatTasks(part, name))
      BY <2>2, <3>1, CatTurns
    <3> HIDE <2>2
    <3>3. r = all
      BY <2>3, <2>8
    <3>4. \A k : Keeps(fs, r.fs, k)
      BY <1>2, <2>5, <3>2, <3>3, TurnsKeep
    <3>5. PICK b : b = [i \in DOMAIN sources |-> BytesIn(user, sources[i])]
      OBVIOUS
    <3>6. PICK k : Serves(r, k)
      BY <1>1, <2>4, <3>4, RunServes
    <3>7. IsParts(part, n, b, appending)
      <4>1. ASSUME NEW i \in 1..n PROVE part[i].bytes = b[i] /\ (part[i].append <=> appending \/ i > 1)
        <5>1. part[i].bytes = readFileFromFAT(fs, sources[i])
              /\ (part[i].append <=> appending \/ i > 1)
          BY <2>1, <2>7
        <5>2. readFileFromFAT(fs, sources[i]) = BytesIn(user, sources[i])
          BY <2>5, <2>7, <2>8, <3>6, ReadShown DEF Serves
        <5> QED BY <2>7, <3>5, <5>1, <5>2
      <4> QED BY <3>1, <4>1 DEF IsParts
    <3> QED BY <2>6, <2>8, <3>2, <3>3, <3>5, <3>6, <3>7, CatStepped
  <2>9. CASE ~ \A i \in DOMAIN sources : Readable(fs, sources[i])
    <3>1. r.fs = fs
      BY <2>3, <2>9 DEF Failed
    <3>2. \A k : Keeps(fs, r.fs, k)
      BY <2>5, <3>1, KeepsStill
    <3>3. PICK k : Serves(r, k)
      BY <1>1, <2>4, <3>2, RunServes
    <3> QED BY <3>1, <3>3, NothingDone
  <2> QED BY <2>8, <2>9
<1>12. ASSUME NEW text \in Texts, NEW name \in Name, CopyFromHost(text, name) PROVE Stepped
  <2>1. PICK f : f = write(fs, name, <<>>, FALSE)
    OBVIOUS
  <2>2. PICK r : r = IF text # <<>> THEN write(fs, name, text, FALSE)
                     ELSE IF f.ok THEN write(f.fs, name, <<>>, FALSE) ELSE f
    OBVIOUS
  <2>3. Run(r)
    BY <1>12, <2>1, <2>2 DEF CopyFromHost
  <2>4. DOMAIN fs = Fields
    BY <1>5, <2>3 DEF Run
  <2>5. ASSUME NEW k PROVE Keeps(fs, r.fs, k)
    <3>1. Keeps(fs, write(fs, name, text, FALSE).fs, k) /\ Keeps(fs, f.fs, k)
      BY <1>2, <1>3, <2>1, <2>4, WriteFileKeeps DEF write
    <3>2. DOMAIN f.fs = Fields
      BY <3>1 DEF Keeps, Grows
    <3>3. Keeps(f.fs, write(f.fs, name, <<>>, FALSE).fs, k)
      BY <1>2, <1>3, <3>2, WriteFileKeeps DEF write
    <3>4. Keeps(fs, write(f.fs, name, <<>>, FALSE).fs, k)
      BY <3>1, <3>3, KeepsOn
    <3> QED BY <2>2, <3>1, <3>4
  <2>6. PICK k : Serves(r, k)
    BY <1>1, <2>3, <2>5, RunServes
  <2>7. CASE text # <<>>
    <3>1. PICK appending : appending = FALSE
      OBVIOUS
    <3>2. r = write(fs, name, text, appending)
      BY <2>2, <2>7, <3>1
    <3> QED BY <2>6, <3>2, WriteStepped
  <2>8. CASE text = <<>>
    <3>1. r = (IF f.ok THEN write(f.fs, name, <<>>, FALSE) ELSE f) /\ <<>> \in Texts
      BY <2>2, <2>8
    <3> QED BY <2>1, <2>6, <3>1, EmptyCopyStepped
  <2> QED BY <2>7, <2>8
<1>13. ASSUME NEW source \in Name, NEW name \in Name, CopyFile(source, name) PROVE Stepped
  <2>1. PICK bytes : bytes = readFileFromFAT(fs, source)
    OBVIOUS
  <2>2. PICK r : r = IF Readable(fs, source) THEN write(fs, name, bytes, FALSE) ELSE Failed(fs)
    OBVIOUS
  <2>3. Run(r)
    BY <1>13, <2>1, <2>2 DEF CopyFile
  <2>4. mounted
    BY <2>3 DEF Run
  <2>5. CASE Readable(fs, source)
    <3>1. bytes \in Seq(Content) /\ r = write(fs, name, bytes, FALSE)
      BY <1>5, <2>1, <2>2, <2>4, <2>5, ReadOK
    <3>2. \A k : Keeps(fs, r.fs, k)
      BY <1>2, <1>5, <2>4, <3>1, WriteFileKeeps DEF write
    <3>3. PICK k : Serves(r, k)
      BY <1>1, <2>3, <3>2, RunServes
    <3> QED BY <2>1, <2>5, <3>1, <3>3, CopyStepped
  <2>6. CASE ~Readable(fs, source)
    <3>1. r.fs = fs
      BY <2>2, <2>6 DEF Failed
    <3>2. \A k : Keeps(fs, r.fs, k)
      BY <1>5, <2>4, <3>1, KeepsStill
    <3>3. PICK k : Serves(r, k)
      BY <1>1, <2>3, <3>2, RunServes
    <3> QED BY <3>1, <3>3, NothingDone
  <2> QED BY <2>5, <2>6
<1>14. ASSUME NEW name \in Name, NEW perm \in Granted, handleChmodCommand(name, perm)
       PROVE  Stepped
  <2>1. PICK r : r = chmodFile(fs, name, perm)
    OBVIOUS
  <2>2. Run(r)
    BY <1>14, <2>1 DEF handleChmodCommand
  <2>3. \A k : Keeps(fs, r.fs, k)
    BY <1>2, <1>5, <2>1, <2>2, ChmodKeeps DEF Run
  <2>4. PICK k : Serves(r, k)
    BY <1>1, <2>2, <2>3, RunServes
  <2> QED BY <2>1, <2>4, ChmodStepped
<1>15. ASSUME mounted, fs' = Settle(freeFat(fs)), mounted' = FALSE PROVE Stepped
  <2>1. PICK g : g = freeFat(fs)
    OBVIOUS
  <2>2. g.damage \subseteq Situations
    BY <1>1, <1>5, <1>15, <2>1, FreeFatAdds, SettleIs DEF Tidied
  <2>3. PICK k : Sound(fs, k) /\ DirectorySaved(fs, k)
    BY <1>4, <1>15
  <2>4. Stored(g, k) /\ Shows(g, g.disk, user)
    BY <1>5, <1>15, <2>1, <2>2, <2>3, FreedShown
  <2> QED BY <1>1, <1>15, <2>1, <2>4, StoredStepped
<1>16. ASSUME NEW valid \in BOOLEAN, handleMakeFsCommand(valid) PROVE Stepped
  <2>1. CASE valid
    <3>1. fs' = NewFat /\ mounted' = TRUE
      BY <1>16, <2>1 DEF handleMakeFsCommand
    <3>2. Seen' /\ F!Make
      BY <1>1, <3>1, MakeStepped
    <3> QED BY <3>2 DEF Stepped, F!Next
  <2>2. CASE ~valid /\ ~mounted
    <3>1. fs' = fs /\ mounted' = FALSE /\ mounted = FALSE
      BY <1>1, <1>16, <2>2 DEF handleMakeFsCommand
    <3>2. user' = user
      BY <1>1, <3>1 DEF IInv
    <3>3. Seen'
      BY <3>1, <3>2 DEF Seen, Directory
    <3> QED BY <3>2, <3>3 DEF Stepped
  <2>3. CASE ~valid /\ mounted
    <3>1. fs' = Settle(freeFat(fs)) /\ mounted' = FALSE
      BY <1>16, <2>3 DEF handleMakeFsCommand
    <3> QED BY <1>15, <2>3, <3>1
  <2> QED BY <2>1, <2>2, <2>3
<1>17. ASSUME handleMountCommand PROVE Stepped
  <2>1. PICK f : f = IF mounted THEN freeFat(fs) ELSE fs
    OBVIOUS
  <2>2. /\ f.damage \subseteq Situations
        /\ fs' = Settle(IF Loadable(f) THEN loadFat(f) ELSE f)
        /\ mounted' = Loadable(f)
    BY <1>17, <2>1 DEF handleMountCommand
  <2>3. \E k : Stored(f, k) /\ Shows(f, f.disk, user)
    <3>1. CASE mounted
      <4>1. PICK k : Sound(fs, k) /\ DirectorySaved(fs, k)
        BY <1>4, <3>1
      <4>2. f = freeFat(fs)
        BY <2>1, <3>1
      <4> QED BY <1>5, <2>2, <3>1, <4>1, <4>2, FreedShown
    <3>2. CASE ~mounted
      <4>1. f = fs /\ Shows(f, f.disk, user)
        BY <2>1, <3>2 DEF Seen, Directory
      <4> QED BY <1>1, <3>2, <4>1 DEF Intact
    <3> QED BY <3>1, <3>2
  <2>4. PICK k : Stored(f, k) /\ Shows(f, f.disk, user)
    BY <2>3
  <2>5. CASE ~Loadable(f)
    <3>1. fs' = Settle(f) /\ mounted' = FALSE
      BY <2>2, <2>5
    <3> QED BY <1>1, <2>4, <3>1, StoredStepped
  <2>6. CASE Loadable(f)
    <3>1. fs' = Settle(loadFat(f)) /\ mounted' = TRUE
      BY <2>2, <2>6
    <3> QED BY <1>1, <2>4, <3>1, LoadedStepped
  <2> QED BY <2>5, <2>6
<1>18. ASSUME handleUnmountCommand PROVE Stepped
  <2>1. PICK g : g = saveFat(fs)
    OBVIOUS
  <2>2. fs' = Settle(freeFat(g)) /\ mounted' = FALSE /\ mounted
    BY <1>18, <2>1 DEF handleUnmountCommand
  <2>3. DOMAIN g = Fields
    BY <1>5, <2>1, <2>2, SaveFatAdds
  <2>4. DOMAIN freeFat(g) = Fields /\ g.damage \subseteq freeFat(g).damage
    BY <2>3, FreeFatAdds
  <2>5. freeFat(g).damage \subseteq Situations
    BY <1>1, <2>2, <2>4, SettleIs DEF Tidied
  <2>6. Innocent(g) /\ Innocent(freeFat(g))
    BY <2>4, <2>5, AllowedIsInnocent
  <2>7. PICK k : Sound(fs, k)
    BY <1>4, <2>2
  <2>8. PICK m : /\ Sound(g, m) /\ g.dir = fs.dir
                 /\ m = (IF DirBlocks(Len(fs.dir)) > 1 THEN DirBlocks(Len(fs.dir)) ELSE 1)
    BY <2>1, <2>6, <2>7, SaveFatSound
  <2>9. g.dir = g.disk
    BY <2>3, <2>6 DEF Innocent, Forbidden, freeFat, Fields, Flag
  <2>10. DirectorySaved(g, m)
    BY <2>8, <2>9 DEF DirectorySaved
  <2>11. Shows(g, g.dir, user)
    <3>1. Preserves(fs, fs.dir, g)
      BY <2>1, <2>6, <2>7, SavePreserves
    <3> QED BY <1>5, <2>2, <2>8, <3>1, ShownStill
  <2>12. PICK q : q = freeFat(g)
    OBVIOUS
  <2>13. Stored(q, m) /\ Shows(q, q.disk, user)
    BY <2>5, <2>8, <2>10, <2>11, <2>12, FreedShown
  <2> QED BY <1>1, <2>2, <2>12, <2>13, StoredStepped
<1>19. ASSUME Quit PROVE Stepped
  BY <1>15, <1>19 DEF Quit
<1> QED BY <1>1, <1>7, <1>8, <1>9, <1>10, <1>11, <1>12, <1>13, <1>14, <1>16, <1>17, <1>18, <1>19
        DEF Command

-----------------------------------------------------------------------------
(***************************************************************************)
(* The theorems.                                                           *)
(***************************************************************************)
LEMMA Inductive ==
  ASSUME EofIsNoBlock, Careful
  PROVE  Spec => []IInv
<1>1. Init => IInv
  BY InitInv
<1>2. IInv /\ [Next]_vars => IInv'
  <2>1. CASE UNCHANGED vars
    BY <2>1 DEF IInv, vars, Intact, Contents, Directory
  <2>2. IInv /\ Next => IInv'
    BY NextInv
  <2> QED BY <2>1, <2>2
<1> QED BY <1>1, <1>2, PTL DEF Spec

\* The table belongs to the directory as it is, or will be.
LEMMA IInvLayout ==
  ASSUME IInv
  PROVE  \E k : Layout(fs.blocks, Directory(fs, mounted), k)
BY DEF IInv, Intact, Directory, Sound, Stored

\* Whatever the sizes of table, blocks and directory blocks: the file system is
\* one at all times, the count of free blocks within the table, and the user sees
\* what is in it (file.c, pennfathandler.c).
THEOREM FileSystemTyped ==
  ASSUME EofIsNoBlock, Careful
  PROVE  Spec => []TypeOK
<1>1. ASSUME IInv PROVE TypeOK
  BY <1>1, IntactTyped DEF IInv, TypeOK
<1>2. Spec => []IInv
  BY Inductive
<1>3. IInv => TypeOK
  BY <1>1
<1> QED BY <1>2, <1>3, PTL

\* Every file has just the blocks its size calls for, and the last of them is
\* marked as such, so that getBytes (file.c:154) does not leave it.
THEOREM FilesAreWhole ==
  ASSUME EofIsNoBlock, Careful
  PROVE  Spec => []ChainsWhole
<1>1. ASSUME IInv PROVE ChainsWhole
  BY <1>1, IInvLayout, LayoutIsWhole DEF ChainsWhole
<1>2. Spec => []IInv
  BY Inductive
<1>3. IInv => ChainsWhole
  BY <1>1
<1> QED BY <1>2, <1>3, PTL

\* No block belongs to two files, or to a file and the directory.
THEOREM FilesAreApart ==
  ASSUME EofIsNoBlock, Careful
  PROVE  Spec => []ChainsDisjoint
<1>1. ASSUME IInv PROVE ChainsDisjoint
  BY <1>1, IInvLayout, LayoutIsWhole DEF ChainsDisjoint
<1>2. Spec => []IInv
  BY Inductive
<1>3. IInv => ChainsDisjoint
  BY <1>1
<1> QED BY <1>2, <1>3, PTL

\* Every block in use is in the chain of the directory or of a file.
THEOREM NothingIsLost ==
  ASSUME EofIsNoBlock, Careful
  PROVE  Spec => []NoLostBlocks
<1>1. ASSUME IInv PROVE NoLostBlocks
  BY <1>1, IInvLayout, LayoutIsWhole DEF NoLostBlocks
<1>2. Spec => []IInv
  BY Inductive
<1>3. IInv => NoLostBlocks
  BY <1>1
<1> QED BY <1>2, <1>3, PTL

\* The count of free blocks leaves the directory the blocks that its next save
\* takes without a test.
THEOREM CountIsKept ==
  ASSUME EofIsNoBlock, Careful
  PROVE  Spec => []NeverOvercommits
<1>1. ASSUME IInv, mounted PROVE CountIsSafe(fs)
  BY <1>1, SoundIsSafe DEF IInv, Intact
<1>2. Spec => []IInv
  BY Inductive
<1>3. IInv => NeverOvercommits
  BY <1>1 DEF NeverOvercommits
<1> QED BY <1>2, <1>3, PTL

\* Whatever the sizes of table, blocks and directory blocks: pennfat, whose users do
\* not do what the situations name, keeps files.  What is read is what was last
\* written there, through all reuse of blocks (file.c), failures half way, umount
\* and mount (pennfathandler.c).
THEOREM FilesAreKept ==
  ASSUME EofIsNoBlock, Careful, MovesClear
  PROVE  Spec => IsFiles
<1>1. ASSUME Init PROVE IInv /\ Seen /\ F!Init
  <2>1. PICK d : d = <<>>
    OBVIOUS
  <2>2. d \in Seq(Entry) /\ DOMAIN d = {}
    BY <2>1, EmptySeq
  <2>3. PICK v : v = [name \in Name |-> NoFile]
    OBVIOUS
  <2>4. Shows(fs, d, v)
    BY <2>2, <2>3 DEF Shows, Views
  <2>5. d = Directory(fs, mounted) /\ user = Contents(fs, mounted)
    BY <1>1, <2>1 DEF Init, Directory, NewFat
  <2>6. user = v
    BY <2>2, <2>4, <2>5, ShownContents
  <2> QED BY <1>1, <2>3, <2>4, <2>5, <2>6, InitInv DEF Seen, F!Init
<1>2. ASSUME IInv, Seen, [Next]_vars PROVE IInv' /\ Seen' /\ [F!Next]_user
  <2>1. CASE Next
    BY <1>2, <2>1, NextInv, NextStepped DEF Stepped
  <2>2. CASE UNCHANGED vars
    BY <1>2, <2>2 DEF IInv, vars, Intact, Contents, Directory, Seen
  <2> QED BY <1>2, <2>1, <2>2
<1>3. Init => IInv /\ Seen /\ F!Init
  BY <1>1
<1>4. IInv /\ Seen /\ [Next]_vars => IInv' /\ Seen' /\ [F!Next]_user
  BY <1>2
<1> QED BY <1>3, <1>4, PTL DEF Spec, IsFiles, F!Spec
=============================================================================
