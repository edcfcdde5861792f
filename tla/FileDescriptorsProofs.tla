------------------------ MODULE FileDescriptorsProofs ------------------------
(***************************************************************************)
(* For any number of processes, files and command lines: a number that a   *)
(* program or the shell has been given leads to the file it was opened     *)
(* for, a file has one writer, and, where nobody leaves a file open, every *)
(* descriptor belongs to somebody.  Under them the table of links stays    *)
(* sound, all have their types, and what one descriptor writes goes behind *)
(* what it has written before.                                             *)
(*                                                                         *)
(* What is behind it: the list of descriptors has ascending numbers, a     *)
(* program closes only numbers it was given itself, nobody else uses       *)
(* those, and the shell closes the numbers it has handed on.  A call keeps *)
(* a sound table sound unless it meets a situation that damages it.  Who   *)
(* appends is never behind the end of the file, and a call either keeps    *)
(* the bytes in front of a position or does not move it on.                *)
(***************************************************************************)
EXTENDS FileDescriptors, FatProofs

\* What is needed of a descriptor.
IsFd(n) ==
  /\ DOMAIN n = {"id", "mode", "at", "stale", "pos"}
  /\ n.id \in Nat /\ n.at \in Addr

\* Descriptors of entries that are there, in the order of their numbers, no two of
\* which write to one entry.
FdsOK(f, d) ==
  /\ d \in Seq(Range(d))
  /\ \A i \in DOMAIN d : IsFd(d[i]) /\ d[i].at \in Ats(f.dir)
  /\ \A i, j \in DOMAIN d : i < j => d[i].id < d[j].id
  /\ \A i, j \in Writers(d) : d[i].at = d[j].at => i = j

\* The numbers that are open.
Numbers(d) == {[id |-> d[i].id, of |-> d[i].at] : i \in DOMAIN d}

\* A program has opened its input or its output itself.
InOwn(q) ==
  \/ q.cmd = "cat" /\ q.names # <<>> /\ q.at \in {"read", "write", "close"}
  \/ q.cmd = "cp" /\ q.at \in {"seek", "read", "close", "abort"}

OutOwn(q) ==
  \/ q.cmd = "touch" /\ q.at \in {"write", "close"}
  \/ q.cmd = "cp" /\ q.at \in {"write", "finish"}

Own(q) ==
  {h \in {q.in, q.out} : (h = q.in /\ InOwn(q)) \/ (h = q.out /\ OutOwn(q))}

\* The numbers of a program or of the shell.
Holds(q) == {q.in, q.out} \ {None, Terminal}

IsProgram(q) ==
  /\ DOMAIN q = {"cmd", "at", "names", "in", "out", "buf"}
  /\ q.names \in Seq(Name)
  /\ q.cmd = "touch" \/ q.at = "open" \/ (q.cmd = "cat" /\ q.at = "close")
       => q.names # <<>>
  /\ q.cmd = "cp" => Len(q.names) = 2
  /\ Own(q) \subseteq Holds(q)
  /\ Own(q) # {} => q.in # q.out

IsShell(s) ==
  /\ DOMAIN s = {"at", "line", "in", "out"}
  /\ s.at \in Range(Stages)
  /\ s.at = "prompt" => s = Idle
  /\ s.at # "prompt" => s.line \in Lines
  /\ s.at = "in" => s.line.in # None /\ s.in = None /\ s.out = Terminal
  /\ s.at = "out" => s.line.out # None /\ s.out = Terminal
  /\ s.at = "close_out" => s.out # Terminal
  /\ s.at = "close_in" => s.in # None /\ s.out = Terminal
  /\ s.in \in Held => s.in # s.out
  /\ s.in # Terminal /\ s.out # None

\* Programs ps and shell s go with the descriptors d.
UsersOK(d, ps, s) ==
  /\ ps = [p \in Proc |-> ps[p]] /\ \A p \in Proc : IsProgram(ps[p])
  /\ IsShell(s)
  /\ Holds(s) \subseteq Numbers(d)
  /\ \A p \in Proc : Holds(ps[p]) \subseteq Numbers(d)
  /\ \A p \in Proc : Own(ps[p]) \cap Holds(s) = {}
  /\ \A p, o \in Proc : p # o => Own(ps[p]) \cap Holds(ps[o]) = {}

\* What a program has not opened itself it has from the shell, which has not yet
\* closed it, and every descriptor is somebody's.
AllHeld(d, ps, s) ==
  /\ \A p \in Proc : /\ InOwn(ps[p]) \/ ps[p].in \in {None, s.in}
                     /\ OutOwn(ps[p]) \/ ps[p].out \in {Terminal, s.out}
  /\ Numbers(d) \subseteq Holds(s) \cup UNION {Holds(ps[p]) : p \in Proc}

Orderly(f, d, ps, s) ==
  /\ FsOK(f) /\ FdsOK(f, d) /\ UsersOK(d, ps, s)
  /\ "left_open" \notin Situations => AllHeld(d, ps, s)

\* The inductive invariant.
IInv == Orderly(fs, fds, prog, shell)

-----------------------------------------------------------------------------
(***************************************************************************)
(* The list of descriptors.                                                *)
(***************************************************************************)
\* The places of a list.
LEMMA FdsFacts ==
  ASSUME NEW f, NEW d, FdsOK(f, d)
  PROVE  Len(d) \in Nat /\ DOMAIN d = 1..Len(d) /\ DOMAIN d \subseteq Nat \ {0}
<1>1. Len(d) \in Nat /\ DOMAIN d = 1..Len(d)
  BY LenProperties DEF FdsOK
<1> QED BY <1>1

\* A number leads to its descriptor, any other to none.
LEMMA NodeFacts ==
  ASSUME NEW f, NEW d, FdsOK(f, d), NEW id
  PROVE  /\ Node(d, id) = 0 <=> \A i \in DOMAIN d : d[i].id # id
         /\ Node(d, id) # 0 => Node(d, id) \in DOMAIN d /\ d[Node(d, id)].id = id
         /\ \A i \in DOMAIN d : d[i].id = id => Node(d, id) = i
<1> DEFINE T == {i \in DOMAIN d : d[i].id = id}
<1>1. T \subseteq Nat \ {0}
  BY FdsFacts
<1>2. Node(d, id) = FirstOf(T)
  BY DEF Node
<1>3. (Node(d, id) = 0 <=> T = {}) /\ (T # {} => Node(d, id) \in T)
  <2> HIDE DEF T
  <2> QED BY <1>1, <1>2, FirstOfPlaces
<1>4. \A i, j \in DOMAIN d : d[i].id = d[j].id => i = j
  <2> TAKE i, j \in DOMAIN d
  <2>1. i \in Nat /\ j \in Nat /\ d[i].id \in Nat /\ d[j].id \in Nat
    BY FdsFacts DEF FdsOK, IsFd
  <2>2. (i < j => d[i].id < d[j].id) /\ (j < i => d[j].id < d[i].id)
    BY DEF FdsOK
  <2> QED BY <2>1, <2>2
<1> QED BY <1>3, <1>4

\* An open number is found, and leads to the entry it was opened for.
LEMMA NumberFound ==
  ASSUME NEW f, NEW d, FdsOK(f, d), NEW h
  PROVE  /\ h \in Numbers(d) => /\ h \in Held
                                /\ Node(d, h.id) # 0 /\ d[Node(d, h.id)].at = h.of
         /\ Node(d, h.id) = 0 => h \notin Numbers(d)
<1>1. ASSUME h \in Numbers(d)
      PROVE  h \in Held /\ Node(d, h.id) # 0 /\ d[Node(d, h.id)].at = h.of
  <2>1. PICK i \in DOMAIN d : h = [id |-> d[i].id, of |-> d[i].at]
    BY <1>1 DEF Numbers
  <2>2. d[i].id \in Nat /\ d[i].at \in Addr
    BY DEF FdsOK, IsFd
  <2>3. Node(d, h.id) = i /\ i # 0
    BY <2>1, NodeFacts, FdsFacts
  <2> QED BY <2>1, <2>2, <2>3 DEF Held
<1> QED BY <1>1

\* Two numbers that are equal as numbers are the same.
LEMMA NumbersDiffer ==
  ASSUME NEW f, NEW d, FdsOK(f, d), NEW g \in Numbers(d), NEW h \in Numbers(d), g.id = h.id
  PROVE  g = h
<1>1. PICK i \in DOMAIN d : g = [id |-> d[i].id, of |-> d[i].at]
  BY DEF Numbers
<1>2. PICK j \in DOMAIN d : h = [id |-> d[j].id, of |-> d[j].at]
  BY DEF Numbers
<1>3. Node(d, g.id) = i /\ Node(d, h.id) = j
  BY <1>1, <1>2, NodeFacts
<1> QED BY <1>1, <1>2, <1>3

\* List d has become e, with the same numbers, entries and modes in the same places.
SameFds(d, e) ==
  /\ e \in Seq(Range(e)) /\ DOMAIN e = DOMAIN d
  /\ \A i \in DOMAIN d : /\ IsFd(e[i]) /\ e[i].id = d[i].id /\ e[i].at = d[i].at
                         /\ e[i].mode = d[i].mode

\* Such a list is as sound as it was.
LEMMA SameFdsOK ==
  ASSUME NEW f, NEW d, FdsOK(f, d), NEW g, Ats(f.dir) \subseteq Ats(g.dir),
         NEW e, SameFds(d, e)
  PROVE  FdsOK(g, e) /\ Numbers(e) = Numbers(d)
<1>1. Writers(e) = Writers(d)
  BY DEF Writers, SameFds
<1>2. Numbers(e) = Numbers(d)
  BY DEF Numbers, SameFds
<1>3. FdsOK(g, e)
  <2>1. \A i \in DOMAIN e : IsFd(e[i]) /\ e[i].at \in Ats(g.dir)
    BY DEF SameFds, FdsOK
  <2>2. \A i, j \in DOMAIN e : i < j => e[i].id < e[j].id
    BY DEF SameFds, FdsOK
  <2>3. \A i, j \in Writers(e) : e[i].at = e[j].at => i = j
    BY <1>1 DEF SameFds, FdsOK, Writers
  <2> QED BY <2>1, <2>2, <2>3 DEF SameFds, FdsOK
<1> QED BY <1>2, <1>3

\* A list that stays is the same.
LEMMA FdsStay ==
  ASSUME NEW f, NEW d, FdsOK(f, d)
  PROVE  SameFds(d, d)
BY DEF SameFds, FdsOK

\* The position of a descriptor may change.
LEMMA PositionSet ==
  ASSUME NEW f, NEW d, FdsOK(f, d), NEW i, NEW pos
  PROVE  SameFds(d, [d EXCEPT ![i].pos = pos])
<1> DEFINE e == [d EXCEPT ![i].pos = pos]
<1>1. Len(d) \in Nat /\ DOMAIN d = 1..Len(d)
  BY FdsFacts
<1>2. DOMAIN e = 1..Len(d) /\ e = [j \in 1..Len(d) |-> e[j]]
  BY <1>1
<1>3. \A j \in DOMAIN d : e[j] = IF j = i THEN [d[j] EXCEPT !.pos = pos] ELSE d[j]
  BY <1>1
<1> HIDE DEF e
<1>4. e \in Seq(Range(e))
  BY <1>1, <1>2, SequenceOfItself
<1>5. \A j \in DOMAIN d : IsFd(d[j])
  BY DEF FdsOK
<1>6. \A j \in DOMAIN d : /\ IsFd(e[j]) /\ e[j].id = d[j].id /\ e[j].at = d[j].at
                         /\ e[j].mode = d[j].mode
  BY <1>3, <1>5 DEF IsFd
<1> QED BY <1>1, <1>2, <1>4, <1>6 DEF SameFds, e

\* So may the mark of a stale pointer.
LEMMA StaleSet ==
  ASSUME NEW f, NEW d, FdsOK(f, d), NEW i, NEW stale
  PROVE  /\ SameFds(d, [d EXCEPT ![i].stale = stale])
         /\ SameFds(d, [j \in DOMAIN d |-> [d[j] EXCEPT !.stale = stale]])
<1> DEFINE e == [d EXCEPT ![i].stale = stale]
           u == [j \in DOMAIN d |-> [d[j] EXCEPT !.stale = stale]]
<1>1. Len(d) \in Nat /\ DOMAIN d = 1..Len(d)
  BY FdsFacts
<1>2. /\ DOMAIN e = 1..Len(d) /\ e = [j \in 1..Len(d) |-> e[j]]
      /\ DOMAIN u = 1..Len(d) /\ u = [j \in 1..Len(d) |-> u[j]]
  BY <1>1
<1>3. \A j \in DOMAIN d : /\ e[j] = IF j = i THEN [d[j] EXCEPT !.stale = stale] ELSE d[j]
                         /\ u[j] = [d[j] EXCEPT !.stale = stale]
  BY <1>1
<1> HIDE DEF e, u
<1>4. e \in Seq(Range(e)) /\ u \in Seq(Range(u))
  BY <1>1, <1>2, SequenceOfItself
<1>5. \A j \in DOMAIN d : IsFd(d[j])
  BY DEF FdsOK
<1>6. \A j \in DOMAIN d : /\ IsFd(e[j]) /\ e[j].id = d[j].id /\ e[j].at = d[j].at
                         /\ e[j].mode = d[j].mode
                         /\ IsFd(u[j]) /\ u[j].id = d[j].id /\ u[j].at = d[j].at
                         /\ u[j].mode = d[j].mode
  BY <1>3, <1>5 DEF IsFd
<1> QED BY <1>1, <1>2, <1>4, <1>6 DEF SameFds, e, u

-----------------------------------------------------------------------------
(***************************************************************************)
(* The calls of filedescriptor.c.                                          *)
(***************************************************************************)
\* A flag changes nothing but the damage.
LEMMA Flagged ==
  ASSUME NEW f, FsOK(f), NEW flags
  PROVE  LET g == [f EXCEPT !.damage = @ \cup flags]
         IN  FsOK(g) /\ g.dir = f.dir /\ g.damage = f.damage \cup flags
BY DEF FsOK, Fields

\* A search that goes too far changes nothing else.
LEMMA SearchedOK ==
  ASSUME NEW f, FsOK(f), NEW d
  PROVE  FsOK(Searched(f, d)) /\ Searched(f, d).dir = f.dir
BY Flagged DEF Searched

\* The entry a descriptor points to is there.
LEMMA EntryFacts ==
  ASSUME NEW f, FsOK(f), NEW n, n.at \in Ats(f.dir)
  PROVE  /\ EntryOf(f, n) \in DOMAIN f.dir /\ f.dir[EntryOf(f, n)].at = n.at
         /\ NameOf(f, n) \in Name /\ Find(f, NameOf(f, n)) = EntryOf(f, n)
         /\ Find(f, NameOf(f, n)) # 0
<1> DEFINE T == {i \in DOMAIN f.dir : f.dir[i].at = n.at}
<1>1. T \subseteq Nat \ {0}
  BY DirFacts DEF FsOK
<1>2. T # {}
  BY DEF Ats
<1>3. EntryOf(f, n) = FirstOf(T)
  BY DEF EntryOf
<1>4. EntryOf(f, n) \in T
  <2> HIDE DEF T
  <2> QED BY <1>1, <1>2, <1>3, FirstOfPlaces
<1>5. IsEntry(f.dir[EntryOf(f, n)])
  BY <1>4 DEF FsOK, DirOK
<1>6. Find(f, NameOf(f, n)) = EntryOf(f, n)
  BY <1>4, FindFacts DEF FsOK, NameOf
<1> QED BY <1>1, <1>4, <1>5, <1>6 DEF NameOf, IsEntry

\* A call that leaves a sound file system and list.
IsCall(c) == {"fs", "fds"} \subseteq DOMAIN c /\ FsOK(c.fs) /\ FdsOK(c.fs, c.fds)

\* ... and opens and closes nothing.
Steady(d, c) == IsCall(c) /\ Numbers(c.fds) = Numbers(d)

\* A list that is the same but for positions, in a file system with the same entries.
LEMMA SteadyCall ==
  ASSUME NEW f, NEW d, FsOK(f), FdsOK(f, d), NEW g, FsOK(g), Ats(f.dir) \subseteq Ats(g.dir),
         NEW e, SameFds(d, e),
         NEW c, {"fs", "fds"} \subseteq DOMAIN c, c.fs = g, c.fds = e
  PROVE  Steady(d, c)
BY SameFdsOK DEF Steady, IsCall

\* Reading moves at most a position.
LEMMA ReadSteady ==
  ASSUME NEW f, NEW d, FsOK(f), FdsOK(f, d), NEW id, NEW n
  PROVE  Steady(d, f_read(f, d, id, n))
<1> DEFINE i == Node(d, id)
           bytes == readFileFromFAT(f, NameOf(f, d[i]))
           rest == SubSeq(bytes, d[i].pos + 1, Min({Len(bytes), d[i].pos + n}))
           moved == [d EXCEPT ![i].pos = @ + Len(rest)]
           c == [ok |-> TRUE, fs |-> f, fds |-> moved, bytes |-> rest]
<1>1. f_read(f, d, id, n)
        = IF i = 0 THEN Call(FALSE, Searched(f, d), d)
          ELSE IF ~Readable(f, NameOf(f, d[i])) THEN Call(FALSE, f, d) ELSE c
  BY DEF f_read
<1>2. Steady(d, Call(FALSE, Searched(f, d), d))
  BY SearchedOK, FdsStay, SteadyCall DEF Call
<1>3. Steady(d, Call(FALSE, f, d))
  BY FdsStay, SteadyCall DEF Call
<1>4. SameFds(d, moved)
  <2> HIDE DEF i, rest
  <2>1. SameFds(d, [d EXCEPT ![i].pos = d[i].pos + Len(rest)])
    BY PositionSet
  <2> QED BY <2>1
<1> HIDE DEF i, rest, moved
<1>5. Steady(d, c)
  BY <1>4, SteadyCall
<1> HIDE DEF c
<1> QED BY <1>1, <1>2, <1>3, <1>5

\* So does going to the end.
LEMMA SeekSteady ==
  ASSUME NEW f, NEW d, FsOK(f), FdsOK(f, d), NEW id
  PROVE  Steady(d, f_lseek(f, d, id))
<1> DEFINE i == Node(d, id)
           size == f.dir[EntryOf(f, d[i])].size
<1>1. SameFds(d, [d EXCEPT ![i].pos = size])
  <2> HIDE DEF i, size
  <2> QED BY PositionSet
<1> QED BY <1>1, SteadyCall DEF f_lseek, Call

\* So does writing, which keeps names and addresses of the entries.
LEMMA WriteSteady ==
  ASSUME NEW f, NEW d, FsOK(f), FdsOK(f, d), NEW id, NEW bytes
  PROVE  Steady(d, f_write(f, d, id, bytes))
<1> DEFINE i == Node(d, id)
           name == NameOf(f, d[i])
           offset == IF d[i].mode = "write" THEN d[i].pos ELSE 0
           w == writeFileToFAT(f, name, bytes, offset, d[i].mode = "append", None)
<1>1. \A ok : Steady(d, Call(ok, f, d))
  BY FdsStay, SteadyCall DEF Call
<1>2. Steady(d, Call(FALSE, Searched(f, d), d))
  BY SearchedOK, FdsStay, SteadyCall DEF Call
<1>3. ASSUME i # 0 PROVE Steady(d, Moved(w, d, i, bytes))
  <2>1. d[i].at \in Ats(f.dir)
    BY <1>3, NodeFacts DEF FdsOK
  <2>2. Find(f, name) # 0
    BY <2>1, EntryFacts
  <2> HIDE DEF name, offset, i
  <2>3. Kept(f, w.fs)
    BY <2>2, ExistingKept
  <2> HIDE DEF w
  <2>4. FsOK(w.fs) /\ Ats(w.fs.dir) = Ats(f.dir)
    BY <2>3, KeptOK
  <2> DEFINE pos == IF d[i].mode = "write" THEN d[i].pos + Len(bytes)
                    ELSE w.fs.dir[EntryOf(w.fs, d[i])].size
             moved == [d EXCEPT ![i].pos = pos]
  <2>5. SameFds(d, moved)
    <3> HIDE DEF pos
    <3> QED BY PositionSet
  <2>6. SameFds(d, d)
    BY FdsStay
  <2>7. moved = [d EXCEPT ![i].pos = IF d[i].mode = "write" THEN @ + Len(bytes)
                                     ELSE w.fs.dir[EntryOf(w.fs, d[i])].size]
    OBVIOUS
  <2>8. Moved(w, d, i, bytes) = IF ~w.ok THEN Call(FALSE, w.fs, d) ELSE Call(TRUE, w.fs, moved)
    BY <2>7 DEF Moved
  <2> HIDE DEF moved
  <2>9. Steady(d, Call(FALSE, w.fs, d)) /\ Steady(d, Call(TRUE, w.fs, moved))
    BY <2>4, <2>5, <2>6, SteadyCall DEF Call
  <2> QED BY <2>8, <2>9
<1>4. f_write(f, d, id, bytes)
        = IF id = Terminal.id THEN Call(TRUE, f, d)
          ELSE IF i = 0 THEN Call(FALSE, Searched(f, d), d)
          ELSE IF d[i].mode = "read" \/ (d[i].mode = "write" /\ ~Readable(f, name))
            THEN Call(FALSE, f, d)
          ELSE Moved(w, d, i, bytes)
  BY DEF f_write
<1> HIDE DEF i, w, name
<1> QED BY <1>1, <1>2, <1>3, <1>4

\* There are addresses enough for a file that is missing.
LEMMA NewAddrFacts ==
  ASSUME NEW f, FsOK(f), NEW name \in Name, Find(f, name) = 0
  PROVE  NewAddr(f) \in Addr /\ NewAddr(f) \notin Ats(f.dir)
<1>1. DirOK(f.dir)
  BY DEF FsOK
<1>2. \E at \in Addr : at \notin Ats(f.dir)
  <2>1. SUFFICES ASSUME \A at \in Addr : at \in Ats(f.dir) PROVE FALSE
    OBVIOUS
  <2> DEFINE place(at) == CHOOSE i \in DOMAIN f.dir : f.dir[i].at = at
             named == [at \in Addr |-> f.dir[place(at)].name]
             T == Name \ {name}
  <2>2. \A at \in Addr : place(at) \in DOMAIN f.dir /\ f.dir[place(at)].at = at
    BY <2>1 DEF Ats
  <2> HIDE DEF place
  <2>3. \A i \in DOMAIN f.dir : f.dir[i].name \in T
    BY <1>1, FindFacts DEF DirOK, IsEntry
  <2>4. named \in [Addr -> T]
    BY <2>2, <2>3
  <2>5. \A a, b \in Addr : named[a] = named[b] => a = b
    BY <1>1, <2>2 DEF DirOK
  <2> HIDE DEF named
  <2>6. IsFiniteSet(Name) /\ IsFiniteSet(Addr) /\ Cardinality(Addr) >= Cardinality(Name)
    BY DescriptorAssumption
  <2>7. IsFiniteSet(T) /\ Cardinality(T) = Cardinality(Name) - 1
    BY <2>6, FS_RemoveElement
  <2>8. Cardinality(Name) \in Nat /\ Cardinality(Addr) \in Nat
    BY <2>6, FS_CardinalityType
  <2> HIDE DEF T
  <2>9. Cardinality(T) < Cardinality(Addr)
    BY <2>6, <2>7, <2>8
  <2>10. \E a, b \in Addr : a # b /\ named[a] = named[b]
    BY <2>4, <2>6, <2>7, <2>9, FS_PigeonHole
  <2> QED BY <2>5, <2>10
<1> QED BY <1>2 DEF NewAddr

\* ... and opens one number more.
OneMore(d, c) ==
  /\ c.ok /\ IsCall(c)
  /\ Numbers(c.fds) = Numbers(d) \cup {c.held} /\ c.held \notin Numbers(d)

\* A new descriptor, the entry of which has no other writer if it is to be written,
\* gets a number that is not in use.
LEMMA OpenedOK ==
  ASSUME NEW f, NEW d, FsOK(f), FdsOK(f, d), NEW mode, NEW e, e.at \in Ats(f.dir),
         mode \in {"write", "append"} => \A i \in Writers(d) : d[i].at # e.at
  PROVE  OneMore(d, Opened(f, d, mode, e))
<1> DEFINE c == Opened(f, d, mode, e)
           u == [i \in DOMAIN d |-> [d[i] EXCEPT !.stale = FALSE]]
           n == [id |-> NextId(d), mode |-> mode, at |-> e.at, stale |-> FALSE,
                 pos |-> IF mode = "append" THEN e.size ELSE 0]
           S == Range(u) \cup {n}
           v == Append(u, n)
<1>1. /\ {"fs", "fds"} \subseteq DOMAIN c /\ c.ok /\ c.fds = v /\ c.held = [id |-> NextId(d), of |-> e.at]
      /\ FsOK(c.fs) /\ c.fs.dir = f.dir
  BY Flagged DEF Opened
<1>2. SameFds(d, u)
  BY StaleSet
<1>3. FdsOK(f, u) /\ Numbers(u) = Numbers(d)
  BY <1>2, SameFdsOK
<1>4. NextId(d) \in Nat /\ \A i \in DOMAIN d : d[i].id < NextId(d)
  <2>1. Len(d) \in Nat /\ DOMAIN d = 1..Len(d)
    BY FdsFacts
  <2>2. \A i \in DOMAIN d : d[i].id \in Nat
    BY DEF FdsOK, IsFd
  <2>3. CASE d = <<>>
    <3>1. DOMAIN d = {}
      BY <2>3
    <3> QED BY <2>3, <3>1 DEF NextId
  <2>4. CASE d # <<>>
    <3>1. Len(d) \in DOMAIN d
      <4>1. d \in Seq(Range(d))
        BY DEF FdsOK
      <4>2. Len(d) # 0
        BY <2>4, <4>1, EmptySeq
      <4> QED BY <2>1, <4>2
    <3>2. NextId(d) = d[Len(d)].id + 1
      BY <2>4 DEF NextId, Last
    <3>3. \A i \in DOMAIN d : i = Len(d) \/ d[i].id < d[Len(d)].id
      BY <2>1, <3>1 DEF FdsOK
    <3> QED BY <2>2, <3>1, <3>2, <3>3
  <2> QED BY <2>3, <2>4
<1>5. IsFd(n) /\ n.id = NextId(d) /\ n.at = e.at /\ n.mode = mode
  <2>1. e.at \in Addr
    BY DEF Ats, FsOK, DirOK, IsEntry
  <2> QED BY <1>4, <2>1 DEF IsFd
<1>6. Len(u) = Len(d) /\ Len(d) \in Nat /\ DOMAIN u = 1..Len(d) /\ DOMAIN d = 1..Len(d)
  BY <1>2, <1>3, FdsFacts DEF SameFds
<1> HIDE DEF n, u
<1>7. u \in Seq(S) /\ n \in S
  <2>1. u \in Seq(Range(u)) /\ Range(u) \subseteq S
    BY <1>2 DEF SameFds
  <2> HIDE DEF S
  <2>2. u \in Seq(S)
    BY <2>1, SeqMonotonic
  <2> QED BY <2>2 DEF S
<1> HIDE DEF S
<1>8. /\ v \in Seq(S) /\ Len(v) = Len(d) + 1
      /\ \A i \in 1..Len(d) : v[i] = u[i]
      /\ v[Len(d) + 1] = n
  BY <1>6, <1>7, AppendProperties
<1> HIDE DEF v
<1>9. DOMAIN v = 1..(Len(d) + 1) /\ v \in Seq(Range(v))
  BY <1>8, LenProperties, SeqOfRange
<1>10. /\ \A i \in DOMAIN v : i = Len(d) + 1 \/ i \in DOMAIN u
       /\ \A i \in DOMAIN u : i < Len(d) + 1 /\ i \in DOMAIN v
       /\ Len(d) + 1 \in DOMAIN v
  BY <1>6, <1>9
<1>11. \A i \in DOMAIN u : v[i] = u[i] /\ u[i].id = d[i].id /\ u[i].at = d[i].at
                         /\ u[i].mode = d[i].mode /\ i \in DOMAIN d
  BY <1>2, <1>6, <1>8 DEF SameFds
<1>12. FdsOK(f, v)
  <2>1. \A i \in DOMAIN v : IsFd(v[i]) /\ v[i].at \in Ats(f.dir)
    BY <1>3, <1>5, <1>8, <1>10, <1>11 DEF FdsOK
  <2>2. ASSUME NEW i \in DOMAIN v, NEW j \in DOMAIN v, i < j PROVE v[i].id < v[j].id
    <3>1. i \in DOMAIN u
      BY <1>6, <1>9, <2>2
    <3>2. CASE j = Len(d) + 1
      BY <1>4, <1>5, <1>8, <1>11, <3>1, <3>2
    <3>3. CASE j \in DOMAIN u
      BY <1>3, <1>11, <2>2, <3>1, <3>3 DEF FdsOK
    <3> QED BY <1>10, <3>2, <3>3
  <2>3. ASSUME NEW i \in Writers(v), NEW j \in Writers(v), v[i].at = v[j].at PROVE i = j
    <3>1. i \in DOMAIN v /\ j \in DOMAIN v
      BY DEF Writers
    <3>2. \A k \in DOMAIN u : k \in Writers(v) => k \in Writers(u) /\ k \in Writers(d)
      BY <1>11 DEF Writers
    <3>3. Len(d) + 1 \in Writers(v) => \A k \in Writers(d) : d[k].at # e.at
      BY <1>5, <1>8 DEF Writers
    <3>4. CASE i \in DOMAIN u /\ j \in DOMAIN u
      BY <1>3, <1>11, <2>3, <3>2, <3>4 DEF FdsOK
    <3>5. CASE i \in DOMAIN u /\ j = Len(d) + 1
      BY <1>5, <1>8, <1>11, <2>3, <3>2, <3>3, <3>5
    <3>6. CASE i = Len(d) + 1 /\ j \in DOMAIN u
      BY <1>5, <1>8, <1>11, <2>3, <3>2, <3>3, <3>6
    <3> QED BY <1>10, <3>1, <3>4, <3>5, <3>6
  <2> QED BY <1>9, <2>1, <2>2, <2>3 DEF FdsOK
<1>13. FdsOK(c.fs, v)
  BY <1>1, <1>12 DEF FdsOK
<1>14. Numbers(v) = Numbers(u) \cup {[id |-> NextId(d), of |-> e.at]}
  <2>1. ASSUME NEW h \in Numbers(v)
        PROVE  h \in Numbers(u) \cup {[id |-> NextId(d), of |-> e.at]}
    <3>1. PICK i \in DOMAIN v : h = [id |-> v[i].id, of |-> v[i].at]
      BY DEF Numbers
    <3>2. CASE i \in DOMAIN u
      BY <1>11, <3>1, <3>2 DEF Numbers
    <3>3. CASE i = Len(d) + 1
      BY <1>5, <1>8, <3>1, <3>3
    <3> QED BY <1>10, <3>2, <3>3
  <2>2. [id |-> NextId(d), of |-> e.at] \in Numbers(v)
    BY <1>5, <1>8, <1>10 DEF Numbers
  <2>3. Numbers(u) \subseteq Numbers(v)
    BY <1>10, <1>11 DEF Numbers
  <2> QED BY <2>1, <2>2, <2>3
<1>15. [id |-> NextId(d), of |-> e.at] \notin Numbers(d)
  <2> SUFFICES ASSUME [id |-> NextId(d), of |-> e.at] \in Numbers(d) PROVE FALSE
    OBVIOUS
  <2>1. PICK i \in DOMAIN d : NextId(d) = d[i].id
    BY DEF Numbers
  <2> QED BY <1>4, <2>1
<1> HIDE DEF c
<1>16. OneMore(d, c)
  BY <1>1, <1>3, <1>13, <1>14, <1>15 DEF OneMore, IsCall
<1> QED BY <1>16 DEF c

\* f_open opens one number more, for a file nobody else writes to if it is to be
\* written, or leaves the numbers alone.
LEMMA OpenOK ==
  ASSUME NEW f, NEW d, FsOK(f), FdsOK(f, d), NEW name \in Name, NEW mode
  PROVE  LET c == f_open(f, d, name, mode)
         IN  (c.ok => OneMore(d, c)) /\ (~c.ok => Steady(d, c))
<1> DEFINE g == IF mode = "read" THEN f ELSE Searched(f, d)
           k == Find(f, name)
           made == writeFileToFAT(g, name, <<>>, 0, FALSE, NewAddr(f))
           existing == Opened(g, d, mode, f.dir[k])
           missing == OpenedNew(made, d, name, mode)
           fails == Call(FALSE, f, d)
<1>1. f_open(f, d, name, mode)
        = IF mode # "read" /\ OpenForWriting(f, d, name) THEN fails
          ELSE IF k # 0 THEN existing
          ELSE IF mode = "read" THEN fails ELSE missing
  BY DEF f_open
<1>2. Steady(d, fails) /\ ~fails.ok
  BY FdsStay, SteadyCall DEF Call
<1>3. FsOK(g) /\ g.dir = f.dir /\ FdsOK(g, d)
  <2>1. FsOK(g) /\ g.dir = f.dir
    BY SearchedOK
  <2> QED BY <2>1 DEF FdsOK
<1> HIDE DEF g
<1>4. ASSUME k # 0, ~ (mode # "read" /\ OpenForWriting(f, d, name))
      PROVE  OneMore(d, existing)
  <2>1. k \in DOMAIN f.dir /\ f.dir[k].name = name /\ f.dir[k].at \in Ats(g.dir)
    BY <1>3, <1>4, FindFacts DEF FsOK, Ats
  <2> HIDE DEF k
  <2>2. ASSUME mode \in {"write", "append"}, NEW i \in Writers(d), d[i].at = f.dir[k].at
        PROVE  FALSE
    <3>1. d[i].at \in Ats(f.dir)
      BY DEF Writers, FdsOK
    <3>2. EntryOf(f, d[i]) \in DOMAIN f.dir /\ f.dir[EntryOf(f, d[i])].at = d[i].at
      BY <3>1, EntryFacts
    <3>3. EntryOf(f, d[i]) = k
      BY <2>1, <2>2, <3>2 DEF FsOK, DirOK
    <3>4. NameOf(f, d[i]) = name
      BY <2>1, <3>3 DEF NameOf
    <3> QED BY <1>4, <2>2, <3>4 DEF OpenForWriting
  <2> QED BY <1>3, <2>1, <2>2, OpenedOK
<1>5. ASSUME k = 0 PROVE (missing.ok => OneMore(d, missing)) /\ (~missing.ok => Steady(d, missing))
  <2>1. NewAddr(f) \in Addr /\ NewAddr(f) \notin Ats(g.dir) /\ Find(g, name) = 0
    BY <1>3, <1>5, NewAddrFacts DEF Find
  <2> HIDE DEF k, existing, missing, fails
  <2>2. /\ ~made.ok => made.fs = g
        /\ made.ok => /\ FsOK(made.fs) /\ Ats(made.fs.dir) = Ats(g.dir) \cup {NewAddr(f)}
                      /\ made.fs.dir[Find(made.fs, name)].at = NewAddr(f)
    <3> DEFINE at == NewAddr(f)
    <3>1. at \in Addr /\ at \notin Ats(g.dir)
      BY <2>1
    <3> HIDE DEF at
    <3>2. ASSUME NEW bytes, NEW offset, NEW appending
          PROVE  LET w == writeFileToFAT(g, name, bytes, offset, appending, at)
                 IN  /\ ~w.ok => w.fs = g
                     /\ w.ok => /\ FsOK(w.fs) /\ Ats(w.fs.dir) = Ats(g.dir) \cup {at}
                                /\ w.fs.dir[Find(w.fs, name)].at = at
      BY <1>3, <2>1, <3>1, MissingCreated
    <3>3. LET w == writeFileToFAT(g, name, <<>>, 0, FALSE, at)
          IN  /\ ~w.ok => w.fs = g
              /\ w.ok => /\ FsOK(w.fs) /\ Ats(w.fs.dir) = Ats(g.dir) \cup {at}
                         /\ w.fs.dir[Find(w.fs, name)].at = at
      BY <3>2
    <3> QED BY <3>3 DEF at
  <2> HIDE DEF made
  <2>3. CASE ~made.ok
    <3>1. missing = Call(FALSE, g, d)
      BY <2>2, <2>3 DEF OpenedNew, missing, made
    <3>2. Steady(d, Call(FALSE, g, d)) /\ ~Call(FALSE, g, d).ok
      BY <1>3, FdsStay, SteadyCall DEF Call
    <3> QED BY <3>1, <3>2
  <2>4. CASE made.ok
    <3> DEFINE e == made.fs.dir[Find(made.fs, name)]
    <3>1. missing = Opened(made.fs, d, mode, e)
      BY <2>4 DEF OpenedNew, missing, made
    <3>2. FdsOK(made.fs, d)
      BY <1>3, <2>2, <2>4, FdsStay, SameFdsOK
    <3>3. e.at \in Ats(made.fs.dir)
      BY <2>2, <2>4
    <3>4. \A i \in Writers(d) : d[i].at # e.at
      BY <1>3, <2>1, <2>2, <2>4 DEF Writers, FdsOK
    <3> HIDE DEF e
    <3>5. OneMore(d, Opened(made.fs, d, mode, e))
      BY <2>2, <2>4, <3>2, <3>3, <3>4, OpenedOK
    <3> QED BY <3>1, <3>5 DEF OneMore
  <2> QED BY <2>3, <2>4
<1> HIDE DEF k, existing, missing, fails
<1> QED BY <1>1, <1>2, <1>4, <1>5 DEF OneMore

\* A call that closes number id.
OneLess(d, id, c) ==
  /\ c.ok /\ IsCall(c)
  /\ Numbers(c.fds) = {h \in Numbers(d) : h.id # id}

\* f_close closes that number and no other.
LEMMA CloseOK ==
  ASSUME NEW f, NEW d, FsOK(f), FdsOK(f, d), NEW id
  PROVE  LET c == f_close(f, d, id)
         IN  /\ c.ok => OneLess(d, id, c)
             /\ ~c.ok => Steady(d, c) /\ \A h \in Numbers(d) : h.id # id
<1> DEFINE i == Node(d, id)
           u == IF i = Len(d) /\ i > 1 THEN [d EXCEPT ![i - 1].stale = TRUE] ELSE d
           v == RemoveAt(u, i)
           closed == Call(TRUE, saveFat(f), v)
<1>1. f_close(f, d, id) = IF i = 0 THEN Call(FALSE, Searched(f, d), d) ELSE closed
  BY DEF f_close
<1>2. CASE i = 0
  <2>1. Steady(d, Call(FALSE, Searched(f, d), d)) /\ ~Call(FALSE, Searched(f, d), d).ok
    BY SearchedOK, FdsStay, SteadyCall DEF Call
  <2>2. \A h \in Numbers(d) : h.id # id
    BY <1>2, NodeFacts DEF Numbers
  <2> QED BY <1>1, <1>2, <2>1, <2>2
<1>3. CASE i # 0
  <2>1. i \in DOMAIN d /\ d[i].id = id
    BY <1>3, NodeFacts
  <2>2. /\ {"fs", "fds"} \subseteq DOMAIN closed /\ closed.ok /\ closed.fds = v
        /\ FsOK(closed.fs) /\ closed.fs.dir = f.dir
    BY SaveFatOK DEF Call
  <2> HIDE DEF i
  <2>3. SameFds(d, u)
    BY StaleSet, FdsStay
  <2> HIDE DEF u
  <2>4. FdsOK(f, u) /\ Numbers(u) = Numbers(d) /\ DOMAIN u = DOMAIN d /\ u[i].id = id
    BY <2>1, <2>3, SameFdsOK DEF SameFds
  <2>5. Len(u) \in Nat /\ DOMAIN u = 1..Len(u) /\ u \in Seq(Range(u))
    BY <2>4, FdsFacts DEF FdsOK
  <2>6. /\ v \in Seq(Range(u)) /\ Len(v) = Len(u) - 1
        /\ \A j \in 1..(Len(u) - 1) : v[j] = IF j < i THEN u[j] ELSE u[j + 1]
    BY <2>1, <2>4, <2>5, RemoveAtProperties
  <2> HIDE DEF v, closed
  <2> DEFINE at(j) == IF j < i THEN j ELSE j + 1
  <2>7. DOMAIN v = 1..(Len(u) - 1) /\ v \in Seq(Range(v))
    BY <2>5, <2>6, LenProperties, SeqOfRange
  <2>8. \A j \in DOMAIN v : at(j) \in DOMAIN u \ {i} /\ v[j] = u[at(j)]
    BY <2>1, <2>4, <2>5, <2>6, <2>7
  <2>9. /\ \A j, m \in DOMAIN v : at(j) = at(m) => j = m
        /\ \A j, m \in DOMAIN v : j < m => at(j) < at(m)
    BY <2>1, <2>4, <2>5, <2>7
  <2>10. \A j \in DOMAIN u : j # i => \E m \in DOMAIN v : at(m) = j
    <3> TAKE j \in DOMAIN u
    <3> HAVE j # i
    <3>1. CASE j < i
      <4>1. j \in DOMAIN v /\ at(j) = j
        BY <2>1, <2>4, <2>5, <2>7, <3>1
      <4> QED BY <4>1
    <3>2. CASE ~ (j < i)
      <4>1. j - 1 \in DOMAIN v /\ at(j - 1) = j
        BY <2>1, <2>4, <2>5, <2>7, <3>2
      <4> QED BY <4>1
    <3> QED BY <3>1, <3>2
  <2> HIDE DEF at
  <2>11. FdsOK(f, v)
    <3>1. \A j \in DOMAIN v : IsFd(v[j]) /\ v[j].at \in Ats(f.dir)
      BY <2>4, <2>8 DEF FdsOK
    <3>2. \A j, m \in DOMAIN v : j < m => v[j].id < v[m].id
      BY <2>4, <2>8, <2>9 DEF FdsOK
    <3>3. \A j \in Writers(v) : j \in DOMAIN v /\ at(j) \in Writers(u) /\ v[j] = u[at(j)]
      BY <2>8 DEF Writers
    <3>4. \A j, m \in Writers(v) : v[j].at = v[m].at => j = m
      BY <2>4, <2>9, <3>3 DEF FdsOK
    <3> QED BY <2>7, <3>1, <3>2, <3>4 DEF FdsOK
  <2>12. Numbers(v) = {h \in Numbers(u) : h.id # id}
    <3>1. ASSUME NEW h \in Numbers(v) PROVE h \in Numbers(u) /\ h.id # id
      <4>1. PICK j \in DOMAIN v : h = [id |-> v[j].id, of |-> v[j].at]
        BY DEF Numbers
      <4>2. at(j) \in DOMAIN u /\ at(j) # i /\ h = [id |-> u[at(j)].id, of |-> u[at(j)].at]
        BY <2>8, <4>1
      <4>3. u[at(j)].id # id
        BY <2>1, <2>4, <4>2, NodeFacts
      <4> QED BY <4>2, <4>3 DEF Numbers
    <3>2. ASSUME NEW h \in Numbers(u), h.id # id PROVE h \in Numbers(v)
      <4>1. PICK j \in DOMAIN u : h = [id |-> u[j].id, of |-> u[j].at]
        BY DEF Numbers
      <4>2. j # i
        BY <2>4, <3>2, <4>1
      <4>3. PICK m \in DOMAIN v : at(m) = j
        BY <2>10, <4>2
      <4> QED BY <2>8, <4>1, <4>3 DEF Numbers
    <3> QED BY <3>1, <3>2
  <2>13. FdsOK(closed.fs, v)
    BY <2>2, <2>11 DEF FdsOK
  <2>14. OneLess(d, id, closed)
    BY <2>2, <2>4, <2>12, <2>13 DEF OneLess, IsCall
  <2> QED BY <1>1, <1>3, <2>2, <2>14 DEF i
<1> QED BY <1>2, <1>3

\* A number that is open is closed.
LEMMA NumberClosed ==
  ASSUME NEW f, NEW d, FsOK(f), FdsOK(f, d), NEW h \in Numbers(d)
  PROVE  LET c == f_close(f, d, h.id)
         IN  c.ok /\ IsCall(c) /\ Numbers(c.fds) = Numbers(d) \ {h}
<1>1. f_close(f, d, h.id).ok
  <2>1. Node(d, h.id) # 0
    BY NumberFound
  <2> QED BY <2>1 DEF f_close, Call
<1>2. OneLess(d, h.id, f_close(f, d, h.id))
  BY <1>1, CloseOK
<1> QED BY <1>1, <1>2, NumbersDiffer DEF OneLess

\* rm, mv and chmod leave the numbers alone, unless an open file is removed or two
\* files come to have one name.
LEMMA SavedOK ==
  ASSUME NEW f, NEW d, FdsOK(f, d),
         NEW r, DOMAIN r.fs = Fields, FsOK(r.fs) \/ "mv_over_readonly" \in r.fs.damage
  PROVE  LET c == Saved(r, d)
         IN  \/ "unlink_open" \in c.fs.damage
             \/ "mv_over_readonly" \in c.fs.damage
             \/ Steady(d, c)
<1> DEFINE open == \E i \in DOMAIN d : d[i].at \notin Ats(r.fs.dir)
           g == [r.fs EXCEPT !.damage = @ \cup Flag("unlink_open", open)]
           c == Saved(r, d)
<1>1. c = Call(r.ok, IF r.ok THEN saveFat(g) ELSE g, d)
  BY DEF Saved
<1>2. /\ DOMAIN g = Fields /\ r.fs.damage \subseteq g.damage /\ g.dir = r.fs.dir
      /\ open => "unlink_open" \in g.damage
      /\ FsOK(r.fs) => FsOK(g)
  BY Flagged DEF Fields, Flag
<1> HIDE DEF g
<1>3. g.damage \subseteq c.fs.damage
  BY <1>1, <1>2, SaveFatGrows DEF Call
<1>4. CASE open \/ "mv_over_readonly" \in r.fs.damage
  BY <1>2, <1>3, <1>4
<1>5. CASE ~open /\ FsOK(r.fs)
  <2>1. /\ {"fs", "fds"} \subseteq DOMAIN c
        /\ FsOK(c.fs) /\ c.fs.dir = r.fs.dir /\ c.fds = d
    BY <1>1, <1>2, <1>5, SaveFatOK DEF Call
  <2>2. FdsOK(c.fs, d)
    BY <1>5, <2>1 DEF FdsOK
  <2> QED BY <2>1, <2>2 DEF Steady, IsCall
<1> QED BY <1>4, <1>5

-----------------------------------------------------------------------------
(***************************************************************************)
(* The first state, and the end of a step.                                 *)
(***************************************************************************)
\* None is no number.
LEMMA NoneIsNoNumber ==
  /\ None \notin Held /\ Terminal \notin Held /\ None # Terminal
  /\ None \notin Addr /\ None \notin Name
BY DescriptorAssumption DEF Terminal, Held

\* A shell that waits for a line uses no file.
LEMMA IdleFacts == IsShell(Idle) /\ Holds(Idle) = {} /\ Idle.in = None /\ Idle.out = Terminal
<1>1. "prompt" \in Range(Stages)
  BY DEF Range, Stages
<1> QED BY <1>1, NoneIsNoNumber DEF IsShell, Idle, Holds

\* Nobody has opened anything.
LEMMA FirstSound ==
  ASSUME NEW f, FsOK(f)
  PROVE  Orderly(f, <<>>, [p \in Proc |-> NoProgram], Idle)
<1>1. FdsOK(f, <<>>) /\ Numbers(<<>>) = {}
  <2>1. DOMAIN <<>> = {} /\ <<>> \in Seq(Range(<<>>))
    BY EmptySeq
  <2> HIDE DEF FsOK
  <2> QED BY <2>1 DEF FdsOK, Numbers, Writers
<1>2. IsProgram(NoProgram) /\ Holds(NoProgram) = {} /\ Own(NoProgram) = {}
  <2>1. /\ Holds(NoProgram) = {} /\ Own(NoProgram) = {}
        /\ ~InOwn(NoProgram) /\ ~OutOwn(NoProgram)
    BY DEF Holds, Own, InOwn, OutOwn, NoProgram
  <2>2. <<>> \in Seq(Name)
    BY EmptySeq
  <2> QED BY <2>1, <2>2 DEF IsProgram, NoProgram
<1>3. IsShell(Idle) /\ Holds(Idle) = {}
  BY IdleFacts
<1>4. NoProgram.in = None /\ NoProgram.out = Terminal
  BY DEF NoProgram
<1> QED BY <1>1, <1>2, <1>3, <1>4 DEF Orderly, UsersOK, AllHeld

\* The file system that PennOS is started with.
LEMMA MountedOK == FsOK(Mounted)
BY DescriptorAssumption, TypedOK

\* A step that leaves everything sound, or starts again.
LEMMA Committed ==
  ASSUME NEW c, NEW programs, NEW sh,
         c.fs.damage \subseteq Situations => Orderly(c.fs, c.fds, programs, sh),
         Commit(c, programs, sh)
  PROVE  IInv'
<1>1. CASE c.fs.damage \subseteq Situations
  <2>1. /\ fs' = Settle(Unsaved(c.fs)) /\ fds' = c.fds /\ prog' = programs /\ shell' = sh
    BY <1>1 DEF Commit, Follow
  <2>2. FsOK(fs') /\ fs'.dir = c.fs.dir
    BY <1>1, <2>1, SettledOK DEF Orderly
  <2>3. FdsOK(fs', c.fds)
    BY <1>1, <2>2 DEF Orderly, FdsOK
  <2> QED BY <1>1, <2>1, <2>2, <2>3 DEF IInv, Orderly
<1>2. CASE ~ (c.fs.damage \subseteq Situations)
  <2>1. /\ fs' = Mounted /\ fds' = <<>> /\ prog' = [p \in Proc |-> NoProgram] /\ shell' = Idle
    BY <1>2 DEF Commit, Follow, First
  <2> QED BY <2>1, FirstSound, MountedOK DEF IInv
<1> QED BY <1>1, <1>2

\* So is what a new start leaves.
LEMMA Restarted ==
  ASSUME IInv, Restart
  PROVE  IInv'
<1> DEFINE f == freeFat(fs)
           g == loadFat(f)
           follows == f.damage \subseteq Situations /\ Loadable(f) /\ g.damage \subseteq Situations
<1>1. CASE follows
  <2>1. /\ fs' = Settle(g) /\ fds' = <<>> /\ prog' = [p \in Proc |-> NoProgram] /\ shell' = Idle
    BY <1>1 DEF Restart, Follow, First
  <2>2. FsOK(Settle(g))
    BY <1>1, ReloadedOK DEF IInv, Orderly
  <2> HIDE DEF g
  <2> QED BY <2>1, <2>2, FirstSound DEF IInv
<1>2. CASE ~follows
  <2>1. /\ fs' = Mounted /\ fds' = <<>> /\ prog' = [p \in Proc |-> NoProgram] /\ shell' = Idle
    BY <1>2 DEF Restart, Follow, First
  <2> QED BY <2>1, FirstSound, MountedOK DEF IInv
<1> QED BY <1>1, <1>2

\* Program p has closed the numbers gone of its own, been given the numbers new, and
\* goes on as q.
LEMMA ProgramGoesOn ==
  ASSUME IInv, NEW p \in Proc, NEW c, IsCall(c), NEW gone, NEW new, NEW q, IsProgram(q),
         gone \subseteq Own(prog[p]), new \cap Numbers(fds) = {},
         Numbers(c.fds) = (Numbers(fds) \ gone) \cup new,
         Holds(q) \subseteq (Holds(prog[p]) \ gone) \cup new,
         Own(q) \subseteq Own(prog[p]) \cup new,
         "left_open" \notin Situations =>
           /\ InOwn(q) \/ q.in \in {None, shell.in}
           /\ OutOwn(q) \/ q.out \in {Terminal, shell.out}
           /\ Numbers(c.fds) \cap (Own(prog[p]) \cup new) \subseteq Holds(q)
  PROVE  Orderly(c.fs, c.fds, [prog EXCEPT ![p] = q], shell)
<1> DEFINE ps == [prog EXCEPT ![p] = q]
           d == c.fds
<1>1. UsersOK(fds, prog, shell)
  BY DEF IInv, Orderly
<1>2. ps = [o \in Proc |-> ps[o]] /\ \A o \in Proc : ps[o] = IF o = p THEN q ELSE prog[o]
  BY <1>1 DEF UsersOK
<1> HIDE DEF ps, d
<1>3. Holds(shell) \subseteq Numbers(d) /\ \A o \in Proc : Holds(ps[o]) \subseteq Numbers(d)
  <2>1. Holds(shell) \subseteq Numbers(d)
    BY <1>1 DEF UsersOK, d
  <2>2. \A o \in Proc : o # p => Holds(prog[o]) \subseteq Numbers(d)
    BY <1>1 DEF UsersOK, d
  <2>3. Holds(q) \subseteq Numbers(d)
    BY <1>1 DEF UsersOK, d
  <2> QED BY <1>2, <2>1, <2>2, <2>3
<1>4. \A o \in Proc : Own(ps[o]) \cap Holds(shell) = {}
  BY <1>1, <1>2 DEF UsersOK
<1>5. ASSUME NEW o \in Proc, NEW r \in Proc, o # r PROVE Own(ps[o]) \cap Holds(ps[r]) = {}
  <2>1. /\ Own(prog[o]) \cap Holds(prog[r]) = {} /\ Own(prog[o]) \subseteq Numbers(fds)
        /\ Holds(prog[r]) \subseteq Numbers(fds)
    BY <1>1, <1>5 DEF UsersOK, IsProgram
  <2>2. CASE o = p
    BY <1>2, <1>5, <2>1, <2>2
  <2>3. CASE r = p
    BY <1>2, <1>5, <2>1, <2>3
  <2>4. CASE o # p /\ r # p
    BY <1>2, <2>1, <2>4
  <2> QED BY <2>2, <2>3, <2>4
<1>6. UsersOK(d, ps, shell)
  BY <1>1, <1>2, <1>3, <1>4, <1>5 DEF UsersOK
<1>7. ASSUME "left_open" \notin Situations PROVE AllHeld(d, ps, shell)
  <2>1. AllHeld(fds, prog, shell)
    BY <1>7 DEF IInv, Orderly
  <2>2. \A o \in Proc : /\ InOwn(ps[o]) \/ ps[o].in \in {None, shell.in}
                        /\ OutOwn(ps[o]) \/ ps[o].out \in {Terminal, shell.out}
    BY <1>2, <1>7, <2>1 DEF AllHeld
  <2>3. ASSUME NEW n \in Numbers(d), n \notin Holds(shell)
        PROVE  \E o \in Proc : n \in Holds(ps[o])
    <3>1. CASE n \in new
      BY <1>2, <1>7, <3>1 DEF d
    <3>2. CASE n \in Numbers(fds)
      <4>1. PICK o \in Proc : n \in Holds(prog[o])
        BY <2>1, <2>3, <3>2 DEF AllHeld
      <4>2. CASE o # p
        BY <1>2, <4>1, <4>2
      <4>3. CASE o = p
        <5>1. n \in Own(prog[p])
          BY <2>1, <2>3, <4>1, <4>3 DEF AllHeld, Holds, Own
        <5> QED BY <1>2, <1>7, <5>1 DEF d
      <4> QED BY <4>2, <4>3
    <3> QED BY <3>1, <3>2 DEF d
  <2> QED BY <2>2, <2>3 DEF AllHeld
<1> QED BY <1>6, <1>7 DEF Orderly, IsCall, ps, d

\* The mark of a situation.
LEMMA MarkedOK ==
  ASSUME NEW c, IsCall(c), NEW situation, NEW holds
  PROVE  LET m == Marked(c, situation, holds)
         IN  /\ IsCall(m) /\ m.fds = c.fds
             /\ holds => situation \in m.fs.damage
<1> DEFINE m == Marked(c, situation, holds)
           g == [c.fs EXCEPT !.damage = @ \cup Flag(situation, holds)]
<1>1. FsOK(g) /\ g.dir = c.fs.dir /\ g.damage = c.fs.damage \cup Flag(situation, holds)
  BY Flagged DEF IsCall
<1>2. {"fs", "fds"} \subseteq DOMAIN m /\ m.fs = g /\ m.fds = c.fds
  BY DEF Marked, IsCall
<1> HIDE DEF m, g
<1>3. FdsOK(m.fs, m.fds)
  BY <1>1, <1>2 DEF IsCall, FdsOK
<1>4. holds => situation \in g.damage
  BY <1>1 DEF Flag
<1> QED BY <1>1, <1>2, <1>3, <1>4 DEF IsCall, m

\* Program p ends, having closed the numbers gone of its own: those still open are
\* the situation left_open.
LEMMA ProgramEnds ==
  ASSUME IInv, NEW p \in Proc, NEW c, IsCall(c), NEW gone, gone \subseteq Own(prog[p]),
         Numbers(c.fds) = Numbers(fds) \ gone, Ends(p, c)
  PROVE  IInv'
<1> DEFINE own == {prog[p].in, prog[p].out} \ {None, Terminal, shell.in, shell.out}
           left == \E h \in own : Node(c.fds, h.id) # 0
           m == Marked(c, "left_open", left)
           ps == [prog EXCEPT ![p] = NoProgram]
<1>1. Commit(m, ps, shell)
  BY DEF Ends, Goes
<1>2. IsCall(m) /\ m.fds = c.fds /\ (left => "left_open" \in m.fs.damage)
  BY MarkedOK
<1>3. /\ Holds(NoProgram) = {} /\ Own(NoProgram) = {} /\ IsProgram(NoProgram)
      /\ NoProgram.in = None /\ NoProgram.out = Terminal
  <2>1. /\ Holds(NoProgram) = {} /\ Own(NoProgram) = {}
        /\ ~InOwn(NoProgram) /\ ~OutOwn(NoProgram)
    BY DEF Holds, Own, InOwn, OutOwn, NoProgram
  <2>2. <<>> \in Seq(Name)
    BY EmptySeq
  <2> QED BY <2>1, <2>2 DEF IsProgram, NoProgram
<1>4. ASSUME m.fs.damage \subseteq Situations PROVE Orderly(m.fs, m.fds, ps, shell)
  <2>1. ASSUME "left_open" \notin Situations PROVE Numbers(c.fds) \cap Own(prog[p]) = {}
    <3>1. ~left
      BY <1>2, <1>4, <2>1
    <3>2. Own(prog[p]) \subseteq own
      BY DEF IInv, Orderly, UsersOK, IsProgram, Holds, Own
    <3> HIDE DEF own
    <3>3. \A h \in Own(prog[p]) : h \notin Numbers(c.fds)
      BY <3>1, <3>2, NumberFound DEF IsCall
    <3> QED BY <3>3
  <2> HIDE DEF m, left, own
  <2> QED BY <1>2, <1>3, <2>1, ProgramGoesOn
<1> HIDE DEF m, ps
<1> QED BY <1>1, <1>4, Committed

\* ... after a call that has opened and closed nothing.
LEMMA ProgramGivesUp ==
  ASSUME IInv, NEW p \in Proc, NEW c, Steady(fds, c), Ends(p, c)
  PROVE  IInv'
<1> DEFINE gone == {}
<1>1. IsCall(c) /\ gone \subseteq Own(prog[p]) /\ Numbers(c.fds) = Numbers(fds) \ gone
  BY DEF Steady
<1> HIDE DEF gone
<1> QED BY <1>1, ProgramEnds

\* Program p goes on as q, the numbers of which are the same.
LEMMA ProgramSteady ==
  ASSUME IInv, NEW p \in Proc, NEW c, Steady(fds, c), NEW q, IsProgram(q),
         q.in = prog[p].in, q.out = prog[p].out,
         InOwn(q) <=> InOwn(prog[p]), OutOwn(q) <=> OutOwn(prog[p]),
         Goes(p, c, q)
  PROVE  IInv'
<1>1. Holds(q) = Holds(prog[p]) /\ Own(q) = Own(prog[p])
  BY DEF Holds, Own
<1>2. "left_open" \notin Situations =>
        /\ InOwn(q) \/ q.in \in {None, shell.in}
        /\ OutOwn(q) \/ q.out \in {Terminal, shell.out}
  BY DEF IInv, Orderly, AllHeld
<1> DEFINE gone == {}
           new == {}
<1>3. /\ IsCall(c) /\ gone \subseteq Own(prog[p]) /\ new \cap Numbers(fds) = {}
      /\ Numbers(c.fds) = (Numbers(fds) \ gone) \cup new
      /\ Holds(q) \subseteq (Holds(prog[p]) \ gone) \cup new
      /\ Own(q) \subseteq Own(prog[p]) \cup new
      /\ Numbers(c.fds) \cap (Own(prog[p]) \cup new) \subseteq Holds(q)
  BY <1>1 DEF Steady, IsProgram
<1> HIDE DEF gone, new
<1>4. Orderly(c.fs, c.fds, [prog EXCEPT ![p] = q], shell)
  BY <1>2, <1>3, ProgramGoesOn
<1> QED BY <1>4, Committed DEF Goes

\* Program p has opened a number and goes on as q, which holds it for its own.
LEMMA ProgramOpens ==
  ASSUME IInv, NEW p \in Proc, NEW c, OneMore(fds, c), NEW q, IsProgram(q),
         Own(prog[p]) = {}, Own(q) = {c.held},
         \/ q.in = c.held /\ q.out = prog[p].out /\ InOwn(q) /\ ~OutOwn(prog[p])
         \/ q.out = c.held /\ q.in = prog[p].in /\ OutOwn(q) /\ ~InOwn(prog[p]),
         Goes(p, c, q)
  PROVE  IInv'
<1>1. Holds(q) \subseteq Holds(prog[p]) \cup {c.held} /\ c.held \in Holds(q)
  BY DEF Holds, IsProgram
<1>2. "left_open" \notin Situations =>
        /\ InOwn(q) \/ q.in \in {None, shell.in}
        /\ OutOwn(q) \/ q.out \in {Terminal, shell.out}
  BY DEF IInv, Orderly, AllHeld
<1>3. /\ IsCall(c) /\ Numbers(c.fds) = (Numbers(fds) \ {}) \cup {c.held}
      /\ {c.held} \cap Numbers(fds) = {}
  BY DEF OneMore
<1> DEFINE gone == {}
           new == {c.held}
<1>4. /\ gone \subseteq Own(prog[p]) /\ new \cap Numbers(fds) = {}
      /\ Numbers(c.fds) = (Numbers(fds) \ gone) \cup new
      /\ Holds(q) \subseteq (Holds(prog[p]) \ gone) \cup new
      /\ Own(q) \subseteq Own(prog[p]) \cup new
      /\ Numbers(c.fds) \cap (Own(prog[p]) \cup new) \subseteq Holds(q)
  BY <1>1, <1>3
<1> HIDE DEF gone, new
<1>5. Orderly(c.fs, c.fds, [prog EXCEPT ![p] = q], shell)
  BY <1>2, <1>3, <1>4, ProgramGoesOn
<1> QED BY <1>5, Committed DEF Goes

\* Program p has closed its only number and goes on as q.
LEMMA ProgramCloses ==
  ASSUME IInv, NEW p \in Proc, NEW c, IsCall(c), NEW h, Own(prog[p]) = {h},
         Numbers(c.fds) = Numbers(fds) \ {h},
         NEW q, IsProgram(q), Own(q) = {},
         \/ h = prog[p].in /\ q.in = None /\ q.out = prog[p].out /\ ~OutOwn(prog[p])
         \/ h = prog[p].out /\ q.out = Terminal /\ q.in = prog[p].in /\ ~InOwn(prog[p]),
         Goes(p, c, q)
  PROVE  IInv'
<1>1. Holds(q) \subseteq Holds(prog[p]) \ {h}
  BY DEF Holds, IInv, Orderly, UsersOK, IsProgram
<1>2. "left_open" \notin Situations =>
        /\ InOwn(q) \/ q.in \in {None, shell.in}
        /\ OutOwn(q) \/ q.out \in {Terminal, shell.out}
  BY DEF IInv, Orderly, AllHeld
<1>3. Numbers(c.fds) = (Numbers(fds) \ {h}) \cup {} /\ Numbers(c.fds) \cap Own(prog[p]) = {}
  OBVIOUS
<1>4. Orderly(c.fs, c.fds, [prog EXCEPT ![p] = q], shell)
  BY <1>1, <1>2, <1>3, ProgramGoesOn
<1> QED BY <1>4, Committed DEF Goes

-----------------------------------------------------------------------------
(***************************************************************************)
(* The steps of cat, touch and cp.                                         *)
(***************************************************************************)
\* What the invariant says of a program.
LEMMA ProgramFacts ==
  ASSUME IInv, NEW p \in Proc
  PROVE  /\ FsOK(fs) /\ FdsOK(fs, fds) /\ IsProgram(prog[p])
         /\ Own(prog[p]) \subseteq Numbers(fds) /\ Holds(prog[p]) \subseteq Numbers(fds)
         /\ Numbers(fds) \subseteq Held
BY NumberFound DEF IInv, Orderly, UsersOK, IsProgram

\* A number that has just been opened is held by nobody.
LEMMA FreshNumber ==
  ASSUME IInv, NEW p \in Proc, NEW c, OneMore(fds, c)
  PROVE  /\ c.held \in Held /\ c.held \notin {None, Terminal}
         /\ c.held # prog[p].in /\ c.held # prog[p].out
<1>1. c.held \in Held
  BY NumberFound DEF OneMore, IsCall
<1>2. c.held \notin Holds(prog[p])
  BY ProgramFacts DEF OneMore
<1> QED BY <1>1, <1>2, NoneIsNoNumber DEF Holds

\* cat and cp open a file.
LEMMA OpensSourceOK ==
  ASSUME IInv, NEW p \in Proc, OpensSource(p)
  PROVE  IInv'
<1> DEFINE q == prog[p]
           c == f_open(fs, fds, Head(q.names), "read")
           r == [q EXCEPT !.in = c.held, !.at = IF q.cmd = "cat" THEN "read" ELSE "seek"]
<1>1. /\ q.cmd \in {"cat", "cp"} /\ q.at = "open"
      /\ IF ~c.ok THEN Ends(p, c) ELSE Goes(p, c, r)
  BY DEF OpensSource, At
<1>2. IsProgram(q)
  BY ProgramFacts
<1>3. q.names # <<>> /\ Head(q.names) \in Name
  BY <1>1, <1>2, HeadTailProperties DEF IsProgram
<1>4. (c.ok => OneMore(fds, c)) /\ (~c.ok => Steady(fds, c))
  BY <1>3, OpenOK, ProgramFacts
<1>5. ~InOwn(q) /\ ~OutOwn(q) /\ Own(q) = {}
  BY <1>1 DEF InOwn, OutOwn, Own
<1> HIDE DEF c
<1>6. CASE ~c.ok
  BY <1>1, <1>4, <1>6, ProgramGivesUp
<1>7. CASE c.ok
  <2>1. c.held \notin {None, Terminal} /\ c.held # q.out
    BY <1>4, <1>7, FreshNumber
  <2>2. /\ DOMAIN r = DOMAIN q /\ r.cmd = q.cmd /\ r.names = q.names /\ r.out = q.out
        /\ r.in = c.held /\ r.at = IF q.cmd = "cat" THEN "read" ELSE "seek"
    BY <1>2 DEF IsProgram
  <2> HIDE DEF r, q
  <2>3. InOwn(r) /\ ~OutOwn(r) /\ Own(r) = {c.held}
    BY <1>1, <1>3, <2>1, <2>2 DEF InOwn, OutOwn, Own
  <2>4. IsProgram(r)
    BY <1>1, <1>2, <1>3, <2>1, <2>2, <2>3 DEF IsProgram, Holds
  <2> QED BY <1>1, <1>4, <1>5, <1>7, <2>2, <2>3, <2>4, ProgramOpens DEF q
<1> QED BY <1>6, <1>7

\* touch opens a file.
LEMMA TouchOpensOK ==
  ASSUME IInv, NEW p \in Proc, TouchOpens(p)
  PROVE  IInv'
<1> DEFINE q == prog[p]
           c == f_open(fs, fds, Head(q.names), "append")
           r == [q EXCEPT !.out = c.held, !.at = "write"]
<1>1. /\ q.cmd = "touch" /\ q.at = "open"
      /\ IF c.ok THEN Goes(p, c, r) ELSE Ends(p, c)
  BY DEF TouchOpens, At
<1>2. IsProgram(q)
  BY ProgramFacts
<1>3. q.names # <<>> /\ Head(q.names) \in Name
  BY <1>1, <1>2, HeadTailProperties DEF IsProgram
<1>4. (c.ok => OneMore(fds, c)) /\ (~c.ok => Steady(fds, c))
  BY <1>3, OpenOK, ProgramFacts
<1>5. ~InOwn(q) /\ ~OutOwn(q) /\ Own(q) = {}
  BY <1>1 DEF InOwn, OutOwn, Own
<1> HIDE DEF c
<1>6. CASE ~c.ok
  BY <1>1, <1>4, <1>6, ProgramGivesUp
<1>7. CASE c.ok
  <2>1. c.held \notin {None, Terminal} /\ c.held # q.in
    BY <1>4, <1>7, FreshNumber
  <2>2. /\ DOMAIN r = DOMAIN q /\ r.cmd = q.cmd /\ r.names = q.names /\ r.in = q.in
        /\ r.out = c.held /\ r.at = "write"
    BY <1>2 DEF IsProgram
  <2> HIDE DEF r, q
  <2>3. OutOwn(r) /\ ~InOwn(r) /\ Own(r) = {c.held}
    BY <1>1, <2>1, <2>2 DEF InOwn, OutOwn, Own
  <2>4. IsProgram(r)
    BY <1>1, <1>2, <2>1, <2>2, <2>3 DEF IsProgram, Holds
  <2> QED BY <1>1, <1>4, <1>5, <1>7, <2>2, <2>3, <2>4, ProgramOpens DEF q
<1> QED BY <1>6, <1>7

\* cp opens the file it writes.
LEMMA CopyCreatesOK ==
  ASSUME IInv, NEW p \in Proc, CopyCreates(p)
  PROVE  IInv'
<1> DEFINE q == prog[p]
           c == f_open(fs, fds, q.names[2], "write")
           r == [q EXCEPT !.out = c.held, !.at = "write"]
<1>1. /\ q.cmd = "cp" /\ q.at = "create"
      /\ IF c.ok THEN Goes(p, c, r) ELSE Ends(p, c)
  BY DEF CopyCreates, At
<1>2. IsProgram(q)
  BY ProgramFacts
<1>3. q.names[2] \in Name
  <2>1. q.names \in Seq(Name) /\ Len(q.names) = 2
    BY <1>1, <1>2 DEF IsProgram
  <2> HIDE DEF q
  <2> QED BY <2>1, ElementOfSeq
<1>4. (c.ok => OneMore(fds, c)) /\ (~c.ok => Steady(fds, c))
  BY <1>3, OpenOK, ProgramFacts
<1>5. ~InOwn(q) /\ ~OutOwn(q) /\ Own(q) = {}
  BY <1>1 DEF InOwn, OutOwn, Own
<1> HIDE DEF c
<1>6. CASE ~c.ok
  BY <1>1, <1>4, <1>6, ProgramGivesUp
<1>7. CASE c.ok
  <2>1. c.held \notin {None, Terminal} /\ c.held # q.in
    BY <1>4, <1>7, FreshNumber
  <2>2. /\ DOMAIN r = DOMAIN q /\ r.cmd = q.cmd /\ r.names = q.names /\ r.in = q.in
        /\ r.out = c.held /\ r.at = "write"
    BY <1>2 DEF IsProgram
  <2> HIDE DEF r, q
  <2>3. OutOwn(r) /\ ~InOwn(r) /\ Own(r) = {c.held}
    BY <1>1, <2>1, <2>2 DEF InOwn, OutOwn, Own
  <2>4. IsProgram(r)
    BY <1>1, <1>2, <2>1, <2>2, <2>3 DEF IsProgram, Holds
  <2> QED BY <1>1, <1>4, <1>5, <1>7, <2>2, <2>3, <2>4, ProgramOpens DEF q
<1> QED BY <1>6, <1>7

\* A program whose command, names and numbers stay may go on at another place.
LEMMA AnotherPlace ==
  ASSUME NEW q, IsProgram(q), NEW r, DOMAIN r = DOMAIN q, r.cmd = q.cmd, r.names = q.names,
         r.in = q.in, r.out = q.out, r.at # "open",
         r.cmd = "cat" /\ r.at = "close" => r.names # <<>>,
         InOwn(r) <=> InOwn(q), OutOwn(r) <=> OutOwn(q)
  PROVE  IsProgram(r)
BY DEF IsProgram, Own, Holds

\* cat reads.
LEMMA CatReadsOK ==
  ASSUME IInv, NEW p \in Proc, CatReads(p)
  PROVE  IInv'
<1> DEFINE q == prog[p]
           own == q.names # <<>>
           c == f_read(fs, fds, q.in.id, IF own THEN BufSize ELSE StdinSize)
           r == [q EXCEPT !.at = IF c.bytes = <<>> THEN "close" ELSE "write", !.buf = c.bytes]
<1>1. /\ q.cmd = "cat" /\ q.at = "read"
      /\ IF ~c.ok \/ (c.bytes = <<>> /\ ~own) THEN Ends(p, c) ELSE Goes(p, c, r)
  BY DEF CatReads, At
<1>2. IsProgram(q)
  BY ProgramFacts
<1>3. Steady(fds, c)
  BY ReadSteady, ProgramFacts
<1> HIDE DEF c
<1>4. CASE ~c.ok \/ (c.bytes = <<>> /\ ~own)
  BY <1>1, <1>3, <1>4, ProgramGivesUp
<1>5. CASE ~ (~c.ok \/ (c.bytes = <<>> /\ ~own))
  <2>1. /\ DOMAIN r = DOMAIN q /\ r.cmd = q.cmd /\ r.names = q.names /\ r.in = q.in
        /\ r.out = q.out /\ r.at = IF c.bytes = <<>> THEN "close" ELSE "write"
    BY <1>2 DEF IsProgram
  <2> HIDE DEF r
  <2>2. (InOwn(r) <=> InOwn(q)) /\ (OutOwn(r) <=> OutOwn(q))
    BY <1>1, <2>1 DEF InOwn, OutOwn
  <2>3. r.cmd = "cat" /\ r.at = "close" => r.names # <<>>
    BY <1>5, <2>1
  <2>4. IsProgram(r)
    <3> HIDE DEF q
    <3> QED BY <1>2, <2>1, <2>2, <2>3, AnotherPlace
  <2> QED BY <1>1, <1>3, <1>5, <2>1, <2>2, <2>4, ProgramSteady
<1> QED BY <1>4, <1>5

\* cat writes.
LEMMA CatWritesOK ==
  ASSUME IInv, NEW p \in Proc, CatWrites(p)
  PROVE  IInv'
<1> DEFINE q == prog[p]
           c == f_write(fs, fds, q.out.id, q.buf)
           r == [q EXCEPT !.at = "read", !.buf = <<>>]
<1>1. /\ q.cmd = "cat" /\ q.at = "write"
      /\ IF c.ok THEN Goes(p, c, r) ELSE Ends(p, c)
  BY DEF CatWrites, At
<1>2. IsProgram(q)
  BY ProgramFacts
<1>3. Steady(fds, c)
  BY WriteSteady, ProgramFacts
<1> HIDE DEF c
<1>4. /\ DOMAIN r = DOMAIN q /\ r.cmd = q.cmd /\ r.names = q.names /\ r.in = q.in
      /\ r.out = q.out /\ r.at = "read"
  BY <1>2 DEF IsProgram
<1> HIDE DEF r
<1>5. (InOwn(r) <=> InOwn(q)) /\ (OutOwn(r) <=> OutOwn(q))
  BY <1>1, <1>4 DEF InOwn, OutOwn
<1>6. IsProgram(r)
  <2> HIDE DEF q
  <2> QED BY <1>2, <1>4, <1>5, AnotherPlace
<1> QED BY <1>1, <1>3, <1>4, <1>5, <1>6, ProgramSteady, ProgramGivesUp

\* touch writes nothing.
LEMMA TouchWritesOK ==
  ASSUME IInv, NEW p \in Proc, TouchWrites(p)
  PROVE  IInv'
<1> DEFINE q == prog[p]
           c == f_write(fs, fds, q.out.id, <<>>)
           r == [q EXCEPT !.at = "close"]
<1>1. /\ q.cmd = "touch" /\ q.at = "write"
      /\ IF c.ok THEN Goes(p, c, r) ELSE Ends(p, c)
  BY DEF TouchWrites, At
<1>2. IsProgram(q)
  BY ProgramFacts
<1>3. Steady(fds, c)
  BY WriteSteady, ProgramFacts
<1> HIDE DEF c
<1>4. /\ DOMAIN r = DOMAIN q /\ r.cmd = q.cmd /\ r.names = q.names /\ r.in = q.in
      /\ r.out = q.out /\ r.at = "close"
  BY <1>2 DEF IsProgram
<1> HIDE DEF r
<1>5. (InOwn(r) <=> InOwn(q)) /\ (OutOwn(r) <=> OutOwn(q))
  BY <1>1, <1>4 DEF InOwn, OutOwn
<1>6. IsProgram(r)
  <2> HIDE DEF q
  <2> QED BY <1>1, <1>2, <1>4, <1>5, AnotherPlace
<1> QED BY <1>1, <1>3, <1>4, <1>5, <1>6, ProgramSteady, ProgramGivesUp

\* cp finds out the size.
LEMMA CopySeeksOK ==
  ASSUME IInv, NEW p \in Proc, CopySeeks(p)
  PROVE  IInv'
<1> DEFINE q == prog[p]
           c == f_lseek(fs, fds, q.in.id)
           buf == [i \in 1..c.fds[Node(fds, q.in.id)].pos |-> Junk]
           r == [q EXCEPT !.at = "read", !.buf = buf]
<1>1. q.cmd = "cp" /\ q.at = "seek" /\ Goes(p, c, r)
  BY DEF CopySeeks, At
<1>2. IsProgram(q)
  BY ProgramFacts
<1>3. Steady(fds, c)
  BY SeekSteady, ProgramFacts
<1> HIDE DEF c, buf
<1>4. /\ DOMAIN r = DOMAIN q /\ r.cmd = q.cmd /\ r.names = q.names /\ r.in = q.in
      /\ r.out = q.out /\ r.at = "read"
  BY <1>2 DEF IsProgram
<1> HIDE DEF r
<1>5. (InOwn(r) <=> InOwn(q)) /\ (OutOwn(r) <=> OutOwn(q))
  BY <1>1, <1>4 DEF InOwn, OutOwn
<1>6. IsProgram(r)
  <2> HIDE DEF q
  <2> QED BY <1>1, <1>2, <1>4, <1>5, AnotherPlace
<1> QED BY <1>1, <1>3, <1>4, <1>5, <1>6, ProgramSteady

\* cp reads.
LEMMA CopyReadsOK ==
  ASSUME IInv, NEW p \in Proc, CopyReads(p)
  PROVE  IInv'
<1> DEFINE q == prog[p]
           again == \E i \in DOMAIN q.buf : q.buf[i] # Junk
           c == f_read(fs, fds, q.in.id, Len(q.buf))
           m == Marked(c, "read_twice", again)
           r(at, buf) == [q EXCEPT !.at = at, !.buf = buf]
<1>1. /\ q.cmd = "cp" /\ q.at = "read"
      /\ \/ Goes(p, c, r("abort", <<>>))
         \/ Goes(p, c, [q EXCEPT !.at = "close"])
         \/ Goes(p, m, [q EXCEPT !.buf = c.bytes \o SubSeq(@, Len(c.bytes) + 1, Len(@))])
  BY DEF CopyReads, At
<1>2. IsProgram(q)
  BY ProgramFacts
<1>3. Steady(fds, c)
  BY ReadSteady, ProgramFacts
<1> HIDE DEF again
<1>4. Steady(fds, m)
  BY <1>3, MarkedOK DEF Steady
<1> HIDE DEF c, m
<1>5. ASSUME NEW u, DOMAIN u = DOMAIN q, u.cmd = q.cmd, u.names = q.names, u.in = q.in,
             u.out = q.out, u.at \in {"abort", "close", "read"}, NEW k, Steady(fds, k),
             Goes(p, k, u)
      PROVE  IInv'
  <2>1. (InOwn(u) <=> InOwn(q)) /\ (OutOwn(u) <=> OutOwn(q))
    BY <1>1, <1>5 DEF InOwn, OutOwn
  <2>2. IsProgram(u)
    <3> HIDE DEF q
    <3> QED BY <1>1, <1>2, <1>5, <2>1, AnotherPlace
  <2> QED BY <1>5, <2>1, <2>2, ProgramSteady
<1>6. CASE Goes(p, c, r("abort", <<>>))
  <2> DEFINE u == r("abort", <<>>)
  <2>1. /\ DOMAIN u = DOMAIN q /\ u.cmd = q.cmd /\ u.names = q.names /\ u.in = q.in
        /\ u.out = q.out /\ u.at \in {"abort", "close", "read"}
    BY <1>2 DEF IsProgram
  <2>2. Goes(p, c, u)
    BY <1>6
  <2> HIDE DEF u, q
  <2> QED BY <1>3, <1>5, <2>1, <2>2
<1>7. CASE Goes(p, c, [q EXCEPT !.at = "close"])
  <2> DEFINE u == [q EXCEPT !.at = "close"]
  <2>1. /\ DOMAIN u = DOMAIN q /\ u.cmd = q.cmd /\ u.names = q.names /\ u.in = q.in
        /\ u.out = q.out /\ u.at \in {"abort", "close", "read"}
    BY <1>2 DEF IsProgram
  <2>2. Goes(p, c, u)
    BY <1>7
  <2> HIDE DEF u, q
  <2> QED BY <1>3, <1>5, <2>1, <2>2
<1>8. CASE Goes(p, m, [q EXCEPT !.buf = c.bytes \o SubSeq(@, Len(c.bytes) + 1, Len(@))])
  <2> DEFINE u == [q EXCEPT !.buf = c.bytes \o SubSeq(@, Len(c.bytes) + 1, Len(@))]
  <2>1. /\ DOMAIN u = DOMAIN q /\ u.cmd = q.cmd /\ u.names = q.names /\ u.in = q.in
        /\ u.out = q.out /\ u.at \in {"abort", "close", "read"}
    BY <1>1, <1>2 DEF IsProgram
  <2>2. Goes(p, m, u)
    BY <1>8
  <2> HIDE DEF u, q
  <2> QED BY <1>4, <1>5, <2>1, <2>2
<1> QED BY <1>1, <1>6, <1>7, <1>8

\* cp writes, and goes on whether it could or not.
LEMMA CopyWritesOK ==
  ASSUME IInv, NEW p \in Proc, CopyWrites(p)
  PROVE  IInv'
<1> DEFINE q == prog[p]
           c == f_write(fs, fds, q.out.id, q.buf)
           r == [q EXCEPT !.at = "finish", !.buf = <<>>]
<1>1. q.cmd = "cp" /\ q.at = "write" /\ Goes(p, c, r)
  BY DEF CopyWrites, At
<1>2. IsProgram(q)
  BY ProgramFacts
<1>3. Steady(fds, c)
  BY WriteSteady, ProgramFacts
<1> HIDE DEF c
<1>4. /\ DOMAIN r = DOMAIN q /\ r.cmd = q.cmd /\ r.names = q.names /\ r.in = q.in
      /\ r.out = q.out /\ r.at = "finish"
  BY <1>2 DEF IsProgram
<1> HIDE DEF r
<1>5. (InOwn(r) <=> InOwn(q)) /\ (OutOwn(r) <=> OutOwn(q))
  BY <1>1, <1>4 DEF InOwn, OutOwn
<1>6. IsProgram(r)
  <2> HIDE DEF q
  <2> QED BY <1>1, <1>2, <1>4, <1>5, AnotherPlace
<1> QED BY <1>1, <1>3, <1>4, <1>5, <1>6, ProgramSteady

\* A program closes a number of its own.
LEMMA OwnClosed ==
  ASSUME IInv, NEW p \in Proc, NEW h, h \in Own(prog[p])
  PROVE  LET c == f_close(fs, fds, h.id)
         IN  c.ok /\ IsCall(c) /\ Numbers(c.fds) = Numbers(fds) \ {h}
BY ProgramFacts, NumberClosed

\* cp closes its source, with which it may end.
LEMMA CopyClosesOK ==
  ASSUME IInv, NEW p \in Proc, CopyCloses(p)
  PROVE  IInv'
<1> DEFINE q == prog[p]
           c == f_close(fs, fds, q.in.id)
           r == [q EXCEPT !.at = "create", !.in = None]
<1>1. q.cmd = "cp" /\ q.at \in {"abort", "close"}
      /\ (Ends(p, c) \/ (c.ok /\ Goes(p, c, r)))
  BY DEF CopyCloses, At
<1>2. IsProgram(q)
  BY ProgramFacts
<1>3. InOwn(q) /\ ~OutOwn(q) /\ Own(q) = {q.in}
  BY <1>1 DEF InOwn, OutOwn, Own
<1>4. IsCall(c) /\ Numbers(c.fds) = Numbers(fds) \ {q.in}
  BY <1>3, OwnClosed
<1> HIDE DEF c
<1>5. CASE Ends(p, c)
  BY <1>3, <1>4, <1>5, ProgramEnds
<1>6. CASE Goes(p, c, r)
  <2>1. /\ DOMAIN r = DOMAIN q /\ r.cmd = q.cmd /\ r.names = q.names /\ r.in = None
        /\ r.out = q.out /\ r.at = "create"
    BY <1>2 DEF IsProgram
  <2> HIDE DEF r
  <2>2. Own(r) = {}
    BY <1>1, <2>1 DEF InOwn, OutOwn, Own
  <2>3. IsProgram(r)
    <3> HIDE DEF q
    <3> QED BY <1>1, <1>2, <2>1, <2>2 DEF IsProgram
  <2> QED BY <1>3, <1>4, <1>6, <2>1, <2>2, <2>3, ProgramCloses
<1> QED BY <1>1, <1>5, <1>6

\* cp closes its copy.
LEMMA CopyFinishesOK ==
  ASSUME IInv, NEW p \in Proc, CopyFinishes(p)
  PROVE  IInv'
<1> DEFINE q == prog[p]
           c == f_close(fs, fds, q.out.id)
<1>1. q.cmd = "cp" /\ q.at = "finish" /\ Ends(p, c)
  BY DEF CopyFinishes, At
<1>2. Own(q) = {q.out}
  BY <1>1 DEF InOwn, OutOwn, Own
<1>3. IsCall(c) /\ Numbers(c.fds) = Numbers(fds) \ {q.out}
  BY <1>2, OwnClosed
<1> HIDE DEF c
<1> QED BY <1>1, <1>2, <1>3, ProgramEnds

\* cat and touch close a file and go on with the next, if there is one.
LEMMA ClosesOneOK ==
  ASSUME IInv, NEW p \in Proc, ClosesOne(p)
  PROVE  IInv'
<1> DEFINE q == prog[p]
           own == IF q.cmd = "cat" THEN q.in ELSE q.out
           c == f_close(fs, fds, own.id)
           next == [q EXCEPT !.names = Tail(@), !.at = "open"]
           r == IF q.cmd = "cat" THEN [next EXCEPT !.in = None] ELSE [next EXCEPT !.out = Terminal]
<1>1. /\ q.cmd \in {"cat", "touch"} /\ q.at = "close"
      /\ Ends(p, c) \/ (next.names # <<>> /\ Goes(p, c, r))
  BY DEF ClosesOne, At
<1>2. IsProgram(q)
  BY ProgramFacts
<1>3. Own(q) = {own} /\ (q.cmd = "cat" => ~OutOwn(q)) /\ (q.cmd # "cat" => ~InOwn(q))
  BY <1>1, <1>2 DEF InOwn, OutOwn, Own, IsProgram
<1>4. IsCall(c) /\ Numbers(c.fds) = Numbers(fds) \ {own}
  <2> HIDE DEF own
  <2> QED BY <1>3, OwnClosed
<1> HIDE DEF c
<1>5. CASE Ends(p, c)
  BY <1>3, <1>4, <1>5, ProgramEnds
<1>6. CASE next.names # <<>> /\ Goes(p, c, r)
  <2>1. /\ DOMAIN r = DOMAIN q /\ r.cmd = q.cmd /\ r.names = Tail(q.names) /\ r.at = "open"
        /\ r.in = IF q.cmd = "cat" THEN None ELSE q.in
        /\ r.out = IF q.cmd = "cat" THEN q.out ELSE Terminal
        /\ r.names # <<>>
    BY <1>2, <1>6 DEF IsProgram
  <2>2. Goes(p, c, r)
    BY <1>6
  <2> HIDE DEF r, next
  <2>3. Own(r) = {}
    BY <1>1, <2>1 DEF InOwn, OutOwn, Own
  <2>4. r.names \in Seq(Name)
    <3>1. q.names \in Seq(Name)
      BY <1>2 DEF IsProgram
    <3>2. q.names # <<>>
      BY <1>1, <1>2 DEF IsProgram
    <3> QED BY <2>1, <3>1, <3>2, HeadTailProperties
  <2>5. IsProgram(r)
    <3> HIDE DEF q
    <3> QED BY <1>1, <1>2, <2>1, <2>3, <2>4 DEF IsProgram
  <2>6. \/ own = q.in /\ r.in = None /\ r.out = q.out /\ ~OutOwn(q)
        \/ own = q.out /\ r.out = Terminal /\ r.in = q.in /\ ~InOwn(q)
    BY <1>1, <1>3, <2>1
  <2> HIDE DEF own
  <2> QED BY <1>3, <1>4, <2>2, <2>3, <2>5, <2>6, ProgramCloses
<1> QED BY <1>1, <1>5, <1>6

\* Whatever a program does next.
LEMMA StepOK ==
  ASSUME IInv, NEW p \in Proc, Step(p)
  PROVE  IInv'
BY OpensSourceOK, CatReadsOK, CatWritesOK, ClosesOneOK, TouchOpensOK, TouchWritesOK,
   CopySeeksOK, CopyReadsOK, CopyClosesOK, CopyCreatesOK, CopyWritesOK, CopyFinishesOK
   DEF Step

-----------------------------------------------------------------------------
(***************************************************************************)
(* The steps of the shell.                                                 *)
(***************************************************************************)
\* The stage a line goes on at fits the files it has opened.
LEMMA GoOnFacts ==
  ASSUME NEW s, DOMAIN s = {"at", "line", "in", "out"}, s.line \in Lines,
         s.in \in Held => s.in # s.out, s.in # Terminal, s.out # None, NEW i \in 1..6,
         i = 1 => s.in = None, i <= 2 \/ i = 6 => s.out = Terminal
  PROVE  IsShell(GoOn(s, i)) /\ GoOn(s, i).in = s.in /\ GoOn(s, i).out = s.out
<1> DEFINE needed(at) ==
             CASE at = "in" -> s.line.in # None
               [] at = "out" -> s.line.out # None
               [] at = "wait" -> ~s.line.background
               [] at = "close_out" -> s.out # Terminal
               [] at = "close_in" -> s.in # None
               [] OTHER -> TRUE
           J == {j \in i..Len(Stages) : needed(Stages[j])}
           m == Min(J)
           r == GoOn(s, i)
<1>1. r = IF Stages[m] = "prompt" THEN Idle ELSE [s EXCEPT !.at = Stages[m]]
  BY DEF GoOn
<1>2. /\ needed("in") <=> s.line.in # None
      /\ needed("out") <=> s.line.out # None
      /\ needed("close_out") <=> s.out # Terminal
      /\ needed("close_in") <=> s.in # None
      /\ needed("prompt")
  OBVIOUS
<1>3. /\ Len(Stages) = 7
      /\ Stages[1] = "in" /\ Stages[2] = "out" /\ Stages[3] = "spawn" /\ Stages[4] = "wait"
      /\ Stages[5] = "close_out" /\ Stages[6] = "close_in" /\ Stages[7] = "prompt"
  BY DEF Stages
<1>4. \A j \in 1..7 : Stages[j] \in Range(Stages)
  BY DEF Stages, Range
<1> HIDE DEF needed
<1>5. J \subseteq Nat /\ 7 \in J
  BY <1>2, <1>3
<1>6. m \in J /\ \A j \in J : m <= j
  <2> HIDE DEF J
  <2> QED BY <1>5, MinOfNaturals
<1>7. /\ m \in i..7 /\ needed(Stages[m])
      /\ \A j \in i..7 : j < m => ~needed(Stages[j])
  <2>1. m \in Nat /\ J \subseteq Nat
    BY <1>5, <1>6
  <2> HIDE DEF m
  <2> QED BY <1>3, <1>6, <2>1
<1> HIDE DEF m, r, J
<1>8. CASE m = 7
  <2>1. s.in = None
    <3>1. 6 \in i..7 /\ 6 < m
      BY <1>8
    <3> QED BY <1>2, <1>3, <1>7, <3>1
  <2>2. s.out = Terminal
    <3>1. CASE i = 6
      BY <3>1
    <3>2. CASE i # 6
      <4>1. 5 \in i..7 /\ 5 < m
        BY <1>8, <3>2
      <4> QED BY <1>2, <1>3, <1>7, <4>1
    <3> QED BY <3>1, <3>2
  <2>3. r = Idle
    BY <1>1, <1>3, <1>8
  <2>4. IsShell(Idle)
    BY <1>3, <1>4, NoneIsNoNumber DEF IsShell, Idle
  <2> QED BY <2>1, <2>2, <2>3, <2>4 DEF Idle, r
<1>9. CASE m # 7
  <2>1. m \in 1..6 /\ Stages[m] # "prompt" /\ i <= m
    BY <1>3, <1>7, <1>9
  <2>2. /\ DOMAIN r = {"at", "line", "in", "out"} /\ r.at = Stages[m] /\ r.line = s.line
        /\ r.in = s.in /\ r.out = s.out
    BY <1>1, <2>1
  <2> HIDE DEF r
  <2>0. \/ m = 1 \/ m = 2 \/ m = 3 \/ m = 4 \/ m = 5 \/ m = 6
    BY <2>1
  <2>3. r.at = "in" => s.line.in # None /\ s.in = None /\ s.out = Terminal
    <3>1. r.at = "in" => m = 1
      BY <1>3, <2>0, <2>2
    <3> QED BY <1>2, <1>3, <1>7, <2>1, <3>1
  <2>4. r.at = "out" => s.line.out # None /\ s.out = Terminal
    <3>1. r.at = "out" => m = 2
      BY <1>3, <2>0, <2>2
    <3> QED BY <1>2, <1>3, <1>7, <2>1, <3>1
  <2>5. r.at = "close_out" => s.out # Terminal
    BY <1>2, <1>7, <2>2
  <2>6. r.at = "close_in" => s.in # None /\ s.out = Terminal
    <3>1. r.at = "close_in" => m = 6
      BY <1>3, <2>0, <2>2
    <3>2. m = 6 /\ i # 6 => 5 \in i..7 /\ 5 < m
      BY <1>7
    <3> QED BY <1>2, <1>3, <1>7, <3>1, <3>2
  <2>7. r.at \in Range(Stages) /\ r.at # "prompt"
    BY <1>4, <2>1, <2>2
  <2>8. IsShell(r)
    BY <2>2, <2>3, <2>4, <2>5, <2>6, <2>7 DEF IsShell
  <2> QED BY <2>2, <2>8 DEF r
<1> QED BY <1>8, <1>9

\* A line that is started on has opened nothing yet.
LEMMA StartedFacts ==
  ASSUME IInv, NEW s \in Started
  PROVE  IsShell(s) /\ s.in = shell.in /\ s.out = shell.out
<1>1. IsShell(shell)
  BY DEF IInv, Orderly, UsersOK
<1>2. CASE shell.at = "prompt"
  <2>1. PICK line \in Lines : s = GoOn([Idle EXCEPT !.line = line], 1)
    BY <1>2 DEF Started
  <2> DEFINE t == [Idle EXCEPT !.line = line]
  <2>2. /\ DOMAIN t = {"at", "line", "in", "out"} /\ t.line \in Lines
        /\ t.in = None /\ t.out = Terminal
    BY DEF Idle
  <2> HIDE DEF t
  <2>3. IsShell(GoOn(t, 1)) /\ GoOn(t, 1).in = None /\ GoOn(t, 1).out = Terminal
    BY <2>2, NoneIsNoNumber, GoOnFacts
  <2>4. shell.in = None /\ shell.out = Terminal
    BY <1>1, <1>2 DEF IsShell, Idle
  <2> QED BY <2>1, <2>3, <2>4 DEF t
<1>3. CASE shell.at # "prompt"
  BY <1>1, <1>3 DEF Started
<1> QED BY <1>2, <1>3

\* ... so that it goes with programs and descriptors as the shell does.
LEMMA StartedSound ==
  ASSUME IInv, NEW s \in Started
  PROVE  Orderly(fs, fds, prog, s)
<1>1. IsShell(s) /\ s.in = shell.in /\ s.out = shell.out /\ Holds(s) = Holds(shell)
  BY StartedFacts DEF Holds
<1> QED BY <1>1 DEF IInv, Orderly, UsersOK, AllHeld

\* The shell, at s, has closed the numbers gone, which no program uses, been given the
\* numbers new, and goes on as t.
LEMMA ShellGoesOn ==
  ASSUME NEW s, Orderly(fs, fds, prog, s), NEW c, IsCall(c), NEW gone, NEW new,
         NEW t, IsShell(t), new \cap Numbers(fds) = {},
         \A p \in Proc : Holds(prog[p]) \cap gone = {},
         Numbers(c.fds) = (Numbers(fds) \ gone) \cup new,
         Holds(t) \subseteq (Holds(s) \ gone) \cup new,
         "left_open" \notin Situations =>
           /\ \A p \in Proc : /\ InOwn(prog[p]) \/ prog[p].in \in {None, t.in}
                              /\ OutOwn(prog[p]) \/ prog[p].out \in {Terminal, t.out}
           /\ Numbers(c.fds) \cap (Holds(s) \cup new) \subseteq Holds(t)
  PROVE  Orderly(c.fs, c.fds, prog, t)
<1> DEFINE d == c.fds
<1>1. UsersOK(fds, prog, s)
  BY DEF Orderly
<1> HIDE DEF d
<1>2. Holds(t) \subseteq Numbers(d) /\ \A p \in Proc : Holds(prog[p]) \subseteq Numbers(d)
  BY <1>1 DEF UsersOK, d
<1>3. \A p \in Proc : Own(prog[p]) \cap Holds(t) = {}
  BY <1>1 DEF UsersOK, IsProgram
<1>4. UsersOK(d, prog, t)
  BY <1>1, <1>2, <1>3 DEF UsersOK
<1>5. ASSUME "left_open" \notin Situations PROVE AllHeld(d, prog, t)
  <2>1. Numbers(fds) \subseteq Holds(s) \cup UNION {Holds(prog[p]) : p \in Proc}
    BY <1>5 DEF Orderly, AllHeld
  <2>2. Numbers(d) \subseteq Holds(t) \cup UNION {Holds(prog[p]) : p \in Proc}
    BY <1>5, <2>1 DEF d
  <2> QED BY <1>5, <2>2 DEF AllHeld
<1> QED BY <1>4, <1>5 DEF Orderly, IsCall, d

\* What the types say of a line.
LEMMA LineFacts ==
  ASSUME NEW line \in Lines
  PROVE  /\ line.names \in Seq(Name) /\ line.in \in Name \cup {None}
         /\ line.out \in Name \cup {None}
         /\ line.cmd = "cp" => Len(line.names) = 2
         /\ line.cmd = "touch" => line.names # <<>>
BY DescriptorAssumption DEF Line

\* What the invariant says of a shell.
LEMMA ShellFacts ==
  ASSUME NEW s, Orderly(fs, fds, prog, s)
  PROVE  /\ FsOK(fs) /\ FdsOK(fs, fds) /\ IsShell(s) /\ Holds(s) \subseteq Numbers(fds)
         /\ Numbers(fds) \subseteq Held
         /\ s.in = None \/ s.in = Terminal \/ s.in \in Holds(s)
         /\ s.out = None \/ s.out = Terminal \/ s.out \in Holds(s)
BY NumberFound DEF Orderly, UsersOK, Holds

\* The shell opens the file for the input.
LEMMA OpenInOK ==
  ASSUME IInv, NEW s \in Started, OpenIn(s)
  PROVE  IInv'
<1> DEFINE c == f_open(fs, fds, s.line.in, "read")
           u == [s EXCEPT !.in = c.held]
           t == GoOn(u, 2)
<1>1. s.at = "in" /\ IF c.ok THEN Commit(c, prog, t) ELSE Restart
  BY DEF OpenIn
<1>2. Orderly(fs, fds, prog, s) /\ IsShell(s) /\ FsOK(fs) /\ FdsOK(fs, fds)
  BY StartedSound, ShellFacts
<1>3. /\ s.line \in Lines /\ s.line.in \in Name /\ s.in = None /\ s.out = Terminal
      /\ DOMAIN s = {"at", "line", "in", "out"}
  BY <1>1, <1>2, LineFacts DEF IsShell
<1>4. c.ok => OneMore(fds, c)
  BY <1>2, <1>3, OpenOK
<1> HIDE DEF c
<1>5. CASE ~c.ok
  BY <1>1, <1>5, Restarted
<1>6. CASE c.ok
  <2>1. c.held \in Held
    BY <1>4, <1>6, NumberFound DEF OneMore, IsCall
  <2>2. /\ DOMAIN u = {"at", "line", "in", "out"} /\ u.line \in Lines
        /\ u.in = c.held /\ u.out = Terminal
    BY <1>3
  <2> HIDE DEF u
  <2>3. IsShell(t) /\ t.in = c.held /\ t.out = Terminal
    BY <2>1, <2>2, NoneIsNoNumber, GoOnFacts
  <2> HIDE DEF t
  <2> DEFINE gone == {}
             new == {c.held}
  <2>4. IsCall(c) /\ Numbers(c.fds) = (Numbers(fds) \ gone) \cup new
        /\ new \cap Numbers(fds) = {}
    BY <1>4, <1>6 DEF OneMore
  <2>5. /\ Holds(t) \subseteq (Holds(s) \ gone) \cup new
        /\ Holds(s) \cup new \subseteq Holds(t)
        /\ \A p \in Proc : Holds(prog[p]) \cap gone = {}
    BY <1>3, <2>1, <2>3, NoneIsNoNumber DEF Holds
  <2> HIDE DEF gone, new
  <2>6. "left_open" \notin Situations =>
          \A p \in Proc : /\ InOwn(prog[p]) \/ prog[p].in \in {None, t.in}
                          /\ OutOwn(prog[p]) \/ prog[p].out \in {Terminal, t.out}
    BY <1>2, <1>3, <2>3 DEF Orderly, AllHeld
  <2>7. "left_open" \notin Situations =>
          /\ \A p \in Proc : /\ InOwn(prog[p]) \/ prog[p].in \in {None, t.in}
                             /\ OutOwn(prog[p]) \/ prog[p].out \in {Terminal, t.out}
          /\ Numbers(c.fds) \cap (Holds(s) \cup new) \subseteq Holds(t)
    BY <2>5, <2>6
  <2>8. Orderly(c.fs, c.fds, prog, t)
    BY <1>2, <2>3, <2>4, <2>5, <2>7, ShellGoesOn
  <2> QED BY <1>1, <1>6, <2>8, Committed
<1> QED BY <1>5, <1>6

\* ... and for the output.
LEMMA OpenOutOK ==
  ASSUME IInv, NEW s \in Started, OpenOut(s)
  PROVE  IInv'
<1> DEFINE c == f_open(fs, fds, s.line.out, s.line.mode)
           u == [s EXCEPT !.out = c.held]
           t == GoOn(u, 3)
<1>1. s.at = "out" /\ IF c.ok THEN Commit(c, prog, t) ELSE Restart
  BY DEF OpenOut
<1>2. Orderly(fs, fds, prog, s) /\ IsShell(s) /\ FsOK(fs) /\ FdsOK(fs, fds)
      /\ Holds(s) \subseteq Numbers(fds)
  BY StartedSound, ShellFacts
<1>3. /\ s.line \in Lines /\ s.line.out \in Name /\ s.out = Terminal
      /\ DOMAIN s = {"at", "line", "in", "out"}
  BY <1>1, <1>2, LineFacts DEF IsShell
<1>4. c.ok => OneMore(fds, c)
  BY <1>2, <1>3, OpenOK
<1> HIDE DEF c
<1>5. CASE ~c.ok
  BY <1>1, <1>5, Restarted
<1>6. CASE c.ok
  <2>1. c.held \in Held /\ c.held \notin Numbers(fds) /\ c.held \notin {None, Terminal}
    BY <1>4, <1>6, NumberFound, NoneIsNoNumber DEF OneMore, IsCall
  <2>2. /\ DOMAIN u = {"at", "line", "in", "out"} /\ u.line \in Lines
        /\ u.in = s.in /\ u.out = c.held
    BY <1>3
  <2>3. s.in # c.held /\ s.in # Terminal
    BY <1>2, <2>1 DEF Holds, IsShell
  <2> HIDE DEF u
  <2>4. IsShell(t) /\ t.in = s.in /\ t.out = c.held
    BY <2>1, <2>2, <2>3, GoOnFacts
  <2> HIDE DEF t
  <2> DEFINE gone == {}
             new == {c.held}
  <2>5. IsCall(c) /\ Numbers(c.fds) = (Numbers(fds) \ gone) \cup new
        /\ new \cap Numbers(fds) = {}
    BY <1>4, <1>6 DEF OneMore
  <2>6. /\ Holds(t) \subseteq (Holds(s) \ gone) \cup new
        /\ Holds(s) \cup new \subseteq Holds(t)
        /\ \A p \in Proc : Holds(prog[p]) \cap gone = {}
    BY <1>3, <2>1, <2>4 DEF Holds
  <2> HIDE DEF gone, new
  <2>7. "left_open" \notin Situations =>
          \A p \in Proc : /\ InOwn(prog[p]) \/ prog[p].in \in {None, t.in}
                          /\ OutOwn(prog[p]) \/ prog[p].out \in {Terminal, t.out}
    BY <1>2, <1>3, <2>4 DEF Orderly, AllHeld
  <2>8. "left_open" \notin Situations =>
          /\ \A p \in Proc : /\ InOwn(prog[p]) \/ prog[p].in \in {None, t.in}
                             /\ OutOwn(prog[p]) \/ prog[p].out \in {Terminal, t.out}
          /\ Numbers(c.fds) \cap (Holds(s) \cup new) \subseteq Holds(t)
    BY <2>6, <2>7
  <2>9. Orderly(c.fs, c.fds, prog, t)
    BY <1>2, <2>4, <2>5, <2>6, <2>8, ShellGoesOn
  <2> QED BY <1>1, <1>6, <2>9, Committed
<1> QED BY <1>5, <1>6

\* The shell goes on at another stage, with the same numbers.
LEMMA ShellMoves ==
  ASSUME NEW s, Orderly(fs, fds, prog, s), NEW t, IsShell(t), t.in = s.in, t.out = s.out,
         fs' = fs, fds' = fds, prog' = prog, shell' = t
  PROVE  IInv'
<1>1. Holds(t) = Holds(s)
  BY DEF Holds
<1> QED BY <1>1 DEF IInv, Orderly, UsersOK, AllHeld

\* A line at one of the stages from the third to the fifth can go on.
LEMMA GoOnLater ==
  ASSUME NEW s, IsShell(s), s.at # "prompt", NEW i \in 3..5
  PROVE  IsShell(GoOn(s, i)) /\ GoOn(s, i).in = s.in /\ GoOn(s, i).out = s.out
<1>1. i \in 1..6 /\ i # 1 /\ ~ (i <= 2 \/ i = 6)
  OBVIOUS
<1> QED BY <1>1, GoOnFacts DEF IsShell

\* A command of the shell itself.
LEMMA RunBuiltinOK ==
  ASSUME IInv, NEW s \in Started, RunBuiltin(s)
  PROVE  IInv'
<1>1. Orderly(fs, fds, prog, s) /\ IsShell(s)
  BY StartedSound, ShellFacts
<1>2. IsShell(GoOn(s, 5)) /\ GoOn(s, 5).in = s.in /\ GoOn(s, 5).out = s.out
  BY <1>1, GoOnLater DEF RunBuiltin
<1> QED BY <1>1, <1>2, ShellMoves DEF RunBuiltin

\* The program of the line has ended.
LEMMA WaitedOK ==
  ASSUME IInv, Waited
  PROVE  IInv'
<1>1. Orderly(fs, fds, prog, shell) /\ IsShell(shell)
  BY ShellFacts DEF IInv
<1>2. IsShell(GoOn(shell, 5)) /\ GoOn(shell, 5).in = shell.in
      /\ GoOn(shell, 5).out = shell.out
  BY <1>1, GoOnLater DEF Waited
<1> QED BY <1>1, <1>2, ShellMoves DEF Waited

\* An unknown command.
LEMMA GiveUpOK ==
  ASSUME IInv, NEW s \in Started, GiveUp(s)
  PROVE  IInv'
<1> DEFINE k == Call(TRUE, fs, fds)
           left == s.in # None \/ s.out # Terminal
           c == Marked(k, "left_open", left)
<1>1. Commit(c, prog, Idle)
  BY DEF GiveUp
<1>2. Orderly(fs, fds, prog, s) /\ FsOK(fs) /\ FdsOK(fs, fds)
  BY StartedSound, ShellFacts
<1>3. IsCall(k) /\ k.fds = fds
  BY <1>2 DEF Call, IsCall
<1> HIDE DEF k
<1>4. IsCall(c) /\ c.fds = fds /\ (left => "left_open" \in c.fs.damage)
  BY <1>3, MarkedOK
<1> HIDE DEF c
<1>5. IsShell(Idle) /\ Holds(Idle) = {} /\ Idle.in = None /\ Idle.out = Terminal
  BY IdleFacts
<1>6. ASSUME c.fs.damage \subseteq Situations PROVE Orderly(c.fs, c.fds, prog, Idle)
  <2> DEFINE gone == {}
             new == {}
  <2>1. ASSUME "left_open" \notin Situations
        PROVE  /\ s.in = None /\ s.out = Terminal /\ Holds(s) = {}
               /\ \A p \in Proc : /\ InOwn(prog[p]) \/ prog[p].in \in {None, Idle.in}
                                  /\ OutOwn(prog[p]) \/ prog[p].out \in {Terminal, Idle.out}
    <3>1. s.in = None /\ s.out = Terminal
      BY <1>4, <1>6, <2>1
    <3> QED BY <1>2, <1>5, <2>1, <3>1 DEF Holds, Orderly, AllHeld
  <2>2. /\ new \cap Numbers(fds) = {} /\ \A p \in Proc : Holds(prog[p]) \cap gone = {}
        /\ Numbers(c.fds) = (Numbers(fds) \ gone) \cup new
        /\ Holds(Idle) \subseteq (Holds(s) \ gone) \cup new
        /\ "left_open" \notin Situations =>
             Numbers(c.fds) \cap (Holds(s) \cup new) \subseteq Holds(Idle)
    BY <1>4, <1>5, <2>1
  <2> HIDE DEF gone, new
  <2> QED BY <1>2, <1>4, <1>5, <2>1, <2>2, ShellGoesOn
<1> QED BY <1>1, <1>6, Committed

\* A process takes over the line and the numbers of the shell.
LEMMA SpawnOK ==
  ASSUME IInv, NEW s \in Started, Spawn(s)
  PROVE  IInv'
<1> DEFINE line == s.line
           free == {p \in IF line.background THEN Proc \ {fore} ELSE {fore} : prog[p] = NoProgram}
           o == CHOOSE p \in free : TRUE
           r == [cmd |-> line.cmd, names |-> line.names, in |-> s.in, out |-> s.out,
                 buf |-> <<>>, at |-> IF line.names = <<>> THEN "read" ELSE "open"]
           t == GoOn(s, 4)
<1>1. /\ s.at = "spawn" /\ line.cmd \in {"cat", "touch", "cp"} /\ o \in free
      /\ fs' = fs /\ fds' = fds /\ prog' = [prog EXCEPT ![o] = r] /\ shell' = t
  BY DEF Spawn
<1>2. Orderly(fs, fds, prog, s) /\ IsShell(s)
  BY StartedSound, ShellFacts
<1>3. o \in Proc /\ prog[o] = NoProgram
  BY <1>1, DescriptorAssumption
<1>4. IsShell(t) /\ t.in = s.in /\ t.out = s.out
  BY <1>1, <1>2, GoOnLater
<1>5. line \in Lines
  BY <1>1, <1>2 DEF IsShell
<1>6. IsProgram(r) /\ Own(r) = {} /\ Holds(r) = Holds(s)
  <2>1. /\ r.cmd = line.cmd /\ r.names = line.names /\ r.in = s.in /\ r.out = s.out
        /\ r.at = IF line.names = <<>> THEN "read" ELSE "open"
        /\ DOMAIN r = {"cmd", "at", "names", "in", "out", "buf"}
    OBVIOUS
  <2>2. /\ line.names \in Seq(Name)
        /\ line.cmd = "cp" => Len(line.names) = 2
        /\ line.cmd = "touch" => line.names # <<>>
    BY <1>5, LineFacts
  <2>3. line.cmd = "cp" => line.names # <<>>
    BY <2>2
  <2> HIDE DEF r, line
  <2>4. ~InOwn(r) /\ ~OutOwn(r)
    BY <1>1, <2>1, <2>3 DEF InOwn, OutOwn
  <2>5. Own(r) = {}
    BY <2>4 DEF Own
  <2>6. r.at = "open" => r.names # <<>>
    BY <2>1
  <2>7. r.at # "close"
    BY <2>1
  <2>8. Holds(r) = Holds(s)
    BY <2>1 DEF Holds
  <2> QED BY <2>1, <2>2, <2>5, <2>6, <2>7, <2>8 DEF IsProgram
<1>7. r.in = s.in /\ r.out = s.out
  OBVIOUS
<1>8. Own(NoProgram) = {} /\ Holds(NoProgram) = {}
  BY DEF Own, Holds, InOwn, OutOwn, NoProgram
<1> DEFINE ps == [prog EXCEPT ![o] = r]
<1>9. prog = [p \in Proc |-> prog[p]] /\ Holds(t) = Holds(s)
  BY <1>2, <1>4 DEF Orderly, UsersOK, Holds
<1>10. ps = [p \in Proc |-> ps[p]] /\ \A p \in Proc : ps[p] = IF p = o THEN r ELSE prog[p]
  BY <1>3, <1>9
<1> HIDE DEF ps, r, o, t, line
<1>11. UsersOK(fds, ps, t)
  <2>1. UsersOK(fds, prog, s)
    BY <1>2 DEF Orderly
  <2>2. \A p \in Proc : IsProgram(ps[p])
    BY <1>6, <1>10, <2>1 DEF UsersOK
  <2>3. \A p \in Proc : Holds(ps[p]) \subseteq Numbers(fds)
    BY <1>6, <1>10, <2>1 DEF UsersOK
  <2>4. \A p \in Proc : Own(ps[p]) \cap Holds(t) = {}
    BY <1>6, <1>9, <1>10, <2>1 DEF UsersOK
  <2>5. ASSUME NEW p \in Proc, NEW k \in Proc, p # k
        PROVE  Own(ps[p]) \cap Holds(ps[k]) = {}
    <3>1. Own(prog[p]) \cap Holds(s) = {} /\ Own(prog[p]) \cap Holds(prog[k]) = {}
      BY <2>1, <2>5 DEF UsersOK
    <3> QED BY <1>6, <1>10, <3>1
  <2> QED BY <1>4, <1>9, <1>10, <2>1, <2>2, <2>3, <2>4, <2>5 DEF UsersOK
<1>12. ASSUME "left_open" \notin Situations PROVE AllHeld(fds, ps, t)
  <2>1. AllHeld(fds, prog, s)
    BY <1>2, <1>12 DEF Orderly
  <2>2. \A p \in Proc : /\ InOwn(ps[p]) \/ ps[p].in \in {None, t.in}
                        /\ OutOwn(ps[p]) \/ ps[p].out \in {Terminal, t.out}
    BY <1>4, <1>7, <1>10, <2>1 DEF AllHeld
  <2>3. UNION {Holds(prog[p]) : p \in Proc} \subseteq UNION {Holds(ps[p]) : p \in Proc}
    <3>1. \A p \in Proc : Holds(prog[p]) \subseteq Holds(ps[p])
      BY <1>3, <1>8, <1>10
    <3> QED BY <3>1
  <2> QED BY <1>9, <2>1, <2>2, <2>3 DEF AllHeld
<1> QED BY <1>1, <1>2, <1>11, <1>12 DEF IInv, Orderly, ps

\* A file redirected to is closed when no program uses it any more.
LEMMA CloseRedirectedOK ==
  ASSUME IInv, "closed_behind" \notin Situations, NEW h \in Holds(shell),
         NEW t, IsShell(t), Holds(t) = Holds(shell) \ {h},
         t.in = shell.in \/ (t.in = None /\ h = shell.in),
         t.out = shell.out \/ (t.out = Terminal /\ h = shell.out),
         CloseRedirected(h, t)
  PROVE  IInv'
<1> DEFINE used == \E p \in Proc : h \in {prog[p].in, prog[p].out}
           k == f_close(fs, fds, h.id)
           c == Marked(k, "closed_behind", used)
<1>1. Orderly(fs, fds, prog, shell) /\ FsOK(fs) /\ FdsOK(fs, fds) /\ h \in Numbers(fds)
  BY ShellFacts DEF IInv
<1>2. k.ok /\ IsCall(k) /\ Numbers(k.fds) = Numbers(fds) \ {h}
  BY <1>1, NumberClosed
<1>3. Commit(c, prog, t)
  BY <1>2 DEF CloseRedirected
<1> HIDE DEF k, used
<1>4. IsCall(c) /\ c.fds = k.fds /\ (used => "closed_behind" \in c.fs.damage)
  BY <1>2, MarkedOK
<1> HIDE DEF c
<1>5. ASSUME c.fs.damage \subseteq Situations PROVE Orderly(c.fs, c.fds, prog, t)
  <2>1. \A p \in Proc : prog[p].in # h /\ prog[p].out # h
    BY <1>4, <1>5 DEF used
  <2> DEFINE gone == {h}
             new == {}
  <2>2. /\ new \cap Numbers(fds) = {}
        /\ \A p \in Proc : Holds(prog[p]) \cap gone = {}
        /\ Numbers(c.fds) = (Numbers(fds) \ gone) \cup new
        /\ Holds(t) \subseteq (Holds(shell) \ gone) \cup new
    BY <1>2, <1>4, <2>1 DEF Holds
  <2>3. ASSUME "left_open" \notin Situations
        PROVE  /\ \A p \in Proc : /\ InOwn(prog[p]) \/ prog[p].in \in {None, t.in}
                                  /\ OutOwn(prog[p]) \/ prog[p].out \in {Terminal, t.out}
               /\ Numbers(c.fds) \cap (Holds(shell) \cup new) \subseteq Holds(t)
    <3>1. AllHeld(fds, prog, shell)
      BY <1>1, <2>3 DEF Orderly
    <3>2. ASSUME NEW p \in Proc
          PROVE  /\ InOwn(prog[p]) \/ prog[p].in \in {None, t.in}
                 /\ OutOwn(prog[p]) \/ prog[p].out \in {Terminal, t.out}
      BY <2>1, <3>1 DEF AllHeld
    <3>3. Numbers(c.fds) \cap (Holds(shell) \cup new) \subseteq Holds(t)
      BY <1>2, <1>4
    <3> QED BY <3>2, <3>3
  <2> HIDE DEF gone, new
  <2> QED BY <1>1, <1>4, <2>2, <2>3, ShellGoesOn
<1> QED BY <1>3, <1>5, Committed

\* The output is closed first, ...
LEMMA CloseOutOK ==
  ASSUME IInv, "closed_behind" \notin Situations, CloseOut
  PROVE  IInv'
<1> DEFINE u == [shell EXCEPT !.out = Terminal]
           t == GoOn(u, 6)
           h == shell.out
<1>1. shell.at = "close_out" /\ CloseRedirected(h, t)
  BY DEF CloseOut
<1>2. /\ IsShell(shell) /\ h # None
      /\ DOMAIN shell = {"at", "line", "in", "out"} /\ h # Terminal /\ shell.line \in Lines
  BY <1>1, ShellFacts DEF IInv, IsShell, Holds
<1>3. h \in Held /\ shell.in # h /\ h \in Holds(shell)
  BY <1>2, ShellFacts, NoneIsNoNumber DEF IInv, IsShell, Holds
<1>4. u.line = shell.line /\ u.in = shell.in /\ u.out = Terminal /\ DOMAIN u = DOMAIN shell
  BY <1>2
<1>5. u.in # u.out /\ u.in # Terminal /\ u.out # None
  BY <1>2, <1>4, NoneIsNoNumber, ShellFacts DEF IInv, IsShell, Terminal
<1> HIDE DEF u
<1>6. IsShell(t) /\ t.in = shell.in /\ t.out = Terminal
  BY <1>2, <1>4, <1>5, GoOnFacts
<1> HIDE DEF t, h
<1>7. Holds(t) = Holds(shell) \ {h}
  BY <1>2, <1>3, <1>6 DEF Holds, h
<1> QED BY <1>1, <1>3, <1>6, <1>7, CloseRedirectedOK DEF h

\* ... then the input.
LEMMA CloseInOK ==
  ASSUME IInv, "closed_behind" \notin Situations, CloseIn
  PROVE  IInv'
<1> DEFINE h == shell.in
<1>1. shell.at = "close_in" /\ CloseRedirected(h, Idle)
  BY DEF CloseIn
<1>2. shell.out = Terminal /\ h # None /\ h # Terminal
  BY <1>1, ShellFacts DEF IInv, IsShell
<1>3. h \in Holds(shell) /\ Holds(Idle) = Holds(shell) \ {h}
  BY <1>2 DEF Holds, Idle
<1>4. IsShell(Idle) /\ Idle.in = None /\ Idle.out = Terminal
  BY IdleFacts
<1> QED BY <1>1, <1>2, <1>3, <1>4, CloseRedirectedOK

-----------------------------------------------------------------------------
(***************************************************************************)
(* rm, mv and chmod, the end of a program by ^C, and every step.           *)
(***************************************************************************)
\* A call that opens and closes nothing, while programs and shell stay.
LEMMA SteadySound ==
  ASSUME IInv, NEW c, Steady(fds, c)
  PROVE  Orderly(c.fs, c.fds, prog, shell)
BY DEF IInv, Orderly, UsersOK, AllHeld, Steady, IsCall

\* A name is removed, renamed or its permissions changed, where the situations in
\* which numbers may go wrong are not followed.
LEMMA SavedSound ==
  ASSUME IInv, {"unlink_open", "mv_over_readonly"} \cap Situations = {},
         NEW r, DOMAIN r.fs = Fields, FsOK(r.fs) \/ "mv_over_readonly" \in r.fs.damage,
         Commit(Saved(r, fds), prog, shell)
  PROVE  IInv'
<1> DEFINE c == Saved(r, fds)
<1>1. \/ "unlink_open" \in c.fs.damage
      \/ "mv_over_readonly" \in c.fs.damage
      \/ Steady(fds, c)
  BY SavedOK DEF IInv, Orderly
<1> HIDE DEF c
<1>2. c.fs.damage \subseteq Situations => Steady(fds, c)
  BY <1>1
<1>3. c.fs.damage \subseteq Situations => Orderly(c.fs, c.fds, prog, shell)
  BY <1>2, SteadySound
<1> QED BY <1>3, Committed DEF c

\* rm.
LEMMA UnlinkOK ==
  ASSUME IInv, {"unlink_open", "mv_over_readonly"} \cap Situations = {},
         NEW name \in Name, f_unlink(name)
  PROVE  IInv'
<1> DEFINE r == deleteFileFromFAT(fs, name)
<1>1. FsOK(r.fs)
  BY DeleteFileOK DEF IInv, Orderly
<1>2. Commit(Saved(r, fds), prog, shell)
  BY DEF f_unlink
<1> HIDE DEF r
<1> QED BY <1>1, <1>2, SavedSound DEF FsOK

\* mv.
LEMMA MoveOK ==
  ASSUME IInv, {"unlink_open", "mv_over_readonly"} \cap Situations = {},
         NEW old \in Name, NEW new \in Name, f_mv(old, new)
  PROVE  IInv'
<1> DEFINE r == renameFile(fs, old, new)
<1>1. DOMAIN r.fs = Fields /\ (FsOK(r.fs) \/ "mv_over_readonly" \in r.fs.damage)
  BY RenameFileOK DEF IInv, Orderly
<1>2. Commit(Saved(r, fds), prog, shell)
  BY DEF f_mv
<1> HIDE DEF r
<1> QED BY <1>1, <1>2, SavedSound

\* chmod.
LEMMA ChmodOK ==
  ASSUME IInv, {"unlink_open", "mv_over_readonly"} \cap Situations = {},
         NEW g \in Granted, f_chmod(g[1], g[2])
  PROVE  IInv'
<1> DEFINE r == chmodFile(fs, g[1], g[2])
<1>1. FsOK(r.fs)
  BY ChmodFileOK DEF IInv, Orderly
<1>2. Commit(Saved(r, fds), prog, shell)
  BY DEF f_chmod
<1> HIDE DEF r
<1> QED BY <1>1, <1>2, SavedSound DEF FsOK

\* ^C.
LEMMA InterruptOK ==
  ASSUME IInv, Interrupt
  PROVE  IInv'
<1> DEFINE c == Call(TRUE, fs, fds)
<1>1. fore \in Proc /\ Ends(fore, c)
  BY DescriptorAssumption DEF Interrupt
<1>2. Steady(fds, c)
  BY DEF IInv, Orderly, Steady, IsCall, Call
<1> HIDE DEF c
<1> QED BY <1>1, <1>2, ProgramGivesUp

\* The situations in which a number does not lead to its file, or a file has two
\* writers: a file a program still uses is closed behind it, an open file is
\* removed, or two files have one name.
NumbersKept ==
  {"closed_behind", "unlink_open", "mv_over_readonly"} \cap Situations = {}

\* The shell.
LEMMA ShellStepOK ==
  ASSUME IInv, NumbersKept, ShellStep
  PROVE  IInv'
<1>1. "closed_behind" \notin Situations
  BY DEF NumbersKept
<1>2. ASSUME NEW s \in Started,
             OpenIn(s) \/ OpenOut(s) \/ Spawn(s) \/ RunBuiltin(s) \/ GiveUp(s)
      PROVE  IInv'
  BY <1>2, OpenInOK, OpenOutOK, SpawnOK, RunBuiltinOK, GiveUpOK
<1> QED BY <1>1, <1>2, WaitedOK, CloseOutOK, CloseInOK DEF ShellStep

\* Every step.
LEMMA NextOK ==
  ASSUME IInv, NumbersKept, [Next]_vars
  PROVE  IInv'
<1>1. {"unlink_open", "mv_over_readonly"} \cap Situations = {}
  BY DEF NumbersKept
<1>2. CASE \E p \in Proc : Step(p)
  BY <1>2, StepOK
<1>3. CASE ShellStep
  BY <1>3, ShellStepOK
<1>4. CASE \E name \in Name : f_unlink(name)
  BY <1>1, <1>4, UnlinkOK
<1>5. CASE \E old, new \in Name : f_mv(old, new)
  BY <1>1, <1>5, MoveOK
<1>6. CASE \E g \in Granted : f_chmod(g[1], g[2])
  BY <1>1, <1>6, ChmodOK
<1>7. CASE Interrupt
  BY <1>7, InterruptOK
<1>8. CASE Restart
  BY <1>8, Restarted
<1>9. CASE UNCHANGED vars
  BY <1>9 DEF vars, IInv
<1> QED BY <1>2, <1>3, <1>4, <1>5, <1>6, <1>7, <1>8, <1>9 DEF Next

\* The invariant holds from the start on.
THEOREM Soundness ==
  ASSUME NumbersKept
  PROVE  Spec => []IInv
<1>1. Init => IInv
  BY FirstSound, MountedOK DEF Init, First, IInv
<1>2. IInv /\ [Next]_vars => IInv'
  BY NextOK
<1> QED BY <1>1, <1>2, PTL DEF Spec

\* The numbers of programs and shell are those they hold.
LEMMA HeldAreHolds ==
  HeldNumbers = Holds(shell) \cup UNION {Holds(prog[p]) : p \in Proc}
<1> DEFINE Q == {prog[p] : p \in Proc} \cup {shell}
           U == UNION {{q.in, q.out} : q \in Q}
<1>1. \A h : h \in U <=> \E q \in Q : h \in {q.in, q.out}
  OBVIOUS
<1>2. \A q : Holds(q) = {q.in, q.out} \ {None, Terminal}
  BY DEF Holds
<1>3. \A h : h \in U \ {None, Terminal}
              <=> h \in Holds(shell) \/ \E p \in Proc : h \in Holds(prog[p])
  <2> HIDE DEF U
  <2> QED BY <1>1, <1>2
<1>4. HeldNumbers = U \ {None, Terminal}
  BY DEF HeldNumbers
<1> HIDE DEF U
<1> QED BY <1>3, <1>4

\* A number that a program or the shell has been given leads to the file it was
\* opened for as long as they keep it, whoever opens, closes, renames and saves in
\* between and however often numbers are used again.
THEOREM NumbersLeadHome ==
  ASSUME NumbersKept
  PROVE  Spec => []OwnFile
<1>1. IInv => OwnFile
  <2> SUFFICES ASSUME IInv, NEW h \in HeldNumbers
               PROVE  Node(fds, h.id) # 0 /\ fds[Node(fds, h.id)].at = h.of
    BY DEF OwnFile
  <2>1. FdsOK(fs, fds) /\ h \in Numbers(fds)
    BY HeldAreHolds DEF IInv, Orderly, UsersOK
  <2> QED BY <2>1, NumberFound
<1> QED BY <1>1, Soundness, PTL

\* A file has one writer: f_open looks for its name among the open files, which
\* have kept their entries under whatever name.
THEOREM SingleWriter ==
  ASSUME NumbersKept
  PROVE  Spec => []OneWriter
<1>1. IInv => OneWriter
  BY DEF IInv, Orderly, FdsOK, OneWriter
<1> QED BY <1>1, Soundness, PTL

\* Where no program ends with a file open and the shell gives up no line with a file
\* redirected to, every descriptor belongs to somebody who can still close it.
THEOREM EverythingIsClosed ==
  ASSUME NumbersKept, "left_open" \notin Situations
  PROVE  Spec => []NoneLeftOpen
<1>1. IInv => NoneLeftOpen
  <2> SUFFICES ASSUME IInv, NEW i \in DOMAIN fds
               PROVE  fds[i].id \in {h.id : h \in HeldNumbers}
    BY DEF NoneLeftOpen
  <2> DEFINE h == [id |-> fds[i].id, of |-> fds[i].at]
  <2>1. h \in Numbers(fds)
    BY DEF Numbers
  <2>2. h \in HeldNumbers
    BY <2>1, HeldAreHolds DEF IInv, Orderly, AllHeld
  <2>3. h.id = fds[i].id
    OBVIOUS
  <2> QED BY <2>2, <2>3
<1> QED BY <1>1, Soundness, PTL

-----------------------------------------------------------------------------
(***************************************************************************)
(* The table under the descriptors.  What a call leaves is sound unless it *)
(* has met a situation in which the table is damaged.                      *)
(***************************************************************************)
\* Descriptors in every place.
Plain(d) == \A i \in DOMAIN d : d[i] \in Fd

\* A file system in which a call has met no such situation.
Harmless(f) == f.damage \cap (Forbidden \cup Misplaced) = {}

\* None of them is allowed.
Unharmed == Situations \cap (Forbidden \cup Misplaced) = {}

\* From f to g a call keeps a file system sound.
Follows(f, g) == DOMAIN g = Fields /\ (Harmless(g) => Harmless(f) /\ \A k : Keeps(f, g, k))

\* A call from a file system that is intact.
Fine(c) == Harmless(c.fs) => Plain(c.fds) /\ Settled(c.fs)

\* A call that leaves the file system alone.
LEMMA FollowsItself == ASSUME NEW f, DOMAIN f = Fields PROVE Follows(f, f)
BY KeepsStill DEF Follows

\* One part of a call after the other.
LEMMA FollowsOn ==
  ASSUME NEW f, NEW g, NEW h, Follows(f, g), Follows(g, h)
  PROVE  Follows(f, h)
<1>1. ASSUME Harmless(h), NEW k PROVE Keeps(f, h, k)
  BY <1>1, KeepsOn DEF Follows
<1> QED BY <1>1 DEF Follows

\* A flag does no harm but that it stands for.
LEMMA FlagFollows ==
  ASSUME NEW f, DOMAIN f = Fields, NEW S
  PROVE  Follows(f, [f EXCEPT !.damage = @ \cup S])
<1>1. PICK g : g = [f EXCEPT !.damage = @ \cup S]
  OBVIOUS
<1>2. DOMAIN g = Fields /\ g.damage = f.damage \cup S
  BY <1>1 DEF Fields
<1>3. ASSUME NEW k PROVE Keeps(f, g, k)
  BY <1>1, FlagsAdded
<1> QED BY <1>1, <1>2, <1>3 DEF Follows, Harmless

\* A search that finds nothing.
LEMMA SearchedFollows ==
  ASSUME NEW f, DOMAIN f = Fields, NEW d
  PROVE  Follows(f, Searched(f, d))
<1>1. PICK S : Searched(f, d) = [f EXCEPT !.damage = @ \cup S]
  BY DEF Searched
<1> QED BY <1>1, FlagFollows

\* What follows on a file system that is intact is settled.
LEMMA FollowsSettled ==
  ASSUME NEW f, Intact(f, TRUE), NEW g, Follows(f, g), Harmless(g)
  PROVE  Settled(g)
<1>1. PICK k : Sound(f, k) /\ DirectorySaved(f, k)
  BY DEF Intact
<1>2. Keeps(f, g, k) /\ Innocent(g)
  BY DEF Follows, Harmless, Innocent
<1> QED BY <1>1, <1>2, KeptSettled

\* ... so that a list that is plain makes a fine call.
LEMMA FineCall ==
  ASSUME NEW f, Intact(f, TRUE), NEW c, Follows(f, c.fs), Harmless(c.fs) => Plain(c.fds)
  PROVE  Fine(c)
BY FollowsSettled DEF Fine

\* A position is a number.
LEMMA PositionPlain ==
  ASSUME NEW d, Plain(d), NEW i, NEW pos \in Nat
  PROVE  Plain([d EXCEPT ![i].pos = pos])
<1> DEFINE e == [d EXCEPT ![i].pos = pos]
<1>1. /\ DOMAIN e = DOMAIN d
      /\ \A j \in DOMAIN d : e[j] = IF j = i THEN [d[j] EXCEPT !.pos = pos] ELSE d[j]
  OBVIOUS
<1> HIDE DEF e
<1>2. \A j \in DOMAIN d : d[j] \in Fd /\ [d[j] EXCEPT !.pos = pos] \in Fd
  BY DEF Plain, Fd
<1> QED BY <1>1, <1>2 DEF Plain, e

\* A mark, of one descriptor or of all.
LEMMA StalePlain ==
  ASSUME NEW d, Plain(d), NEW i, NEW stale \in BOOLEAN
  PROVE  /\ Plain([d EXCEPT ![i].stale = stale])
         /\ Plain([j \in DOMAIN d |-> [d[j] EXCEPT !.stale = stale]])
<1> DEFINE e == [d EXCEPT ![i].stale = stale]
           u == [j \in DOMAIN d |-> [d[j] EXCEPT !.stale = stale]]
<1>1. /\ DOMAIN e = DOMAIN d /\ DOMAIN u = DOMAIN d
      /\ \A j \in DOMAIN d : /\ e[j] = IF j = i THEN [d[j] EXCEPT !.stale = stale] ELSE d[j]
                             /\ u[j] = [d[j] EXCEPT !.stale = stale]
  OBVIOUS
<1> HIDE DEF e, u
<1>2. \A j \in DOMAIN d : d[j] \in Fd /\ [d[j] EXCEPT !.stale = stale] \in Fd
  BY DEF Plain, Fd
<1> QED BY <1>1, <1>2 DEF Plain, e, u

\* The descriptors of a list that is in order, and is plain, are descriptors.
LEMMA FdsTyped ==
  ASSUME NEW f, NEW d, FdsOK(f, d), Plain(d)
  PROVE  d \in Seq(Fd)
<1>1. d \in Seq(Range(d)) /\ Range(d) \subseteq Fd
  BY DEF FdsOK, Plain, Range
<1> QED BY <1>1, SeqMonotonic

\* A file system that is intact, and descriptors.
Ready(f, d) == FsOK(f) /\ FdsOK(f, d) /\ Plain(d) /\ Intact(f, TRUE)

\* What that says of each.
LEMMA ReadyFacts ==
  ASSUME NEW f, NEW d, Ready(f, d)
  PROVE  /\ FsOK(f) /\ DOMAIN f = Fields /\ FdsOK(f, d) /\ Plain(d) /\ Intact(f, TRUE)
         /\ f.dir \in Seq(Entry) /\ DataOK(f.data)
BY DEF Ready, FsOK, Intact, Sound

\* A call that leaves the list, or a position, to be as it was.
LEMMA StillFine ==
  ASSUME NEW f, NEW d, Ready(f, d), NEW ok
  PROVE  Fine(Call(ok, f, d)) /\ Fine(Call(ok, Searched(f, d), d))
<1>1. Follows(f, f) /\ Follows(f, Searched(f, d))
  BY ReadyFacts, FollowsItself, SearchedFollows
<1>2. /\ Call(ok, f, d).fs = f /\ Call(ok, f, d).fds = d
      /\ Call(ok, Searched(f, d), d).fs = Searched(f, d)
      /\ Call(ok, Searched(f, d), d).fds = d
  BY DEF Call
<1> QED BY <1>1, <1>2, ReadyFacts, FineCall

\* Bytes from some place on, up to n of them.
LEMMA RestOK ==
  ASSUME NEW bytes \in Seq(Content), NEW pos \in Nat, NEW n \in Nat
  PROVE  SubSeq(bytes, pos + 1, Min({Len(bytes), pos + n})) \in Seq(Content)
<1>1. Len(bytes) \in Nat /\ \A j \in 1..Len(bytes) : bytes[j] \in Content
  BY LenProperties, ElementOfSeq
<1>2. PICK m : m = Min({Len(bytes), pos + n})
  OBVIOUS
<1>3. m \in Nat /\ m <= Len(bytes)
  <2>1. {Len(bytes), pos + n} \subseteq Nat
    BY <1>1
  <2> QED BY <1>2, <2>1, MinOfNaturals
<1>4. \A j \in (pos + 1)..m : bytes[j] \in Content
  BY <1>1, <1>3
<1>5. pos + 1 \in Int /\ m \in Int
  BY <1>3
<1>6. SubSeq(bytes, pos + 1, m) \in Seq(Content)
  BY ONLY <1>4, <1>5, SubSeqProperties
<1> QED BY <1>2, <1>6

\* f_read gives bytes and moves the position by their number.
LEMMA ReadFine ==
  ASSUME NEW f, NEW d, Ready(f, d), NEW id, NEW n \in Nat
  PROVE  LET c == f_read(f, d, id, n)
         IN  Fine(c) /\ (c.ok => c.bytes \in Seq(Content))
<1> DEFINE i == Node(d, id)
           bytes == readFileFromFAT(f, NameOf(f, d[i]))
           rest == SubSeq(bytes, d[i].pos + 1, Min({Len(bytes), d[i].pos + n}))
           moved == [d EXCEPT ![i].pos = @ + Len(rest)]
           c == [ok |-> TRUE, fs |-> f, fds |-> moved, bytes |-> rest]
<1>1. f_read(f, d, id, n)
        = IF i = 0 THEN Call(FALSE, Searched(f, d), d)
          ELSE IF ~Readable(f, NameOf(f, d[i])) THEN Call(FALSE, f, d) ELSE c
  BY DEF f_read
<1>2. /\ Fine(Call(FALSE, Searched(f, d), d)) /\ Fine(Call(FALSE, f, d))
      /\ ~Call(FALSE, Searched(f, d), d).ok /\ ~Call(FALSE, f, d).ok
  BY StillFine DEF Call
<1>3. ASSUME i # 0, Readable(f, NameOf(f, d[i])) PROVE Fine(c) /\ c.bytes \in Seq(Content)
  <2>1. i \in DOMAIN d /\ d[i].pos \in Nat
    BY <1>3, ReadyFacts, NodeFacts DEF Plain, Fd
  <2>2. bytes \in Seq(Content)
    BY <1>3, ReadyFacts, ReadOK
  <2> HIDE DEF bytes, i
  <2>3. rest \in Seq(Content)
    BY <2>1, <2>2, RestOK
  <2>4. PICK pos \in Nat : pos = d[i].pos + Len(rest)
    <3> HIDE DEF rest
    <3>1. Len(rest) \in Nat
      BY <2>3, LenProperties
    <3> QED BY <2>1, <3>1
  <2> HIDE DEF rest
  <2>5. moved = [d EXCEPT ![i].pos = pos]
    BY <2>4
  <2>6. Plain(moved)
    BY <2>5, PositionPlain, ReadyFacts
  <2> HIDE DEF moved
  <2>7. c.fs = f /\ c.fds = moved /\ c.bytes = rest
    OBVIOUS
  <2> HIDE DEF c
  <2> QED BY <2>3, <2>6, <2>7, ReadyFacts, FollowsItself, FineCall
<1> HIDE DEF i, c
<1> QED BY <1>1, <1>2, <1>3

\* The size of the entry a descriptor leads to is a number.
LEMMA SizeIs ==
  ASSUME NEW g, FsOK(g), Settled(g), NEW n, n.at \in Ats(g.dir)
  PROVE  g.dir[EntryOf(g, n)].size \in Nat
<1>1. EntryOf(g, n) \in DOMAIN g.dir
  BY EntryFacts
<1>2. g.dir \in Seq(Entry)
  BY DEF Settled, Sound
<1> QED BY <1>1, <1>2, Places

\* f_lseek.
LEMMA SeekFine ==
  ASSUME NEW f, NEW d, Ready(f, d), NEW id
  PROVE  Fine(f_lseek(f, d, id)) /\ f_lseek(f, d, id).fs = f /\ Plain(f_lseek(f, d, id).fds)
<1> DEFINE i == Node(d, id)
           moved == [d EXCEPT ![i].pos = f.dir[EntryOf(f, d[i])].size]
<1>1. f_lseek(f, d, id).fs = f /\ f_lseek(f, d, id).fds = moved
  BY DEF f_lseek, Call
<1>2. Plain(moved)
  <2>1. CASE i \in DOMAIN d
    <3>1. d[i].at \in Ats(f.dir)
      BY <2>1, ReadyFacts DEF FdsOK
    <3>2. EntryOf(f, d[i]) \in DOMAIN f.dir
      BY <3>1, ReadyFacts, EntryFacts
    <3>3. PICK size \in Nat : size = f.dir[EntryOf(f, d[i])].size
      BY <3>2, ReadyFacts, Places
    <3> HIDE DEF i
    <3>4. Plain([d EXCEPT ![i].pos = size])
      BY ReadyFacts, PositionPlain
    <3> QED BY <3>3, <3>4
  <2>2. CASE i \notin DOMAIN d
    <3> HIDE DEF i
    <3>1. DOMAIN moved = DOMAIN d /\ \A j \in DOMAIN d : moved[j] = d[j]
      BY <2>2
    <3> HIDE DEF moved
    <3> QED BY <3>1, ReadyFacts DEF Plain
  <2> QED BY <2>1, <2>2
<1> HIDE DEF moved
<1>3. Follows(f, f)
  BY ReadyFacts, FollowsItself
<1> QED BY <1>1, <1>2, <1>3, ReadyFacts, FineCall

\* f_write, which writes at the position of the descriptor or at the end of its file.
LEMMA WriteFine ==
  ASSUME EofIsNoBlock, NEW f, NEW d, Ready(f, d), NEW id, NEW bytes \in Seq(Content)
  PROVE  Fine(f_write(f, d, id, bytes))
<1> DEFINE i == Node(d, id)
           name == NameOf(f, d[i])
           offset == IF d[i].mode = "write" THEN d[i].pos ELSE 0
           w == writeFileToFAT(f, name, bytes, offset, d[i].mode = "append", None)
<1>1. \A ok : Fine(Call(ok, f, d)) /\ Fine(Call(ok, Searched(f, d), d))
  BY StillFine
<1>2. ASSUME i # 0 PROVE Fine(Moved(w, d, i, bytes))
  <2>1. i \in DOMAIN d /\ d[i] \in Fd /\ d[i].at \in Ats(f.dir)
    BY <1>2, ReadyFacts, NodeFacts DEF FdsOK, Plain
  <2>2. Find(f, name) # 0
    BY <2>1, ReadyFacts, EntryFacts
  <2>3. offset \in Nat /\ d[i].pos \in Nat
    BY <2>1 DEF Fd
  <2>4. PICK appending : appending = (d[i].mode = "append")
    OBVIOUS
  <2>5. PICK x : x = w
    OBVIOUS
  <2>6. x = writeFileToFAT(f, name, bytes, offset, appending, None)
    BY <2>4, <2>5
  <2> HIDE DEF i, name, offset, w
  <2>7. Kept(f, x.fs)
    BY <2>2, <2>6, ReadyFacts, ExistingKept
  <2>8. FsOK(x.fs) /\ Ats(x.fs.dir) = Ats(f.dir) /\ f.damage \subseteq x.fs.damage
    BY <2>7, ReadyFacts, KeptOK DEF Kept
  <2>9. ASSUME Harmless(x.fs), NEW k PROVE Keeps(f, x.fs, k)
    <3>1. x.fs.damage \cap Misplaced = {}
      BY <2>9 DEF Harmless
    <3>2. FsOK(f) /\ Find(f, name) # 0 /\ offset \in Nat
      BY <2>2, <2>3, ReadyFacts
    <3> QED BY <2>6, <3>1, <3>2, ExistingKeeps
  <2>10. Follows(f, x.fs)
    BY <2>8, <2>9 DEF Follows, FsOK, Harmless
  <2> DEFINE c == Moved(x, d, i, bytes)
  <2>11. c.fs = x.fs
    BY DEF Moved, Call
  <2>12. ASSUME Harmless(x.fs) PROVE Plain(c.fds)
    <3>1. CASE ~x.ok
      BY <3>1, ReadyFacts DEF Moved, Call
    <3>2. CASE x.ok
      <4>1. Settled(x.fs)
        BY <2>10, <2>12, ReadyFacts, FollowsSettled
      <4>2. x.fs.dir[EntryOf(x.fs, d[i])].size \in Nat
        BY <2>1, <2>8, <4>1, SizeIs
      <4>3. PICK pos \in Nat : pos = IF d[i].mode = "write" THEN d[i].pos + Len(bytes)
                                     ELSE x.fs.dir[EntryOf(x.fs, d[i])].size
        <5>1. Len(bytes) \in Nat
          BY LenProperties
        <5> QED BY <2>3, <4>2, <5>1
      <4>4. c.fds = [d EXCEPT ![i].pos = pos]
        BY <3>2, <4>3 DEF Moved, Call
      <4>5. Plain(d)
        BY ReadyFacts
      <4>6. Plain([d EXCEPT ![i].pos = pos])
        BY ONLY <4>5, PositionPlain
      <4> HIDE DEF c
      <4> QED BY <4>4, <4>6
    <3> QED BY <3>1, <3>2
  <2> HIDE DEF c
  <2>13. Fine(c)
    BY <2>10, <2>11, <2>12, ReadyFacts, FineCall
  <2> QED BY <2>5, <2>13 DEF c
<1>3. f_write(f, d, id, bytes)
        = IF id = Terminal.id THEN Call(TRUE, f, d)
          ELSE IF i = 0 THEN Call(FALSE, Searched(f, d), d)
          ELSE IF d[i].mode = "read" \/ (d[i].mode = "write" /\ ~Readable(f, name))
            THEN Call(FALSE, f, d)
          ELSE Moved(w, d, i, bytes)
  BY DEF f_write
<1> HIDE DEF i, w, name
<1> QED BY <1>1, <1>2, <1>3

\* f_close, which saves the directory.
LEMMA CloseFine ==
  ASSUME EofIsNoBlock, NEW f, NEW d, Ready(f, d), NEW id
  PROVE  Fine(f_close(f, d, id))
<1> DEFINE i == Node(d, id)
           u == IF i = Len(d) /\ i > 1 THEN [d EXCEPT ![i - 1].stale = TRUE] ELSE d
           v == RemoveAt(u, i)
           closed == Call(TRUE, saveFat(f), v)
<1>1. f_close(f, d, id) = IF i = 0 THEN Call(FALSE, Searched(f, d), d) ELSE closed
  BY DEF f_close
<1>2. CASE i = 0
  BY <1>1, <1>2, StillFine
<1>3. CASE i # 0
  <2>1. i \in DOMAIN d
    BY <1>3, ReadyFacts, NodeFacts
  <2> HIDE DEF i
  <2>2. SameFds(d, u)
    BY ReadyFacts, StaleSet, FdsStay
  <2>3. Plain(u)
    BY ReadyFacts, StalePlain
  <2> HIDE DEF u
  <2>4. FdsOK(f, u) /\ i \in DOMAIN u
    BY <2>1, <2>2, ReadyFacts, SameFdsOK DEF SameFds
  <2>5. u \in Seq(Fd) /\ i \in 1..Len(u)
    BY <2>3, <2>4, FdsTyped, FdsFacts
  <2>6. v \in Seq(Fd)
    BY <2>5, RemoveAtProperties
  <2> HIDE DEF v
  <2>7. Plain(v)
    <3>1. \A j \in 1..Len(v) : v[j] \in Fd
      BY <2>6, ElementOfSeq
    <3> QED BY <2>6, <3>1, LenProperties DEF Plain
  <2>8. ASSUME Harmless(saveFat(f)) PROVE Settled(saveFat(f))
    <3>1. PICK k : Sound(f, k)
      BY ReadyFacts DEF Intact
    <3>2. Keeps(f, f, k) /\ Innocent(saveFat(f))
      BY <2>8, ReadyFacts, KeepsStill DEF Harmless, Innocent
    <3> QED BY <3>1, <3>2, SaveSettled
  <2>9. closed.fs = saveFat(f) /\ closed.fds = v
    BY DEF Call
  <2> HIDE DEF closed
  <2> QED BY <1>1, <1>3, <2>7, <2>8, <2>9 DEF Fine, i
<1> QED BY <1>2, <1>3

\* rm, mv and chmod, which save the directory if they succeed.
LEMMA SavedFine ==
  ASSUME EofIsNoBlock, NEW f, NEW d, Ready(f, d), NEW r, \A k : Keeps(f, r.fs, k)
  PROVE  Fine(Saved(r, d))
<1> DEFINE c == Saved(r, d)
<1>1. PICK S : c = Call(r.ok, LET g == [r.fs EXCEPT !.damage = @ \cup S]
                              IN  IF r.ok THEN saveFat(g) ELSE g, d)
  BY DEF Saved
<1>2. PICK g : g = [r.fs EXCEPT !.damage = @ \cup S]
  OBVIOUS
<1>3. c.fds = d /\ c.fs = IF r.ok THEN saveFat(g) ELSE g
  BY <1>1, <1>2 DEF Call
<1>4. DOMAIN r.fs = Fields
  BY DEF Keeps, Grows
<1>5. ASSUME NEW k PROVE Keeps(f, g, k)
  <2>1. Keeps(r.fs, g, k)
    BY <1>2, <1>4, FlagsAdded
  <2> QED BY <2>1, KeepsOn
<1>6. Follows(f, g)
  BY <1>5 DEF Follows, Keeps, Grows, Harmless
<1> HIDE DEF c
<1>7. CASE ~r.ok
  BY <1>3, <1>6, <1>7, ReadyFacts, FineCall DEF c
<1>8. CASE r.ok
  <2>1. ASSUME Harmless(saveFat(g)) PROVE Settled(saveFat(g))
    <3>1. PICK k : Sound(f, k)
      BY ReadyFacts DEF Intact
    <3>2. Keeps(f, g, k) /\ Innocent(saveFat(g))
      BY <1>5, <2>1 DEF Harmless, Innocent
    <3> QED BY <3>1, <3>2, SaveSettled
  <2> QED BY <1>3, <1>8, <2>1, ReadyFacts DEF Fine, c
<1> QED BY <1>7, <1>8

\* The mark of a situation does no harm.
LEMMA MarkedFine ==
  ASSUME NEW c, {"fs", "fds"} \subseteq DOMAIN c, DOMAIN c.fs = Fields, Fine(c),
         NEW situation, NEW holds
  PROVE  Fine(Marked(c, situation, holds))
<1> DEFINE m == Marked(c, situation, holds)
<1>1. PICK S : S = Flag(situation, holds)
  OBVIOUS
<1>2. PICK g : g = [c.fs EXCEPT !.damage = @ \cup S]
  OBVIOUS
<1>3. m.fs = g /\ m.fds = c.fds
  BY <1>1, <1>2 DEF Marked
<1>4. /\ g.damage = c.fs.damage \cup S /\ g.disk = c.fs.disk /\ g.dir = c.fs.dir
  BY <1>2 DEF Fields
<1>5. ASSUME NEW k PROVE Sound(c.fs, k) => Sound(g, k)
  BY <1>2, FlagsAdded
<1>6. Settled(c.fs) => Settled(g)
  BY <1>4, <1>5 DEF Settled, DirectorySaved
<1> HIDE DEF m
<1> QED BY <1>3, <1>4, <1>6 DEF Fine, Harmless, m

\* A new descriptor is one.
LEMMA OpenedFine ==
  ASSUME NEW f, DOMAIN f = Fields, NEW d, FdsOK(f, d), Plain(d), NEW mode \in Mode, NEW e,
         e.at \in Addr, mode = "append" => e.size \in Nat
  PROVE  Plain(Opened(f, d, mode, e).fds) /\ Follows(f, Opened(f, d, mode, e).fs)
<1> DEFINE c == Opened(f, d, mode, e)
           u == [i \in DOMAIN d |-> [d[i] EXCEPT !.stale = FALSE]]
           n == [id |-> NextId(d), mode |-> mode, at |-> e.at, stale |-> FALSE,
                 pos |-> IF mode = "append" THEN e.size ELSE 0]
<1>1. PICK S : c.fs = [f EXCEPT !.damage = @ \cup S]
  BY DEF Opened
<1>2. Follows(f, c.fs)
  BY <1>1, FlagFollows
<1>3. NextId(d) \in Nat
  <2>1. CASE d = <<>>
    BY <2>1 DEF NextId
  <2>2. CASE d # <<>>
    <3>1. d \in Seq(Fd)
      BY FdsTyped
    <3>2. Len(d) \in 1..Len(d)
      BY <2>2, <3>1, EmptySeq, LenProperties
    <3>3. d[Len(d)] \in Fd
      BY <3>1, <3>2, ElementOfSeq
    <3>4. NextId(d) = d[Len(d)].id + 1
      BY <2>2 DEF NextId, Last
    <3> QED BY <3>3, <3>4 DEF Fd
  <2> QED BY <2>1, <2>2
<1>4. n \in Fd
  BY <1>3 DEF Fd
<1>5. c.fds = Append(u, n)
  BY DEF Opened
<1>6. u \in Seq(Fd)
  <2>1. SameFds(d, u) /\ Plain(u)
    BY StaleSet, StalePlain
  <2> HIDE DEF u
  <2> QED BY <2>1, SameFdsOK, FdsTyped
<1> HIDE DEF u, n, c
<1>7. c.fds \in Seq(Fd)
  BY <1>4, <1>5, <1>6, AppendProperties
<1>8. Plain(c.fds)
  <2>1. \A j \in 1..Len(c.fds) : c.fds[j] \in Fd
    BY <1>7, ElementOfSeq
  <2> QED BY <1>7, <2>1, LenProperties DEF Plain
<1> QED BY <1>2, <1>8 DEF c

\* f_open.
LEMMA OpenFine ==
  ASSUME EofIsNoBlock, NEW f, NEW d, Ready(f, d), NEW name \in Name, NEW mode \in Mode
  PROVE  Fine(f_open(f, d, name, mode))
<1> DEFINE g == IF mode = "read" THEN f ELSE Searched(f, d)
           k == Find(f, name)
           made == writeFileToFAT(g, name, <<>>, 0, FALSE, NewAddr(f))
           existing == Opened(g, d, mode, f.dir[k])
           missing == OpenedNew(made, d, name, mode)
           fails == Call(FALSE, f, d)
<1>1. f_open(f, d, name, mode)
        = IF mode # "read" /\ OpenForWriting(f, d, name) THEN fails
          ELSE IF k # 0 THEN existing
          ELSE IF mode = "read" THEN fails ELSE missing
  BY DEF f_open
<1>2. Fine(fails)
  BY StillFine
<1>3. FsOK(g) /\ DOMAIN g = Fields /\ g.dir = f.dir /\ FdsOK(g, d) /\ Follows(f, g)
  <2>1. FsOK(g) /\ g.dir = f.dir /\ Follows(f, g)
    BY ReadyFacts, SearchedOK, SearchedFollows, FollowsItself
  <2> HIDE DEF g
  <2> QED BY <2>1, ReadyFacts DEF FdsOK, Follows
<1> HIDE DEF g
<1>4. ASSUME k # 0 PROVE Fine(existing)
  <2>1. k \in DOMAIN f.dir
    BY <1>4, ReadyFacts, FindFacts DEF FsOK
  <2> HIDE DEF k
  <2>2. f.dir[k].at \in Addr /\ f.dir[k].size \in Nat
    BY <2>1, ReadyFacts, Places
  <2>3. PICK e : e = f.dir[k]
    OBVIOUS
  <2>4. PICK c : c = Opened(g, d, mode, e)
    OBVIOUS
  <2>5. Plain(c.fds) /\ Follows(g, c.fs)
    BY <1>3, <2>2, <2>3, <2>4, ReadyFacts, OpenedFine
  <2>6. Fine(c)
    BY <1>3, <2>5, ReadyFacts, FollowsOn, FineCall
  <2> QED BY <2>3, <2>4, <2>6
<1>5. ASSUME k = 0 PROVE Fine(missing)
  <2>1. PICK at : at = NewAddr(f)
    OBVIOUS
  <2>2. at \in Addr /\ at \notin Ats(g.dir) /\ Find(g, name) = 0
    BY <1>3, <1>5, <2>1, ReadyFacts, NewAddrFacts DEF Find
  <2>3. <<>> \in Seq(Content)
    BY EmptySeq
  <2>4. PICK bytes \in Seq(Content) : bytes = <<>>
    BY <2>3
  <2>5. PICK w : w = writeFileToFAT(g, name, bytes, 0, FALSE, at)
    OBVIOUS
  <2>6. w = made
    BY <2>1, <2>4, <2>5
  <2> HIDE DEF k, made
  <2>7. \A m : Keeps(g, w.fs, m)
    BY <1>3, <2>2, <2>5, WriteFileKeeps
  <2>8. Follows(f, w.fs) /\ DOMAIN w.fs = Fields
    <3>1. Follows(g, w.fs)
      BY <2>7 DEF Follows, Keeps, Grows, Harmless
    <3> QED BY <1>3, <3>1, FollowsOn DEF Follows
  <2>9. /\ ~w.ok => w.fs = g
        /\ w.ok => /\ FsOK(w.fs) /\ Ats(w.fs.dir) = Ats(g.dir) \cup {at}
                   /\ Find(w.fs, name) # 0
    <3>1. ASSUME NEW offset, NEW appending
          PROVE  LET r == writeFileToFAT(g, name, bytes, offset, appending, at)
                 IN  /\ ~r.ok => r.fs = g
                     /\ r.ok => /\ FsOK(r.fs) /\ Ats(r.fs.dir) = Ats(g.dir) \cup {at}
                                /\ Find(r.fs, name) # 0
      BY <1>3, <2>2, MissingCreated
    <3>2. LET r == writeFileToFAT(g, name, bytes, 0, FALSE, at)
          IN  /\ ~r.ok => r.fs = g
              /\ r.ok => /\ FsOK(r.fs) /\ Ats(r.fs.dir) = Ats(g.dir) \cup {at}
                         /\ Find(r.fs, name) # 0
      BY <3>1
    <3> QED BY <2>5, <3>2
  <2>10. CASE ~w.ok
    <3>1. missing.fs = w.fs /\ missing.fds = d
      BY <2>6, <2>10 DEF OpenedNew, Call
    <3> HIDE DEF missing
    <3> QED BY <2>8, <3>1, ReadyFacts, FineCall
  <2>11. CASE w.ok
    <3>1. PICK e : e = w.fs.dir[Find(w.fs, name)]
      OBVIOUS
    <3>2. PICK c : c = Opened(w.fs, d, mode, e)
      OBVIOUS
    <3>3. missing = c
      BY <2>6, <2>11, <3>1, <3>2 DEF OpenedNew
    <3> HIDE DEF missing
    <3>4. Find(w.fs, name) \in DOMAIN w.fs.dir
      BY <2>9, <2>11, FindFacts DEF FsOK
    <3>5. FdsOK(w.fs, d)
      BY <1>3, <2>9, <2>11, FdsStay, SameFdsOK
    <3>6. ASSUME Harmless(w.fs) PROVE Plain(c.fds) /\ Follows(w.fs, c.fs)
      <4>1. Settled(w.fs)
        BY <2>8, <3>6, ReadyFacts, FollowsSettled
      <4>2. w.fs.dir \in Seq(Entry)
        BY <4>1 DEF Settled, Sound
      <4>3. e.at \in Addr /\ e.size \in Nat
        BY <3>1, <3>4, <4>2, Places
      <4> QED BY <2>8, <3>2, <3>5, <4>3, ReadyFacts, OpenedFine
    <3>7. Harmless(c.fs) => Harmless(w.fs)
      <4>1. PICK S : c.fs = [w.fs EXCEPT !.damage = @ \cup S]
        BY <3>2 DEF Opened
      <4>2. c.fs.damage = w.fs.damage \cup S
        BY <2>8, <4>1 DEF Fields
      <4> QED BY <4>2 DEF Harmless
    <3>8. ASSUME Harmless(c.fs) PROVE Plain(c.fds) /\ Settled(c.fs)
      <4>1. Plain(c.fds) /\ Follows(f, c.fs)
        BY <2>8, <3>6, <3>7, <3>8, FollowsOn
      <4> QED BY <3>8, <4>1, ReadyFacts, FollowsSettled
    <3> QED BY <3>3, <3>8 DEF Fine
  <2> QED BY <2>10, <2>11
<1> HIDE DEF k, existing, missing, fails
<1> QED BY <1>1, <1>2, <1>4, <1>5

-----------------------------------------------------------------------------
(***************************************************************************)
(* The types, and the table of links.                                      *)
(***************************************************************************)
Shells == [at : Range(Stages), line : Lines \cup {None}, in : Held \cup {None},
           out : Held \cup {Terminal}]

\* What pennfat leaves on disk is sound.
MountedSound == Intact(Mounted, TRUE)

\* What goes with IInv to TypeOK.
TypeInv ==
  /\ Intact(fs, TRUE) /\ fs.damage \subseteq Situations
  /\ Plain(fds) /\ \A p \in Proc : prog[p] \in Program
  /\ shell \in Shells

\* What is there at the start.
LEMMA FirstTyped == NoProgram \in Program /\ Idle \in Shells /\ Plain(<<>>)
<1>1. <<>> \in Seq(Name) /\ <<>> \in Seq(Content) /\ DOMAIN <<>> = {}
  BY EmptySeq
<1>2. "prompt" \in Range(Stages)
  BY IdleFacts DEF IsShell, Idle
<1>3. NoProgram \in Program
  BY <1>1 DEF NoProgram, Program, Content
<1>4. Idle \in Shells
  BY <1>2 DEF Idle, Shells
<1> QED BY <1>1, <1>3, <1>4 DEF Plain

\* A sound table comes with what the user first mounts.
LEMMA FirstFollows ==
  ASSUME MountedSound, fs' = Mounted, fds' = <<>>, prog' = [p \in Proc |-> NoProgram],
         shell' = Idle
  PROVE  TypeInv'
BY FirstTyped, DescriptorAssumption DEF TypeInv, MountedSound

\* A step.
LEMMA CommitTyped ==
  ASSUME MountedSound, Unharmed, NEW c, Fine(c), NEW programs, NEW sh,
         c.fs.damage \subseteq Situations =>
           (\A p \in Proc : programs[p] \in Program) /\ sh \in Shells,
         Commit(c, programs, sh)
  PROVE  TypeInv'
<1>1. CASE c.fs.damage \subseteq Situations
  <2>1. /\ fs' = Settle(Unsaved(c.fs)) /\ fds' = c.fds /\ prog' = programs /\ shell' = sh
    BY <1>1 DEF Commit, Follow
  <2>2. Plain(c.fds) /\ Settled(c.fs)
    BY <1>1 DEF Fine, Harmless, Unharmed
  <2>3. "load_unsaved" \notin Situations
    BY DEF Unharmed, Forbidden
  <2>4. Intact(fs', TRUE) /\ fs'.damage = c.fs.damage
    BY <2>1, <2>2, <2>3, SettledIntact
  <2> QED BY <1>1, <2>1, <2>2, <2>4 DEF TypeInv
<1>2. CASE ~ (c.fs.damage \subseteq Situations)
  <2>1. /\ fs' = Mounted /\ fds' = <<>> /\ prog' = [p \in Proc |-> NoProgram] /\ shell' = Idle
    BY <1>2 DEF Commit, Follow, First
  <2> QED BY <2>1, FirstFollows
<1> QED BY <1>1, <1>2

\* A new start.
LEMMA RestartTyped ==
  ASSUME EofIsNoBlock, MountedSound, Unharmed, TypeInv, Restart
  PROVE  TypeInv'
<1> DEFINE f == freeFat(fs)
           g == loadFat(f)
           follows == f.damage \subseteq Situations /\ Loadable(f) /\ g.damage \subseteq Situations
<1>1. CASE follows
  <2>1. /\ fs' = Settle(g) /\ fds' = <<>> /\ prog' = [p \in Proc |-> NoProgram] /\ shell' = Idle
    BY <1>1 DEF Restart, Follow, First
  <2>2. Innocent(f) /\ Innocent(g) /\ g.damage \subseteq Situations
    BY <1>1 DEF Innocent, Unharmed
  <2>3. PICK k : Sound(fs, k) /\ DirectorySaved(fs, k)
    BY DEF TypeInv, Intact
  <2>4. Stored(f, k)
    BY <2>2, <2>3, FreeFatStored
  <2> HIDE DEF f
  <2>5. Sound(g, k) /\ DirectorySaved(g, k) /\ g.disk = f.disk /\ g.dir = f.disk
    BY <2>2, <2>4, LoadFatSound DEF Stored
  <2> HIDE DEF g
  <2>6. Intact(g, TRUE) /\ DOMAIN g = Fields
    BY <2>5 DEF Intact, Sound
  <2>7. Intact(Settle(g), TRUE) /\ Settle(g).damage = g.damage
    BY <2>6, SettleIntact, SettleIs DEF Tidied
  <2> QED BY <2>1, <2>2, <2>7, FirstTyped DEF TypeInv
<1>2. CASE ~follows
  <2>1. /\ fs' = Mounted /\ fds' = <<>> /\ prog' = [p \in Proc |-> NoProgram] /\ shell' = Idle
    BY <1>2 DEF Restart, Follow, First
  <2> QED BY <2>1, FirstFollows
<1> QED BY <1>1, <1>2

\* What the invariants say of the state.
LEMMA StateFacts ==
  ASSUME IInv, TypeInv
  PROVE  /\ Ready(fs, fds) /\ DOMAIN fs = Fields
         /\ prog = [p \in Proc |-> prog[p]] /\ \A p \in Proc : prog[p] \in Program
         /\ shell \in Shells
BY DEF IInv, Orderly, UsersOK, TypeInv, Ready, FsOK

\* A program goes on, ...
LEMMA GoesTyped ==
  ASSUME MountedSound, Unharmed, IInv, TypeInv, NEW p \in Proc, NEW c, Fine(c), NEW q,
         c.fs.damage \subseteq Situations => q \in Program, Goes(p, c, q)
  PROVE  TypeInv'
<1> DEFINE ps == [prog EXCEPT ![p] = q]
<1>1. Commit(c, ps, shell)
  BY DEF Goes
<1>2. c.fs.damage \subseteq Situations => \A o \in Proc : ps[o] \in Program
  BY StateFacts
<1> HIDE DEF ps
<1> QED BY <1>1, <1>2, StateFacts, CommitTyped

\* ... or ends.
LEMMA EndsTyped ==
  ASSUME MountedSound, Unharmed, IInv, TypeInv, NEW p \in Proc, NEW c, IsCall(c), Fine(c),
         Ends(p, c)
  PROVE  TypeInv'
<1>1. PICK holds : holds = (\E h \in {prog[p].in, prog[p].out} \ {None, Terminal, shell.in, shell.out} :
                              Node(c.fds, h.id) # 0)
  OBVIOUS
<1>2. Goes(p, Marked(c, "left_open", holds), NoProgram)
  BY <1>1 DEF Ends
<1>3. Fine(Marked(c, "left_open", holds))
  BY MarkedFine DEF IsCall, FsOK
<1> QED BY <1>2, <1>3, FirstTyped, GoesTyped

\* Calls of a program, and what they give it.
LEMMA OpenTyped ==
  ASSUME EofIsNoBlock, IInv, TypeInv, NEW name \in Name, NEW mode \in Mode
  PROVE  LET c == f_open(fs, fds, name, mode)
         IN  IsCall(c) /\ Fine(c) /\ (c.ok => c.held \in Held)
<1>1. PICK c : c = f_open(fs, fds, name, mode)
  OBVIOUS
<1>2. (c.ok => OneMore(fds, c)) /\ (~c.ok => Steady(fds, c))
  BY <1>1, OpenOK DEF IInv, Orderly
<1>3. IsCall(c) /\ (c.ok => c.held \in Numbers(c.fds))
  BY <1>2 DEF OneMore, Steady
<1>4. c.ok => c.held \in Held
  BY <1>3, NumberFound DEF IsCall
<1>5. Fine(c)
  BY <1>1, StateFacts, OpenFine
<1> QED BY <1>1, <1>3, <1>4, <1>5

\* A read gives bytes, or what was never written.
LEMMA ReadTyped ==
  ASSUME IInv, TypeInv, NEW id, NEW n \in Nat
  PROVE  LET c == f_read(fs, fds, id, n)
         IN  IsCall(c) /\ Fine(c) /\ (c.ok => c.bytes \in Seq(Content))
<1>1. IsCall(f_read(fs, fds, id, n))
  BY ReadSteady DEF IInv, Orderly, Steady
<1> QED BY <1>1, StateFacts, ReadFine

\* A write.
LEMMA WriteTyped ==
  ASSUME EofIsNoBlock, IInv, TypeInv, NEW id, NEW bytes \in Seq(Content)
  PROVE  LET c == f_write(fs, fds, id, bytes) IN IsCall(c) /\ Fine(c)
<1>1. IsCall(f_write(fs, fds, id, bytes))
  BY WriteSteady DEF IInv, Orderly, Steady
<1> QED BY <1>1, StateFacts, WriteFine

\* A close.
LEMMA CloseTyped ==
  ASSUME EofIsNoBlock, IInv, TypeInv, NEW id
  PROVE  LET c == f_close(fs, fds, id) IN IsCall(c) /\ Fine(c)
<1>1. IsCall(f_close(fs, fds, id))
  BY CloseOK DEF IInv, Orderly, Steady, OneLess
<1> QED BY <1>1, StateFacts, CloseFine

\* What the types say of a program.
LEMMA ProgramTyped ==
  ASSUME IInv, TypeInv, NEW p \in Proc
  PROVE  /\ prog[p] \in Program /\ IsProgram(prog[p]) /\ prog[p].names \in Seq(Name)
         /\ prog[p].buf \in Seq(Content)
BY ProgramFacts DEF TypeInv, Program, Content

\* cat and cp open a file to read.
LEMMA OpensSourceTyped ==
  ASSUME EofIsNoBlock, MountedSound, Unharmed, IInv, TypeInv, NEW p \in Proc, OpensSource(p)
  PROVE  TypeInv'
<1> DEFINE q == prog[p]
           c == f_open(fs, fds, Head(q.names), "read")
           r == [q EXCEPT !.in = c.held, !.at = IF q.cmd = "cat" THEN "read" ELSE "seek"]
<1>1. /\ q.cmd \in {"cat", "cp"} /\ q.at = "open"
      /\ IF ~c.ok THEN Ends(p, c) ELSE Goes(p, c, r)
  BY DEF OpensSource, At
<1>2. q \in Program /\ IsProgram(q)
  BY ProgramTyped
<1>3. Head(q.names) \in Name /\ "read" \in Mode
  BY <1>1, <1>2, HeadTailProperties DEF IsProgram, Mode
<1>4. IsCall(c) /\ Fine(c) /\ (c.ok => c.held \in Held)
  BY <1>3, OpenTyped
<1> HIDE DEF c
<1>5. c.ok => r \in Program
  BY <1>2, <1>4 DEF Program
<1> HIDE DEF r
<1> QED BY <1>1, <1>4, <1>5, GoesTyped, EndsTyped

\* touch opens, or creates, a file.
LEMMA TouchOpensTyped ==
  ASSUME EofIsNoBlock, MountedSound, Unharmed, IInv, TypeInv, NEW p \in Proc, TouchOpens(p)
  PROVE  TypeInv'
<1> DEFINE q == prog[p]
           c == f_open(fs, fds, Head(q.names), "append")
           r == [q EXCEPT !.out = c.held, !.at = "write"]
<1>1. /\ q.cmd = "touch" /\ q.at = "open"
      /\ IF c.ok THEN Goes(p, c, r) ELSE Ends(p, c)
  BY DEF TouchOpens, At
<1>2. q \in Program /\ IsProgram(q)
  BY ProgramTyped
<1>3. Head(q.names) \in Name /\ "append" \in Mode
  BY <1>1, <1>2, HeadTailProperties DEF IsProgram, Mode
<1>4. IsCall(c) /\ Fine(c) /\ (c.ok => c.held \in Held)
  BY <1>3, OpenTyped
<1> HIDE DEF c
<1>5. c.ok => r \in Program
  BY <1>2, <1>4 DEF Program
<1> HIDE DEF r
<1> QED BY <1>1, <1>4, <1>5, GoesTyped, EndsTyped

\* cp opens, or creates, the copy.
LEMMA CopyCreatesTyped ==
  ASSUME EofIsNoBlock, MountedSound, Unharmed, IInv, TypeInv, NEW p \in Proc, CopyCreates(p)
  PROVE  TypeInv'
<1> DEFINE q == prog[p]
           c == f_open(fs, fds, q.names[2], "write")
           r == [q EXCEPT !.out = c.held, !.at = "write"]
<1>1. /\ q.cmd = "cp" /\ q.at = "create"
      /\ IF c.ok THEN Goes(p, c, r) ELSE Ends(p, c)
  BY DEF CopyCreates, At
<1>2. q \in Program /\ IsProgram(q)
  BY ProgramTyped
<1>3. q.names[2] \in Name /\ "write" \in Mode
  <2>1. q.names \in Seq(Name) /\ Len(q.names) = 2
    BY <1>1, <1>2 DEF IsProgram
  <2> HIDE DEF q
  <2> QED BY <2>1, ElementOfSeq DEF Mode
<1>4. IsCall(c) /\ Fine(c) /\ (c.ok => c.held \in Held)
  BY <1>3, OpenTyped
<1> HIDE DEF c
<1>5. c.ok => r \in Program
  BY <1>2, <1>4 DEF Program
<1> HIDE DEF r
<1> QED BY <1>1, <1>4, <1>5, GoesTyped, EndsTyped

\* cat reads, ...
LEMMA CatReadsTyped ==
  ASSUME MountedSound, Unharmed, IInv, TypeInv, NEW p \in Proc, CatReads(p)
  PROVE  TypeInv'
<1> DEFINE q == prog[p]
           own == q.names # <<>>
           n == IF own THEN BufSize ELSE StdinSize
           c == f_read(fs, fds, q.in.id, n)
           r == [q EXCEPT !.at = IF c.bytes = <<>> THEN "close" ELSE "write", !.buf = c.bytes]
<1>1. IF ~c.ok \/ (c.bytes = <<>> /\ ~own) THEN Ends(p, c) ELSE Goes(p, c, r)
  BY DEF CatReads, At
<1>2. q \in Program
  BY ProgramTyped
<1>3. n \in Nat
  BY DescriptorAssumption
<1> HIDE DEF n
<1>4. IsCall(c) /\ Fine(c) /\ (c.ok => c.bytes \in Seq(Content))
  BY <1>3, ReadTyped
<1> HIDE DEF c
<1>5. c.ok => r \in Program
  BY <1>2, <1>4 DEF Program, Content
<1> HIDE DEF r
<1> QED BY <1>1, <1>4, <1>5, GoesTyped, EndsTyped

\* ... and writes what it has read.
LEMMA CatWritesTyped ==
  ASSUME EofIsNoBlock, MountedSound, Unharmed, IInv, TypeInv, NEW p \in Proc, CatWrites(p)
  PROVE  TypeInv'
<1> DEFINE q == prog[p]
           c == f_write(fs, fds, q.out.id, q.buf)
           r == [q EXCEPT !.at = "read", !.buf = <<>>]
<1>1. IF c.ok THEN Goes(p, c, r) ELSE Ends(p, c)
  BY DEF CatWrites, At
<1>2. q \in Program /\ q.buf \in Seq(Content) /\ <<>> \in Seq(Content)
  BY ProgramTyped, EmptySeq
<1>3. IsCall(c) /\ Fine(c)
  BY <1>2, WriteTyped
<1> HIDE DEF c
<1>4. r \in Program
  BY <1>2 DEF Program, Content
<1> HIDE DEF r
<1> QED BY <1>1, <1>3, <1>4, GoesTyped, EndsTyped

\* touch writes nothing.
LEMMA TouchWritesTyped ==
  ASSUME EofIsNoBlock, MountedSound, Unharmed, IInv, TypeInv, NEW p \in Proc, TouchWrites(p)
  PROVE  TypeInv'
<1> DEFINE q == prog[p]
           c == f_write(fs, fds, q.out.id, <<>>)
           r == [q EXCEPT !.at = "close"]
<1>1. IF c.ok THEN Goes(p, c, r) ELSE Ends(p, c)
  BY DEF TouchWrites, At
<1>2. q \in Program /\ <<>> \in Seq(Content)
  BY ProgramTyped, EmptySeq
<1>3. IsCall(c) /\ Fine(c)
  BY <1>2, WriteTyped
<1> HIDE DEF c
<1>4. r \in Program
  BY <1>2 DEF Program
<1> HIDE DEF r
<1> QED BY <1>1, <1>3, <1>4, GoesTyped, EndsTyped

\* cp writes its buffer.
LEMMA CopyWritesTyped ==
  ASSUME EofIsNoBlock, MountedSound, Unharmed, IInv, TypeInv, NEW p \in Proc, CopyWrites(p)
  PROVE  TypeInv'
<1> DEFINE q == prog[p]
           c == f_write(fs, fds, q.out.id, q.buf)
           r == [q EXCEPT !.at = "finish", !.buf = <<>>]
<1>1. Goes(p, c, r)
  BY DEF CopyWrites
<1>2. q \in Program /\ q.buf \in Seq(Content) /\ <<>> \in Seq(Content)
  BY ProgramTyped, EmptySeq
<1>3. IsCall(c) /\ Fine(c)
  BY <1>2, WriteTyped
<1> HIDE DEF c
<1>4. r \in Program
  BY <1>2 DEF Program, Content
<1> HIDE DEF r
<1> QED BY <1>1, <1>3, <1>4, GoesTyped

\* cat and touch close a file; the next is among the names that are left.
LEMMA ClosesOneTyped ==
  ASSUME EofIsNoBlock, MountedSound, Unharmed, IInv, TypeInv, NEW p \in Proc, ClosesOne(p)
  PROVE  TypeInv'
<1> DEFINE q == prog[p]
           own == IF q.cmd = "cat" THEN q.in ELSE q.out
           c == f_close(fs, fds, own.id)
           next == [q EXCEPT !.names = Tail(@), !.at = "open"]
           r == IF q.cmd = "cat" THEN [next EXCEPT !.in = None] ELSE [next EXCEPT !.out = Terminal]
<1>1. /\ q.cmd \in {"cat", "touch"} /\ q.at = "close"
      /\ Ends(p, c) \/ Goes(p, c, r)
  BY DEF ClosesOne, At
<1>2. q \in Program /\ IsProgram(q)
  BY ProgramTyped
<1>3. IsCall(c) /\ Fine(c)
  <2> HIDE DEF own
  <2> QED BY CloseTyped
<1> HIDE DEF c
<1>4. Tail(q.names) \in Seq(Name)
  <2>1. q.names \in Seq(Name) /\ q.names # <<>>
    BY <1>1, <1>2 DEF IsProgram
  <2> QED BY <2>1, HeadTailProperties
<1>5. next \in Program
  BY <1>2, <1>4 DEF Program
<1> HIDE DEF next
<1>6. r \in Program
  BY <1>5 DEF Program
<1> HIDE DEF r
<1> QED BY <1>1, <1>3, <1>6, GoesTyped, EndsTyped

\* cp closes its source, ...
LEMMA CopyClosesTyped ==
  ASSUME EofIsNoBlock, MountedSound, Unharmed, IInv, TypeInv, NEW p \in Proc, CopyCloses(p)
  PROVE  TypeInv'
<1> DEFINE q == prog[p]
           c == f_close(fs, fds, q.in.id)
           r == [q EXCEPT !.at = "create", !.in = None]
<1>1. Ends(p, c) \/ Goes(p, c, r)
  BY DEF CopyCloses
<1>2. q \in Program
  BY ProgramTyped
<1>3. IsCall(c) /\ Fine(c)
  BY CloseTyped
<1> HIDE DEF c
<1>4. r \in Program
  BY <1>2 DEF Program
<1> HIDE DEF r
<1> QED BY <1>1, <1>3, <1>4, GoesTyped, EndsTyped

\* ... and the copy.
LEMMA CopyFinishesTyped ==
  ASSUME EofIsNoBlock, MountedSound, Unharmed, IInv, TypeInv, NEW p \in Proc, CopyFinishes(p)
  PROVE  TypeInv'
<1> DEFINE c == f_close(fs, fds, prog[p].out.id)
<1>1. Ends(p, c)
  BY DEF CopyFinishes
<1>2. IsCall(c) /\ Fine(c)
  BY CloseTyped
<1> HIDE DEF c
<1> QED BY <1>1, <1>2, EndsTyped

\* cp has a buffer as long as the file.
LEMMA CopySeeksTyped ==
  ASSUME MountedSound, Unharmed, IInv, TypeInv, NEW p \in Proc, CopySeeks(p)
  PROVE  TypeInv'
<1> DEFINE q == prog[p]
           c == f_lseek(fs, fds, q.in.id)
           n == c.fds[Node(fds, q.in.id)].pos
           buf == [i \in 1..n |-> Junk]
           r == [q EXCEPT !.at = "read", !.buf = buf]
<1>1. q.cmd = "cp" /\ q.at = "seek" /\ Goes(p, c, r)
  BY DEF CopySeeks, At
<1>2. q \in Program /\ q.in \in Numbers(fds)
  <2>1. InOwn(q) /\ q.in \in Own(q)
    BY <1>1 DEF InOwn, Own
  <2> QED BY <2>1, ProgramTyped, ProgramFacts
<1>3. Node(fds, q.in.id) \in DOMAIN fds
  <2>1. FdsOK(fs, fds)
    BY DEF IInv, Orderly
  <2>2. Node(fds, q.in.id) # 0
    BY <1>2, <2>1, NumberFound
  <2> QED BY <2>1, <2>2, NodeFacts
<1>4. Fine(c) /\ Plain(c.fds) /\ DOMAIN c.fds = DOMAIN fds
  <2>1. Fine(c) /\ Plain(c.fds)
    BY StateFacts, SeekFine
  <2>2. DOMAIN c.fds = DOMAIN fds
    BY DEF f_lseek, Call
  <2> QED BY <2>1, <2>2
<1> HIDE DEF c
<1>5. n \in Nat
  BY <1>3, <1>4 DEF Plain, Fd
<1> HIDE DEF n
<1>6. buf \in Seq(Content)
  <2>1. buf \in [1..n -> Content]
    BY DEF Content
  <2> HIDE DEF buf
  <2> QED BY <1>5, <2>1, SeqDef
<1> HIDE DEF buf
<1>7. r \in Program
  BY <1>2, <1>6 DEF Program, Content
<1> HIDE DEF r
<1> QED BY <1>1, <1>4, <1>7, GoesTyped

\* What cp reads takes the place of the first bytes of its buffer.
LEMMA CopyReadsTyped ==
  ASSUME MountedSound, Unharmed, IInv, TypeInv, NEW p \in Proc, CopyReads(p)
  PROVE  TypeInv'
<1> DEFINE q == prog[p]
           c == f_read(fs, fds, q.in.id, Len(q.buf))
           rest == SubSeq(q.buf, Len(c.bytes) + 1, Len(q.buf))
           r == [q EXCEPT !.at = "abort", !.buf = <<>>]
           s == [q EXCEPT !.at = "close"]
           t == [q EXCEPT !.buf = c.bytes \o rest]
<1>0. PICK again : again = (\E i \in DOMAIN q.buf : q.buf[i] # Junk)
  OBVIOUS
<1>1. \/ Goes(p, c, r)
      \/ Goes(p, c, s)
      \/ c.ok /\ Goes(p, Marked(c, "read_twice", again), t)
  BY <1>0 DEF CopyReads
<1>2. q \in Program /\ q.buf \in Seq(Content) /\ <<>> \in Seq(Content)
  BY ProgramTyped, EmptySeq
<1>3. PICK l \in Nat : l = Len(q.buf)
  <2> HIDE DEF q
  <2> QED BY <1>2, LenProperties
<1>4. IsCall(c) /\ Fine(c) /\ (c.ok => c.bytes \in Seq(Content))
  BY <1>3, ReadTyped
<1> HIDE DEF c
<1>5. Fine(Marked(c, "read_twice", again))
  BY <1>4, MarkedFine DEF IsCall, FsOK
<1>6. r \in Program /\ s \in Program
  BY <1>2 DEF Program, Content
<1>7. ASSUME c.ok PROVE t \in Program
  <2>1. PICK m \in Nat : m = Len(c.bytes)
    BY <1>4, <1>7, LenProperties
  <2> HIDE DEF q
  <2>2. \A j \in (m + 1)..l : q.buf[j] \in Content
    BY <1>2, <1>3, <2>1, ElementOfSeq
  <2>3. m + 1 \in Int /\ l \in Int
    BY <1>3, <2>1
  <2>4. rest \in Seq(Content)
    <3>1. SubSeq(q.buf, m + 1, l) \in Seq(Content)
      BY ONLY <2>2, <2>3, SubSeqProperties
    <3> QED BY <1>3, <2>1, <3>1
  <2> HIDE DEF rest
  <2>5. c.bytes \o rest \in Seq(Content)
    BY <1>4, <1>7, <2>4, ConcatProperties
  <2> QED BY <1>2, <2>5 DEF Program, Content
<1> HIDE DEF r, s, t
<1> QED BY <1>1, <1>4, <1>5, <1>6, <1>7, GoesTyped

\* Every step of a program.
LEMMA StepTyped ==
  ASSUME EofIsNoBlock, MountedSound, Unharmed, IInv, TypeInv, NEW p \in Proc, Step(p)
  PROVE  TypeInv'
BY OpensSourceTyped, CatReadsTyped, CatWritesTyped, ClosesOneTyped, TouchOpensTyped,
   TouchWritesTyped, CopySeeksTyped, CopyReadsTyped, CopyClosesTyped, CopyCreatesTyped,
   CopyWritesTyped, CopyFinishesTyped DEF Step

\* The shell goes on at a stage.
LEMMA GoOnTyped ==
  ASSUME NEW s \in Shells, NEW i \in 1..6
  PROVE  GoOn(s, i) \in Shells
<1> DEFINE needed(at) ==
             CASE at = "in" -> s.line.in # None
               [] at = "out" -> s.line.out # None
               [] at = "wait" -> ~s.line.background
               [] at = "close_out" -> s.out # Terminal
               [] at = "close_in" -> s.in # None
               [] OTHER -> TRUE
           J == {j \in i..Len(Stages) : needed(Stages[j])}
           m == Min(J)
<1>1. GoOn(s, i) = IF Stages[m] = "prompt" THEN Idle ELSE [s EXCEPT !.at = Stages[m]]
  BY DEF GoOn
<1>2. needed("prompt")
  OBVIOUS
<1>3. Len(Stages) = 7 /\ Stages[7] = "prompt" /\ \A j \in 1..7 : Stages[j] \in Range(Stages)
  BY DEF Stages, Range
<1> HIDE DEF needed
<1>4. J \subseteq Nat /\ 7 \in J /\ J \subseteq 1..7
  BY <1>2, <1>3
<1>5. m \in J
  <2> HIDE DEF J
  <2> QED BY <1>4, MinOfNaturals
<1>6. Stages[m] \in Range(Stages)
  <2> HIDE DEF J, m
  <2> QED BY <1>3, <1>4, <1>5
<1> HIDE DEF m, J
<1> QED BY <1>1, <1>6, FirstTyped DEF Shells

\* The shell as it starts on a line.
LEMMA StartedTyped ==
  ASSUME IInv, TypeInv, NEW s \in Started
  PROVE  s \in Shells /\ Orderly(fs, fds, prog, s) /\ IsShell(s)
<1>1. CASE shell.at = "prompt"
  <2>1. PICK line \in Lines : s = GoOn([Idle EXCEPT !.line = line], 1)
    BY <1>1 DEF Started
  <2>2. [Idle EXCEPT !.line = line] \in Shells
    BY FirstTyped DEF Shells
  <2>3. s \in Shells
    BY <2>1, <2>2, GoOnTyped
  <2> QED BY <2>3, StartedSound, StartedFacts
<1>2. CASE shell.at # "prompt"
  BY <1>2, StartedSound, StartedFacts, StateFacts DEF Started
<1> QED BY <1>1, <1>2

\* It opens the file for the input, ...
LEMMA OpenInTyped ==
  ASSUME EofIsNoBlock, MountedSound, Unharmed, IInv, TypeInv, NEW s \in Started, OpenIn(s)
  PROVE  TypeInv'
<1> DEFINE c == f_open(fs, fds, s.line.in, "read")
           u == [s EXCEPT !.in = c.held]
           t == GoOn(u, 2)
<1>1. s.at = "in" /\ IF c.ok THEN Commit(c, prog, t) ELSE Restart
  BY DEF OpenIn
<1>2. s \in Shells /\ IsShell(s)
  BY StartedTyped
<1>3. s.line.in \in Name /\ "read" \in Mode
  BY <1>1, <1>2, LineFacts DEF IsShell, Mode
<1>4. Fine(c) /\ (c.ok => c.held \in Held)
  BY <1>3, OpenTyped
<1> HIDE DEF c
<1>5. c.ok => t \in Shells
  <2>1. c.ok => u \in Shells
    BY <1>2, <1>4 DEF Shells
  <2> HIDE DEF u
  <2> QED BY <2>1, GoOnTyped
<1> HIDE DEF t
<1> QED BY <1>1, <1>4, <1>5, StateFacts, CommitTyped, RestartTyped

\* ... and for the output.
LEMMA OpenOutTyped ==
  ASSUME EofIsNoBlock, MountedSound, Unharmed, IInv, TypeInv, NEW s \in Started, OpenOut(s)
  PROVE  TypeInv'
<1> DEFINE c == f_open(fs, fds, s.line.out, s.line.mode)
           u == [s EXCEPT !.out = c.held]
           t == GoOn(u, 3)
<1>1. s.at = "out" /\ IF c.ok THEN Commit(c, prog, t) ELSE Restart
  BY DEF OpenOut
<1>2. s \in Shells /\ IsShell(s)
  BY StartedTyped
<1>3. s.line.out \in Name /\ s.line.mode \in Mode
  <2>1. s.line \in Lines /\ s.line.out # None
    BY <1>1, <1>2 DEF IsShell
  <2>2. s.line \in Line
    BY <2>1, DescriptorAssumption
  <2> QED BY <2>1, <2>2 DEF Line, Mode
<1>4. Fine(c) /\ (c.ok => c.held \in Held)
  BY <1>3, OpenTyped
<1> HIDE DEF c
<1>5. c.ok => t \in Shells
  <2>1. c.ok => u \in Shells
    BY <1>2, <1>4 DEF Shells
  <2> HIDE DEF u
  <2> QED BY <2>1, GoOnTyped
<1> HIDE DEF t
<1> QED BY <1>1, <1>4, <1>5, StateFacts, CommitTyped, RestartTyped

\* Neither files nor descriptors change: programs and shell are what they should be.
LEMMA UsersTyped ==
  ASSUME TypeInv, fs' = fs, fds' = fds, \A p \in Proc : prog'[p] \in Program,
         shell' \in Shells
  PROVE  TypeInv'
BY DEF TypeInv

\* A process takes over the line.
LEMMA SpawnTyped ==
  ASSUME IInv, TypeInv, NEW s \in Started, Spawn(s)
  PROVE  TypeInv'
<1> DEFINE line == s.line
           free == {p \in IF line.background THEN Proc \ {fore} ELSE {fore} : prog[p] = NoProgram}
           o == CHOOSE p \in free : TRUE
           r == [cmd |-> line.cmd, names |-> line.names, in |-> s.in, out |-> s.out,
                 buf |-> <<>>, at |-> IF line.names = <<>> THEN "read" ELSE "open"]
<1>1. /\ s.at = "spawn" /\ line.cmd \in {"cat", "touch", "cp"}
      /\ fs' = fs /\ fds' = fds /\ prog' = [prog EXCEPT ![o] = r] /\ shell' = GoOn(s, 4)
  BY DEF Spawn
<1>2. s \in Shells /\ IsShell(s)
  BY StartedTyped
<1>3. line.names \in Seq(Name)
  BY <1>1, <1>2, LineFacts DEF IsShell
<1>4. s.in \in Held \cup {None} /\ s.out \in Held \cup {Terminal}
  BY <1>2 DEF Shells
<1>5. r \in Program
  <2>1. <<>> \in Seq(Byte \cup {Junk})
    BY EmptySeq
  <2> HIDE DEF line
  <2> QED BY <1>1, <1>3, <1>4, <2>1 DEF Program
<1> HIDE DEF r, o
<1>6. \A p \in Proc : prog'[p] \in Program
  BY <1>1, <1>5, StateFacts
<1>7. shell' \in Shells
  BY <1>1, <1>2, GoOnTyped
<1> QED BY <1>1, <1>6, <1>7, UsersTyped

\* A command of the shell itself, and the end of the program it has waited for.
LEMMA MovesTyped ==
  ASSUME IInv, TypeInv, Waited \/ \E s \in Started : RunBuiltin(s)
  PROVE  TypeInv'
<1>1. PICK s \in Shells : /\ shell' = GoOn(s, 5)
                          /\ fs' = fs /\ fds' = fds /\ prog' = prog
  BY StartedTyped, StateFacts DEF Waited, RunBuiltin
<1>2. shell' \in Shells
  BY <1>1, GoOnTyped
<1> QED BY <1>1, <1>2, StateFacts, UsersTyped

\* An unknown command.
LEMMA GiveUpTyped ==
  ASSUME MountedSound, Unharmed, IInv, TypeInv, NEW s \in Started, GiveUp(s)
  PROVE  TypeInv'
<1>1. PICK left : left = (s.in # None \/ s.out # Terminal)
  OBVIOUS
<1>2. PICK k : k = Call(TRUE, fs, fds)
  OBVIOUS
<1>3. Commit(Marked(k, "left_open", left), prog, Idle)
  BY <1>1, <1>2 DEF GiveUp
<1>4. Fine(k) /\ {"fs", "fds"} \subseteq DOMAIN k /\ DOMAIN k.fs = Fields
  <2>1. k.fs = fs /\ {"fs", "fds"} \subseteq DOMAIN k
    BY <1>2 DEF Call
  <2> QED BY <1>2, <2>1, StateFacts, StillFine
<1>5. Fine(Marked(k, "left_open", left))
  BY <1>4, MarkedFine
<1> QED BY <1>3, <1>5, StateFacts, FirstTyped, CommitTyped

\* The files redirected to are closed.
LEMMA CloseRedirectedTyped ==
  ASSUME EofIsNoBlock, MountedSound, Unharmed, IInv, TypeInv, NEW h, NEW t \in Shells,
         CloseRedirected(h, t)
  PROVE  TypeInv'
<1>1. PICK used : used = (\E p \in Proc : h \in {prog[p].in, prog[p].out})
  OBVIOUS
<1> DEFINE c == f_close(fs, fds, h.id)
<1>2. IF c.ok THEN Commit(Marked(c, "closed_behind", used), prog, t) ELSE Restart
  BY <1>1 DEF CloseRedirected
<1>3. IsCall(c) /\ Fine(c)
  BY CloseTyped
<1> HIDE DEF c
<1>4. Fine(Marked(c, "closed_behind", used))
  BY <1>3, MarkedFine DEF IsCall, FsOK
<1> QED BY <1>2, <1>4, StateFacts, CommitTyped, RestartTyped

\* The shell.
LEMMA ShellStepTyped ==
  ASSUME EofIsNoBlock, MountedSound, Unharmed, IInv, TypeInv, ShellStep
  PROVE  TypeInv'
<1>1. CASE CloseOut
  <2>1. [shell EXCEPT !.out = Terminal] \in Shells
    BY StateFacts DEF Shells
  <2>2. GoOn([shell EXCEPT !.out = Terminal], 6) \in Shells
    BY <2>1, GoOnTyped
  <2> QED BY <1>1, <2>2, CloseRedirectedTyped DEF CloseOut
<1>2. CASE CloseIn
  BY <1>2, FirstTyped, CloseRedirectedTyped DEF CloseIn
<1>3. CASE Waited \/ \E s \in Started : RunBuiltin(s)
  BY <1>3, MovesTyped
<1>4. ASSUME NEW s \in Started, OpenIn(s) \/ OpenOut(s) \/ Spawn(s) \/ GiveUp(s)
      PROVE  TypeInv'
  BY <1>4, OpenInTyped, OpenOutTyped, SpawnTyped, GiveUpTyped
<1> QED BY <1>1, <1>2, <1>3, <1>4 DEF ShellStep

\* rm, mv and chmod.
LEMMA SavedTyped ==
  ASSUME EofIsNoBlock, MountedSound, Unharmed, IInv, TypeInv, NEW r,
         \A k : Keeps(fs, r.fs, k), Commit(Saved(r, fds), prog, shell)
  PROVE  TypeInv'
<1>1. Fine(Saved(r, fds))
  BY StateFacts, SavedFine
<1> QED BY <1>1, StateFacts, CommitTyped

\* Every step.
LEMMA NextTyped ==
  ASSUME EofIsNoBlock, MountedSound, Unharmed, IInv, TypeInv, [Next]_vars
  PROVE  TypeInv'
<1>0. DOMAIN fs = Fields
  BY StateFacts
<1>1. CASE \E p \in Proc : Step(p)
  BY <1>1, StepTyped
<1>2. CASE ShellStep
  BY <1>2, ShellStepTyped
<1>3. ASSUME NEW name \in Name, f_unlink(name)
      PROVE  TypeInv'
  <2> DEFINE r == deleteFileFromFAT(fs, name)
  <2>1. \A k : Keeps(fs, r.fs, k)
    BY <1>0, DeleteFileKeeps
  <2>2. Commit(Saved(r, fds), prog, shell)
    BY <1>3 DEF f_unlink
  <2> HIDE DEF r
  <2> QED BY <2>1, <2>2, SavedTyped
<1>4. ASSUME NEW old \in Name, NEW new \in Name, f_mv(old, new)
      PROVE  TypeInv'
  <2> DEFINE r == renameFile(fs, old, new)
  <2>1. \A k : Keeps(fs, r.fs, k)
    BY <1>0, RenameKeeps
  <2>2. Commit(Saved(r, fds), prog, shell)
    BY <1>4 DEF f_mv
  <2> HIDE DEF r
  <2> QED BY <2>1, <2>2, SavedTyped
<1>5. ASSUME NEW g \in Granted, f_chmod(g[1], g[2])
      PROVE  TypeInv'
  <2> DEFINE r == chmodFile(fs, g[1], g[2])
  <2>1. g[2] \in Perms
    BY DescriptorAssumption
  <2>2. \A k : Keeps(fs, r.fs, k)
    BY <1>0, <2>1, ChmodKeeps
  <2>3. Commit(Saved(r, fds), prog, shell)
    BY <1>5 DEF f_chmod
  <2> HIDE DEF r
  <2> QED BY <2>2, <2>3, SavedTyped
<1>6. CASE Interrupt
  <2>1. PICK c : c = Call(TRUE, fs, fds)
    OBVIOUS
  <2>2. IsCall(c)
    BY <2>1 DEF IInv, Orderly, IsCall, Call
  <2>3. Fine(c)
    BY <2>1, StateFacts, StillFine
  <2>4. fore \in Proc /\ Ends(fore, c)
    BY <1>6, <2>1, DescriptorAssumption DEF Interrupt
  <2> QED BY <2>2, <2>3, <2>4, EndsTyped
<1>7. CASE Restart
  BY <1>7, RestartTyped
<1>8. CASE UNCHANGED vars
  BY <1>8 DEF vars, TypeInv
<1> QED BY <1>1, <1>2, <1>3, <1>4, <1>5, <1>6, <1>7, <1>8 DEF Next

\* The table stays sound from the start on.
LEMMA TypesKept ==
  ASSUME NumbersKept, EofIsNoBlock, Unharmed, MountedSound
  PROVE  Spec => [](IInv /\ TypeInv)
<1>1. Init => IInv /\ TypeInv
  <2>1. Init => IInv
    BY FirstSound, MountedOK DEF Init, First, IInv
  <2>2. Init => TypeInv
    <3> SUFFICES ASSUME Init PROVE TypeInv
      OBVIOUS
    <3>1. /\ fs = Mounted /\ fds = <<>> /\ prog = [p \in Proc |-> NoProgram] /\ shell = Idle
      BY DEF Init, First
    <3> QED BY <3>1, FirstTyped, DescriptorAssumption DEF TypeInv, MountedSound
  <2> QED BY <2>1, <2>2
<1>2. IInv /\ TypeInv /\ [Next]_vars => (IInv /\ TypeInv)'
  BY NextOK, NextTyped
<1> QED BY <1>1, <1>2, PTL DEF Spec

\* Files, descriptors, programs and shell have their types: with processes that open,
\* read, write, remove and rename in any order, and with every start from what the
\* last one has left on disk.  Of the file system that is what pennfat has left
\* there, and no situation is met in which the table is damaged.
THEOREM DescriptorsTyped ==
  ASSUME NumbersKept, EofIsNoBlock, Unharmed, MountedSound
  PROVE  Spec => []TypeOK
<1>1. IInv /\ TypeInv => TypeOK
  <2> SUFFICES ASSUME IInv, TypeInv PROVE TypeOK
    OBVIOUS
  <2>1. IsFileSystem(fs)
    BY IntactTyped DEF TypeInv
  <2>2. fds \in Seq(Fd)
    BY StateFacts, FdsTyped DEF Ready
  <2>3. prog \in [Proc -> Program]
    BY StateFacts
  <2> QED BY <2>1, <2>2, <2>3, StateFacts DEF TypeOK, Shells
<1> QED BY <1>1, TypesKept, PTL

\* While PennOS runs, each file has all its blocks, no block belongs to two, none is
\* lost, and freeBlocks promises no more free ones than there are, although processes
\* write, append and remove files in between each other's calls (file.c:302, :368).
THEOREM TableIsKept ==
  ASSUME NumbersKept, EofIsNoBlock, Unharmed, MountedSound
  PROVE  Spec => [](WholeChains(fs, fs.dir) /\ DisjointChains(fs, fs.dir)
                    /\ NothingLost(fs, fs.dir) /\ CountIsSafe(fs))
<1>1. IInv /\ TypeInv => /\ WholeChains(fs, fs.dir) /\ DisjointChains(fs, fs.dir)
                         /\ NothingLost(fs, fs.dir) /\ CountIsSafe(fs)
  <2> SUFFICES ASSUME TypeInv
               PROVE  /\ WholeChains(fs, fs.dir) /\ DisjointChains(fs, fs.dir)
                      /\ NothingLost(fs, fs.dir) /\ CountIsSafe(fs)
    OBVIOUS
  <2>1. PICK k : Sound(fs, k)
    BY DEF TypeInv, Intact
  <2> QED BY <2>1, LayoutIsWhole, SoundIsSafe DEF Sound
<1> QED BY <1>1, TypesKept, PTL

-----------------------------------------------------------------------------
(***************************************************************************)
(* Bytes in front of a position.                                           *)
(***************************************************************************)
\* The first n bytes of file i are the same in h.
FrontStays(f, h, i, n) ==
  /\ f.dir[i].size \in Nat /\ h.dir[i].size \in Nat
  /\ n <= f.dir[i].size /\ n <= h.dir[i].size
  /\ \A j \in 1..n : Bytes(h, h.dir[i])[j] = Bytes(f, f.dir[i])[j]

\* No other file has changed its entry.
OnlyEntry(f, h, i) ==
  DOMAIN h.dir = DOMAIN f.dir /\ \A j \in DOMAIN f.dir \ {i} : h.dir[j] = f.dir[j]

\* The first bytes of a file are those of its first block.
LEMMA FirstBytes ==
  ASSUME NEW f, NEW e, e.size \in Nat, e.firstBlock \in Index, NEW j \in 1..e.size, j <= BlockSize
  PROVE  Bytes(f, e)[j] = Read(f.data, <<e.firstBlock, j - 1>>)
<1>1. PICK k \in 0..(BlockSize - 1) : k = j - 1
  BY FatAssumption
<1>2. BlockSize \in Nat \ {0} /\ k \in Nat /\ k = BlockSize * 0 + k
  BY <1>1, FatAssumption, Multiples
<1>3. k \div BlockSize = 0 /\ k % BlockSize = k
  BY <1>1, <1>2, DivisionIs
<1>4. Walk(f.blocks, e.firstBlock)[0] = e.firstBlock
  BY WalkIs, FatAssumption
<1>5. Cells(f, e)[j] = <<e.firstBlock, j - 1>>
  BY <1>1, <1>3, <1>4 DEF Cells
<1> QED BY <1>5 DEF Bytes, Read

\* A file that is written from an offset on keeps what is in front of it.
LEMMA WriteAtKeepsFront ==
  ASSUME EofIsNoBlock, NEW f, NEW k, Sound(f, k), NEW i \in DOMAIN f.dir,
         NEW offset \in Nat \ {0},
         NEW bytes \in Seq(Content), WriteAt(f, i, offset, bytes).ok,
         WriteAt(f, i, offset, bytes).fs.damage \cap Misplaced = {},
         Innocent(WriteAt(f, i, offset, bytes).fs)
  PROVE  /\ FrontStays(f, WriteAt(f, i, offset, bytes).fs, i, offset)
         /\ OnlyEntry(f, WriteAt(f, i, offset, bytes).fs, i)
<1> DEFINE t == Released(f, i)
           b == WriteBehind(f, i, offset, bytes, t, FirstFree(t, 1, 0))
           total == offset + Len(bytes)
<1>0. DOMAIN f = Fields
  BY DEF Sound
<1>1. /\ ~(f.freeBlocks + Change(f, i, total) < 0) /\ ~(offset > f.dir[i].size)
      /\ WriteAt(f, i, offset, bytes).fs = b
  BY DEF WriteAt, Done, Failed
<1>2. PICK h : h = b /\ WriteAt(f, i, offset, bytes).fs = h /\ Innocent(h)
               /\ b.damage \cap Misplaced = {}
  BY <1>1
<1> HIDE DEF t, b, total
<1>3. /\ DataOK(f.data) /\ f.dir \in Seq(Entry) /\ Layout(f.blocks, f.dir, k)
      /\ f.freeBlocks \in Nat
      /\ f.freeBlocks + Lacking(f.dir, k) <= Cardinality(Free(f.blocks) \ {1})
  BY DEF Sound
<1>4. PICK e : e = f.dir[i]
  OBVIOUS
<1>5. e \in Entry /\ e.size \in Nat /\ Len(bytes) \in Nat /\ e.firstBlock \in Index
  BY <1>3, <1>4, Places, LenProperties DEF Entry
<1>6. /\ IsPlaced(f, i, offset, bytes)
      /\ e.firstBlock # 0 => \E flags : h = Placed(f, i, offset, bytes, t, flags)
  BY <1>0, <1>1, <1>2, <1>4, <1>5, PlacedIs DEF b
<1>7. f.blocks \in Links /\ k \in Nat /\ FileSound(f.blocks, e)
  BY <1>3, <1>4 DEF Layout
<1>8. PICK u : u = Cleared(f.blocks, BlocksOf(f.blocks, e)) /\ u = t
  BY <1>4, <1>7, ReleasedIs DEF t
<1>9. /\ e.size # 0 /\ offset \in 0..(BlockSize - 1) /\ bytes # <<>>
      /\ e.size < total /\ total \in Nat \ {0} /\ offset <= e.size
  BY <1>1, <1>4, <1>5, <1>6 DEF IsPlaced, total
<1>10. PICK m : m = bytesToBlocks(e.size)
  OBVIOUS
<1>11. PICK q : q = bytesToBlocks(total)
  OBVIOUS
<1>12. m \in Nat \ {0} /\ q \in Nat \ {0}
  BY <1>5, <1>9, <1>10, <1>11, BlocksPositive
<1>13. e.firstBlock \in BlocksOf(f.blocks, e) /\ BlocksOf(f.blocks, e) \subseteq Data
  <2>1. EndLinks({Eof})
    BY DEF EndLinks, EofIsNoBlock
  <2>2. IsChain(f.blocks, e.firstBlock, m, {Eof})
    BY <1>7, <1>9, <1>10 DEF FileSound
  <2>3. e.firstBlock \in Chain(f.blocks, e.firstBlock)
    BY <1>12, <2>1, <2>2, ChainFacts
  <2> QED BY <1>7, <1>9, <2>3, FileBlocks DEF BlocksOf
<1>14. e.firstBlock \in Free(u) \ {1} /\ e.firstBlock # 0
  BY <1>5, <1>8, <1>13, FatAssumption DEF Free, Cleared, Data, Index
<1>15. u \in Links /\ Cardinality(Free(u) \ {1}) = Cardinality(Free(f.blocks) \ {1}) + m
  <2>1. IsReleased(f.blocks, u, f.dir, i, k)
    BY <1>3, <1>4, <1>8, FileReleased
  <2> QED BY <1>4, <1>10, <2>1 DEF IsReleased, Layout
<1>16. Lacking(f.dir, k) \in Nat /\ Cardinality(Free(f.blocks) \ {1}) \in Nat
  BY <1>3, <1>7, LackingIs, FreeFinite
<1>17. q <= Cardinality(Free(u) \ {1})
  <2>1. Change(f, i, total) = m - q /\ f.freeBlocks + (m - q) >= 0
    BY <1>1, <1>3, <1>4, <1>10, <1>11, <1>12 DEF Change
  <2> QED BY <1>3, <1>12, <1>15, <1>16, <2>1
<1>18. PICK flags : h = Placed(f, i, offset, bytes, u, flags)
  BY <1>6, <1>8, <1>14
<1>19. PICK g : g = [f EXCEPT !.damage = @ \cup flags]
  OBVIOUS
<1>20. PICK w : w = Write(g, u, e.firstBlock, offset, bytes)
  OBVIOUS
<1>21. DOMAIN g = Fields /\ g.data = f.data /\ g.dir = f.dir
  BY <1>0, <1>19 DEF Fields
<1>22. DOMAIN w = Fields /\ w.dir = f.dir
  BY <1>20, <1>21, WriteBeside DEF Beside
<1>23. h = [w EXCEPT !.dir[i].firstBlock = e.firstBlock, !.dir[i].size = total,
                     !.freeBlocks = @ + Change(f, i, total)]
  BY <1>4, <1>18, <1>19, <1>20 DEF Placed, total
<1>24. /\ h.damage = w.damage /\ h.data = w.data
       /\ h.dir = [f.dir EXCEPT ![i] = Resized(e, total, e.firstBlock)]
  BY <1>4, <1>22, <1>23 DEF Fields, Resized
<1>25. PICK n \in Nat : n + 1 = q
  BY <1>12
<1>26. \E s : WrittenAlong(g, w, u, e.firstBlock, offset, bytes, n, s)
  <2>1. "no_room_behind" \notin w.damage
    BY <1>2, <1>24 DEF Innocent, Forbidden
  <2>2. u[e.firstBlock] \in {0, Eof} /\ e.firstBlock \in Index \ {0}
    BY <1>14 DEF Free
  <2>3. n <= Cardinality(Free(u) \ {1, e.firstBlock})
    BY <1>14, <1>15, <1>16, <1>17, <1>25, <1>12, OneTaken
  <2>4. n + 1 = bytesToBlocks(offset + Len(bytes))
    BY <1>11, <1>25 DEF total
  <2> QED BY ONLY EofIsNoBlock, <1>9, <1>15, <1>20, <1>21, <1>25, <2>1, <2>2, <2>3, <2>4,
             bytes \in Seq(Content), WriteTrail
<1>27. PICK x : x = Resized(e, total, e.firstBlock)
  OBVIOUS
<1>28. x \in Entry /\ x.size = total /\ x.firstBlock = e.firstBlock
  BY <1>5, <1>9, <1>27, ResizedIs
<1>29. h.dir[i] = x /\ DOMAIN h.dir = DOMAIN f.dir
      /\ \A j \in DOMAIN f.dir \ {i} : h.dir[j] = f.dir[j]
  BY <1>24, <1>27
<1>30. ASSUME NEW j \in 1..offset PROVE Bytes(h, x)[j] = Bytes(f, e)[j]
  <2>1. PICK o \in 0..(offset - 1) : o = j - 1
    BY <1>9
  <2>2. Read(w.data, <<e.firstBlock, o>>) = Read(g.data, <<e.firstBlock, o>>)
    BY <1>26 DEF WrittenAlong
  <2>3. j \in 1..e.size /\ j \in 1..x.size /\ j <= BlockSize
    BY <1>5, <1>9, <1>28, FatAssumption
  <2>4. Bytes(f, e)[j] = Read(f.data, <<e.firstBlock, o>>)
    BY <1>5, <2>1, <2>3, FirstBytes
  <2>5. Bytes(h, x)[j] = Read(h.data, <<e.firstBlock, o>>)
    BY <1>5, <1>9, <1>28, <2>1, <2>3, FirstBytes
  <2> QED BY <1>21, <1>24, <2>2, <2>4, <2>5
<1>31. FrontStays(f, h, i, offset)
  BY <1>4, <1>5, <1>9, <1>28, <1>29, <1>30 DEF FrontStays
<1> QED BY <1>2, <1>29, <1>31 DEF OnlyEntry

\* The same as a prefix.
LEMMA PrefixIs ==
  ASSUME NEW s \in Seq(Content), NEW t \in Seq(Content), NEW n \in Nat,
         n <= Len(s), n <= Len(t), \A j \in 1..n : t[j] = s[j]
  PROVE  IsPrefix(SubSeq(s, 1, n), t)
<1>1. /\ Len(s) \in Nat /\ DOMAIN s = 1..Len(s) /\ Len(t) \in Nat /\ DOMAIN t = 1..Len(t)
  BY LenProperties
<1>2. \A j \in 1..n : s[j] \in Content /\ t[j] \in Content
  BY <1>1, ElementOfSeq
<1>3. /\ SubSeq(s, 1, n) \in Seq(Content) /\ Len(SubSeq(s, 1, n)) = n
      /\ \A j \in 1..n : SubSeq(s, 1, n)[j] = s[j]
  BY <1>2, SubSeqProperties
<1>4. /\ SubSeq(t, 1, n) \in Seq(Content) /\ Len(SubSeq(t, 1, n)) = n
      /\ \A j \in 1..n : SubSeq(t, 1, n)[j] = t[j]
  BY <1>2, SubSeqProperties
<1>5. PICK r : r = SubSeq(s, 1, n)
  OBVIOUS
<1>6. /\ SubSeq(r, 1, n) \in Seq(Content) /\ Len(SubSeq(r, 1, n)) = n
      /\ \A j \in 1..n : SubSeq(r, 1, n)[j] = r[j]
  BY <1>2, <1>3, <1>5, SubSeqProperties
<1>7. SubSeq(r, 1, n) = SubSeq(t, 1, n)
  BY <1>3, <1>4, <1>5, <1>6, SeqEqual
<1> QED BY <1>1, <1>3, <1>5, <1>7 DEF IsPrefix

\* A file has as many bytes as its size says.
LEMMA BytesLen ==
  ASSUME NEW f, DataOK(f.data), NEW e, e.size \in Nat
  PROVE  Bytes(f, e) \in Seq(Content) /\ Len(Bytes(f, e)) = e.size
<1>1. Bytes(f, e) \in Seq(Content)
  BY BytesOK
<1>2. DOMAIN Bytes(f, e) = 1..e.size
  BY DEF Bytes
<1> QED BY <1>1, <1>2, LenProperties

\* They are a prefix of what is there then.
LEMMA FrontIsPrefix ==
  ASSUME NEW f, DataOK(f.data), NEW h, DataOK(h.data), NEW i, NEW n \in Nat, FrontStays(f, h, i, n)
  PROVE  IsPrefix(SubSeq(Bytes(f, f.dir[i]), 1, n), Bytes(h, h.dir[i]))
<1>1. PICK s : s = Bytes(f, f.dir[i])
  OBVIOUS
<1>2. PICK t : t = Bytes(h, h.dir[i])
  OBVIOUS
<1>3. s \in Seq(Content) /\ n <= Len(s) /\ t \in Seq(Content) /\ n <= Len(t)
  BY <1>1, <1>2, BytesLen DEF FrontStays
<1>4. \A j \in 1..n : t[j] = s[j]
  BY <1>1, <1>2 DEF FrontStays
<1> QED BY <1>1, <1>2, <1>3, <1>4, PrefixIs

-----------------------------------------------------------------------------
(***************************************************************************)
(* A call writes in place.                                                 *)
(***************************************************************************)
\* Size and bytes of the file of descriptor n.
Size(f, n) == f.dir[EntryOf(f, n)].size
Text(f, n) == Bytes(f, f.dir[EntryOf(f, n)])

\* In g, what descriptor n has in front of its position in f is still there.
KeepsFront(f, g, n) == IsPrefix(SubSeq(Text(f, n), 1, n.pos), Text(g, n))

\* Who appends is not behind the end of the file.
Within(f, d) == \A i \in DOMAIN d : d[i].mode = "append" => d[i].pos <= Size(f, d[i])

\* Descriptor x, in g, is what has become of one of d that keeps what is in front of
\* its position, or it has not gone on.
Right(f, d, g, x) ==
  /\ x.mode = "append" => x.pos <= Size(g, x)
  /\ \A i \in Writers(d) :
       d[i].id = x.id /\ x.pos > d[i].pos => x.at = d[i].at /\ KeepsFront(f, g, d[i])

\* A call in a situation that is followed ...
Allowed(c) == c.fs.damage \subseteq Situations

\* ... leaves all descriptors right.
InPlace(f, d, c) ==
  Allowed(c) => IsCall(c) /\ \A j \in DOMAIN c.fds : Right(f, d, c.fs, c.fds[j])

\* A file that is in both has the same size in both.
SameSizes(f, g) ==
  \A i \in DOMAIN f.dir, j \in DOMAIN g.dir :
     f.dir[i].at = g.dir[j].at => g.dir[j].size = f.dir[i].size

\* Descriptor x is as it was in d.
FromOld(d, x) ==
  \E i \in DOMAIN d : x.id = d[i].id /\ x.pos = d[i].pos /\ x.mode = d[i].mode /\ x.at = d[i].at

\* No two descriptors have the same number.
LEMMA IdsDiffer ==
  ASSUME NEW f, NEW d, FdsOK(f, d), NEW i \in DOMAIN d, NEW j \in DOMAIN d, d[i].id = d[j].id
  PROVE  i = j
BY FdsFacts DEF FdsOK, IsFd

\* A descriptor that stays, of a file that keeps its size.
LEMMA OldIsRight ==
  ASSUME NEW f, NEW d, FdsOK(f, d), Plain(d), Within(f, d), NEW g,
         NEW x, FromOld(d, x), x.mode = "append" => Size(g, x) = Size(f, x)
  PROVE  Right(f, d, g, x)
<1>1. PICK i \in DOMAIN d : /\ x.id = d[i].id /\ x.pos = d[i].pos
                           /\ x.mode = d[i].mode /\ x.at = d[i].at
  BY DEF FromOld
<1>2. ASSUME x.mode = "append" PROVE x.pos <= Size(g, x)
  <2>1. d[i].pos <= Size(f, d[i])
    BY <1>1, <1>2 DEF Within
  <2>2. Size(f, d[i]) = Size(f, x)
    BY <1>1 DEF Size, EntryOf
  <2> QED BY <1>1, <1>2, <2>1, <2>2
<1>3. ASSUME NEW j \in Writers(d), d[j].id = x.id, x.pos > d[j].pos
      PROVE  FALSE
  <2>1. j = i
    BY <1>1, <1>3, IdsDiffer DEF Writers
  <2>2. d[i].pos \in Nat
    BY DEF Plain, Fd
  <2> QED BY <1>1, <1>3, <2>1, <2>2
<1> QED BY <1>2, <1>3 DEF Right

\* A file that is in both keeps its size.
LEMMA SizeStays ==
  ASSUME NEW f, FsOK(f), NEW g, FsOK(g), SameSizes(f, g),
         NEW x, x.at \in Ats(f.dir), x.at \in Ats(g.dir)
  PROVE  Size(g, x) = Size(f, x)
BY EntryFacts DEF SameSizes, Size

\* A call after which all descriptors are as before, and all sizes.
LEMMA StillInPlace ==
  ASSUME NEW f, NEW d, Ready(f, d), Within(f, d), NEW c,
         Allowed(c) => /\ IsCall(c) /\ SameSizes(f, c.fs)
                       /\ \A j \in DOMAIN c.fds : FromOld(d, c.fds[j])
  PROVE  InPlace(f, d, c)
<1> SUFFICES ASSUME Allowed(c), NEW j \in DOMAIN c.fds
             PROVE  Right(f, d, c.fs, c.fds[j])
  BY DEF InPlace
<1>1. FsOK(c.fs) /\ c.fds[j].at \in Ats(c.fs.dir) /\ FromOld(d, c.fds[j])
  BY DEF IsCall, FdsOK
<1>2. c.fds[j].at \in Ats(f.dir)
  BY <1>1 DEF FromOld, Ready, FdsOK
<1>3. Size(c.fs, c.fds[j]) = Size(f, c.fds[j])
  BY <1>1, <1>2, SizeStays DEF Ready
<1> QED BY <1>1, <1>3, OldIsRight DEF Ready

\* The same directory.
LEMMA SameDirSizes ==
  ASSUME NEW f, FsOK(f), NEW g, g.dir = f.dir
  PROVE  SameSizes(f, g)
BY DEF FsOK, DirOK, SameSizes

\* A descriptor of d, as it is.
LEMMA OldStays ==
  ASSUME NEW d, NEW i \in DOMAIN d
  PROVE  FromOld(d, d[i])
BY DEF FromOld

\* What WritesInPlace says of a step, and what the next one needs.
StepInPlace(f, d, g, e) ==
  /\ Within(g, e)
  /\ \A i \in Writers(d) :
       Node(e, d[i].id) # 0 /\ e[Node(e, d[i].id)].pos > d[i].pos => KeepsFront(f, g, d[i])

\* A step that closes all.
LEMMA NothingOpen ==
  ASSUME NEW f, NEW d, NEW g
  PROVE  StepInPlace(f, d, g, <<>>)
<1>1. DOMAIN <<>> = {}
  OBVIOUS
<1>2. \A id : Node(<<>>, id) = 0
  BY <1>1 DEF Node, FirstOf
<1> QED BY <1>1, <1>2 DEF StepInPlace, Within

\* To settle changes no byte of a file.
LEMMA SettledText ==
  ASSUME NEW f, FsOK(f), Settled(f), NEW n, n.at \in Ats(f.dir)
  PROVE  /\ Size(Settle(Unsaved(f)), n) = Size(f, n)
         /\ Text(Settle(Unsaved(f)), n) = Text(f, n)
<1>1. PICK u : u = Unsaved(f)
  OBVIOUS
<1>2. DOMAIN u = Fields /\ u.dir = f.dir /\ u.blocks = f.blocks /\ u.data = f.data
  BY <1>1 DEF FsOK, Fields, Unsaved
<1>3. f.dir \in Seq(Entry)
  BY DEF Settled, Sound
<1>4. \A i \in DOMAIN u.dir : u.dir[i].size \in Nat
  BY <1>2, <1>3, Places
<1>5. PICK h : h = Settle(u)
  OBVIOUS
<1>6. Preserves(u, u.dir, h) /\ h.dir = f.dir
  BY <1>1, <1>2, <1>4, <1>5, SettlePreserves, SettledOK
<1>7. PICK i \in DOMAIN f.dir : i = EntryOf(f, n)
  BY EntryFacts
<1>8. EntryOf(h, n) = i
  BY <1>6, <1>7 DEF EntryOf
<1>9. Bytes(h, f.dir[i]) = Bytes(u, f.dir[i])
  BY <1>2, <1>6 DEF Preserves
<1>10. Bytes(u, f.dir[i]) = Bytes(f, f.dir[i])
  BY <1>2, SameBytes DEF Preserves
<1> QED BY <1>1, <1>5, <1>6, <1>7, <1>8, <1>9, <1>10 DEF Size, Text

\* The end of a call.
LEMMA CommitInPlace ==
  ASSUME Unharmed, NEW c, Fine(c), InPlace(fs, fds, c), NEW programs, NEW sh,
         Commit(c, programs, sh)
  PROVE  StepInPlace(fs, fds, fs', fds')
<1>1. CASE Allowed(c)
  <2>1. /\ fs' = Settle(Unsaved(c.fs)) /\ fds' = c.fds
    BY <1>1 DEF Commit, Follow, Allowed
  <2>2. PICK f, d : f = c.fs /\ d = c.fds
    OBVIOUS
  <2>3. FsOK(f) /\ FdsOK(f, d) /\ Settled(f)
    BY <1>1, <2>2 DEF InPlace, IsCall, Fine, Harmless, Unharmed, Allowed
  <2>4. \A j \in DOMAIN d : Right(fs, fds, f, d[j])
    BY <1>1, <2>2 DEF InPlace
  <2>5. PICK g : g = Settle(Unsaved(f))
    OBVIOUS
  <2>6. \A j \in DOMAIN d : Size(g, d[j]) = Size(f, d[j]) /\ Text(g, d[j]) = Text(f, d[j])
    BY <2>3, <2>5, SettledText DEF FdsOK
  <2>7. Within(g, d)
    BY <2>4, <2>6 DEF Within, Right
  <2>8. ASSUME NEW i \in Writers(fds), Node(d, fds[i].id) # 0,
               d[Node(d, fds[i].id)].pos > fds[i].pos
        PROVE  KeepsFront(fs, g, fds[i])
    <3>1. PICK j \in DOMAIN d : j = Node(d, fds[i].id) /\ d[j].id = fds[i].id
      BY <2>3, <2>8, NodeFacts
    <3>2. d[j].at = fds[i].at /\ KeepsFront(fs, f, fds[i])
      BY <2>4, <2>8, <3>1 DEF Right
    <3>3. d[j].at \in Ats(f.dir)
      BY <2>3 DEF FdsOK
    <3>4. Text(g, fds[i]) = Text(f, fds[i])
      BY <2>3, <2>5, <3>2, <3>3, SettledText
    <3> QED BY <3>2, <3>4 DEF KeepsFront
  <2> QED BY <2>1, <2>2, <2>5, <2>7, <2>8 DEF StepInPlace
<1>2. CASE ~Allowed(c)
  <2>1. fds' = <<>>
    BY <1>2 DEF Commit, Follow, First, Allowed
  <2> QED BY <2>1, NothingOpen
<1> QED BY <1>1, <1>2

\* A situation that is added.
LEMMA MarkedInPlace ==
  ASSUME NEW f, NEW d, NEW c, {"fs", "fds"} \subseteq DOMAIN c, DOMAIN c.fs = Fields,
         InPlace(f, d, c), NEW situation, NEW holds
  PROVE  InPlace(f, d, Marked(c, situation, holds))
<1>1. PICK m : m = Marked(c, situation, holds)
  OBVIOUS
<1>2. PICK S : S = Flag(situation, holds)
  OBVIOUS
<1>3. m.fds = c.fds /\ m.fs = [c.fs EXCEPT !.damage = @ \cup S] /\ DOMAIN m = DOMAIN c
  BY <1>1, <1>2 DEF Marked
<1>4. m.fs.damage = c.fs.damage \cup S /\ m.fs.dir = c.fs.dir /\ DOMAIN m.fs = Fields
      /\ m.fs.blocks = c.fs.blocks /\ m.fs.data = c.fs.data /\ m.fs.disk = c.fs.disk
  BY <1>3 DEF Fields
<1>5. SUFFICES ASSUME Allowed(m)
               PROVE  IsCall(m) /\ \A j \in DOMAIN m.fds : Right(f, d, m.fs, m.fds[j])
  BY <1>1 DEF InPlace
<1>6. Allowed(c)
  BY <1>4, <1>5 DEF Allowed
<1>7. IsCall(c) /\ \A j \in DOMAIN c.fds : Right(f, d, c.fs, c.fds[j])
  BY <1>6 DEF InPlace
<1>8. IsCall(m)
  BY <1>1, <1>7, MarkedOK
<1>9. \A n : Size(m.fs, n) = Size(c.fs, n) /\ Text(m.fs, n) = Text(c.fs, n)
  BY <1>4 DEF Size, Text, EntryOf, Bytes, Cells
<1>10. ASSUME NEW j \in DOMAIN m.fds PROVE Right(f, d, m.fs, m.fds[j])
  <2>1. PICK x : x = m.fds[j] /\ Right(f, d, c.fs, x)
    BY <1>3, <1>7
  <2>2. x.mode = "append" => x.pos <= Size(m.fs, x)
    BY <1>9, <2>1 DEF Right
  <2>3. ASSUME NEW i \in Writers(d), d[i].id = x.id, x.pos > d[i].pos
        PROVE  x.at = d[i].at /\ KeepsFront(f, m.fs, d[i])
    <3>1. x.at = d[i].at /\ KeepsFront(f, c.fs, d[i])
      BY <2>1, <2>3 DEF Right
    <3> QED BY <1>9, <3>1 DEF KeepsFront
  <2>4. Right(f, d, m.fs, x)
    BY <2>2, <2>3 DEF Right
  <2> QED BY <2>1, <2>4
<1> QED BY <1>8, <1>10

\* A call that changes nothing but what it has met.
LEMMA UntouchedInPlace ==
  ASSUME NEW f, NEW d, Ready(f, d), Within(f, d), NEW ok
  PROVE  InPlace(f, d, Call(ok, f, d)) /\ InPlace(f, d, Call(ok, Searched(f, d), d))
<1>1. ASSUME NEW g, FsOK(g), g.dir = f.dir, NEW c, c = Call(ok, g, d)
      PROVE  InPlace(f, d, c)
  <2>1. c.fs = g /\ c.fds = d /\ {"fs", "fds"} \subseteq DOMAIN c
    BY <1>1 DEF Call
  <2>2. IsCall(c)
    BY <1>1, <2>1 DEF IsCall, Ready, FdsOK
  <2>3. SameSizes(f, g)
    BY <1>1, SameDirSizes DEF Ready
  <2> QED BY <2>1, <2>2, <2>3, StillInPlace, OldStays
<1>2. FsOK(f) /\ FsOK(Searched(f, d)) /\ Searched(f, d).dir = f.dir
  BY SearchedOK DEF Ready
<1> QED BY <1>1, <1>2

\* The position of one descriptor is set, after what the call has done to its file.
LEMMA PositionInPlace ==
  ASSUME NEW f, NEW d, Ready(f, d), Within(f, d), NEW g, NEW i \in DOMAIN d, NEW pos \in Nat,
         d[i].mode = "append" => pos <= Size(g, d[i]),
         i \in Writers(d) /\ pos > d[i].pos => KeepsFront(f, g, d[i]),
         \A j \in Writers(d) \ {i} : Size(g, d[j]) = Size(f, d[j]),
         NEW e, e = [d EXCEPT ![i].pos = pos], NEW j \in DOMAIN e
  PROVE  Right(f, d, g, e[j])
<1>1. FdsOK(f, d) /\ Plain(d)
  BY DEF Ready
<1>2. CASE j # i
  <2>1. e[j] = d[j] /\ j \in DOMAIN d
    BY <1>2
  <2>2. d[j].mode = "append" => Size(g, d[j]) = Size(f, d[j])
    BY <1>2, <2>1 DEF Writers
  <2> QED BY <1>1, <2>1, <2>2, OldIsRight, OldStays
<1>3. CASE j = i
  <2>1. PICK x : x = e[i]
    OBVIOUS
  <2>2. d[i] \in Fd
    BY <1>1 DEF Plain
  <2>3. x.pos = pos /\ x.mode = d[i].mode /\ x.at = d[i].at /\ x.id = d[i].id
    BY <2>1, <2>2 DEF Fd
  <2>4. Size(g, x) = Size(g, d[i])
    BY <2>3 DEF Size, EntryOf
  <2>5. ASSUME NEW m \in Writers(d), d[m].id = x.id, x.pos > d[m].pos
        PROVE  x.at = d[m].at /\ KeepsFront(f, g, d[m])
    <3>1. m = i
      BY <1>1, <2>3, <2>5, IdsDiffer DEF Writers
    <3> QED BY <2>3, <2>5, <3>1
  <2> QED BY <1>3, <2>1, <2>3, <2>4, <2>5 DEF Right
<1> QED BY <1>2, <1>3

\* A file that is not written keeps what is in front of a position within it.
LEMMA FrontOfItself ==
  ASSUME NEW f, NEW d, Ready(f, d), NEW i \in DOMAIN d
  PROVE  /\ d[i].pos \in Nat /\ Size(f, d[i]) \in Nat
         /\ Text(f, d[i]) \in Seq(Content) /\ Len(Text(f, d[i])) = Size(f, d[i])
         /\ d[i].pos <= Size(f, d[i]) => KeepsFront(f, f, d[i])
<1>1. d[i].pos \in Nat /\ d[i].at \in Ats(f.dir)
  BY DEF Ready, Plain, Fd, FdsOK
<1>2. PICK e \in DOMAIN f.dir : e = EntryOf(f, d[i])
  BY <1>1, ReadyFacts, EntryFacts
<1>3. f.dir[e].size \in Nat /\ DataOK(f.data)
  BY ReadyFacts, Places
<1>4. Bytes(f, f.dir[e]) \in Seq(Content) /\ Len(Bytes(f, f.dir[e])) = f.dir[e].size
  BY <1>3, BytesLen
<1>5. d[i].pos <= f.dir[e].size =>
        IsPrefix(SubSeq(Bytes(f, f.dir[e]), 1, d[i].pos), Bytes(f, f.dir[e]))
  BY <1>1, <1>4, PrefixIs
<1> QED BY <1>1, <1>2, <1>3, <1>4, <1>5 DEF Size, Text, KeepsFront

\* What is read of n bytes from a position on lies in the file.
LEMMA RestWithin ==
  ASSUME NEW bytes \in Seq(Content), NEW pos \in Nat, NEW n \in Nat,
         NEW rest, rest = SubSeq(bytes, pos + 1, Min({Len(bytes), pos + n}))
  PROVE  /\ Len(rest) \in Nat
         /\ Len(rest) # 0 => pos < Len(bytes) /\ pos + Len(rest) <= Len(bytes)
<1>1. PICK L \in Nat : L = Len(bytes)
  BY LenProperties
<1>2. PICK m \in Nat : m = Min({L, pos + n}) /\ m <= L
  <2>1. PICK T : T = {L, pos + n}
    OBVIOUS
  <2>2. L \in T /\ T \subseteq Nat
    BY <2>1
  <2>3. Min(T) \in T /\ Min(T) <= L
    BY <2>2, MinOfNaturals
  <2> QED BY <2>1, <2>2, <2>3
<1>3. \A j \in (pos + 1)..m : bytes[j] \in Content
  BY <1>1, <1>2, ElementOfSeq
<1>4. Len(SubSeq(bytes, pos + 1, m)) = IF pos + 1 <= m THEN m - (pos + 1) + 1 ELSE 0
  BY <1>3, SubSeqProperties
<1> QED BY <1>1, <1>2, <1>4

\* f_read goes on within the file.
LEMMA ReadInPlace ==
  ASSUME NEW f, NEW d, Ready(f, d), Within(f, d), NEW id, NEW n \in Nat
  PROVE  InPlace(f, d, f_read(f, d, id, n))
<1> DEFINE i == Node(d, id)
           bytes == readFileFromFAT(f, NameOf(f, d[i]))
           rest == SubSeq(bytes, d[i].pos + 1, Min({Len(bytes), d[i].pos + n}))
           moved == [d EXCEPT ![i].pos = @ + Len(rest)]
           c == [ok |-> TRUE, fs |-> f, fds |-> moved, bytes |-> rest]
<1>1. f_read(f, d, id, n)
        = IF i = 0 THEN Call(FALSE, Searched(f, d), d)
          ELSE IF ~Readable(f, NameOf(f, d[i])) THEN Call(FALSE, f, d) ELSE c
  BY DEF f_read
<1>2. InPlace(f, d, Call(FALSE, Searched(f, d), d)) /\ InPlace(f, d, Call(FALSE, f, d))
  BY UntouchedInPlace
<1>3. ASSUME i # 0, Readable(f, NameOf(f, d[i])), IsCall(c) PROVE InPlace(f, d, c)
  <2>1. i \in DOMAIN d /\ d[i].at \in Ats(f.dir)
    BY <1>3, ReadyFacts, NodeFacts DEF FdsOK
  <2>2. Find(f, NameOf(f, d[i])) = EntryOf(f, d[i])
    BY <2>1, ReadyFacts, EntryFacts
  <2>3. bytes = Text(f, d[i])
    BY <2>2 DEF readFileFromFAT, Text
  <2> HIDE DEF bytes, i
  <2>4. PICK pos \in Nat, size \in Nat :
          /\ pos = d[i].pos /\ size = Size(f, d[i]) /\ bytes \in Seq(Content) /\ Len(bytes) = size
          /\ pos <= size => KeepsFront(f, f, d[i])
    BY <2>1, <2>3, FrontOfItself
  <2>5. PICK r : r = rest
    OBVIOUS
  <2>6. Len(r) \in Nat /\ (Len(r) # 0 => pos < size /\ pos + Len(r) <= size)
    BY <2>4, <2>5, RestWithin
  <2> HIDE DEF rest
  <2>7. PICK new \in Nat : new = pos + Len(r)
    BY <2>6
  <2>8. moved = [d EXCEPT ![i].pos = new]
    BY <2>4, <2>5, <2>7
  <2>9. c.fs = f /\ c.fds = moved
    OBVIOUS
  <2> HIDE DEF c, moved
  <2>10. d[i].mode = "append" => new <= size
    BY <2>1, <2>4, <2>6, <2>7 DEF Within
  <2>11. i \in Writers(d) /\ new > d[i].pos => KeepsFront(f, f, d[i])
    BY <2>4, <2>6, <2>7
  <2>12. \A j \in DOMAIN moved : Right(f, d, f, moved[j])
    BY <2>1, <2>4, <2>8, <2>10, <2>11, PositionInPlace
  <2> QED BY <1>3, <2>9, <2>12 DEF InPlace
<1>4. IsCall(f_read(f, d, id, n))
  BY ReadyFacts, ReadSteady DEF Steady
<1> HIDE DEF i, c
<1> QED BY <1>1, <1>2, <1>3, <1>4

\* f_lseek goes to its end.
LEMMA SeekInPlace ==
  ASSUME NEW f, NEW d, Ready(f, d), Within(f, d), NEW id
  PROVE  InPlace(f, d, f_lseek(f, d, id))
<1>1. PICK i, c : i = Node(d, id) /\ c = f_lseek(f, d, id)
  OBVIOUS
<1>2. c.fs = f /\ c.fds = [d EXCEPT ![i].pos = Size(f, d[i])] /\ IsCall(c)
  BY <1>1, ReadyFacts, SeekSteady DEF f_lseek, Call, Size, Steady
<1>3. CASE i \in DOMAIN d
  <2>1. PICK pos \in Nat : /\ pos = Size(f, d[i]) /\ d[i].pos \in Nat
                           /\ d[i].pos <= pos => KeepsFront(f, f, d[i])
    BY <1>3, FrontOfItself
  <2>2. pos > d[i].pos => KeepsFront(f, f, d[i])
    BY <2>1
  <2>3. c.fds = [d EXCEPT ![i].pos = pos]
    BY <1>2, <2>1
  <2>4. \A j \in DOMAIN c.fds : Right(f, d, f, c.fds[j])
    BY <1>3, <2>1, <2>2, <2>3, PositionInPlace
  <2>5. InPlace(f, d, c)
    BY <1>2, <2>4 DEF InPlace
  <2> QED BY <1>1, <2>5
<1>4. CASE i \notin DOMAIN d
  <2>1. DOMAIN c.fds = DOMAIN d /\ \A j \in DOMAIN d : c.fds[j] = d[j]
    BY <1>2, <1>4
  <2>2. \A j \in DOMAIN c.fds : FromOld(d, c.fds[j])
    BY <2>1, OldStays
  <2>3. SameSizes(f, c.fs)
    BY <1>2, ReadyFacts, SameDirSizes
  <2>4. InPlace(f, d, c)
    BY <1>2, <2>2, <2>3, StillInPlace
  <2> QED BY <1>1, <2>4
<1> QED BY <1>3, <1>4

\* A file that now holds B.
LEMMA RewritesFront ==
  ASSUME NEW f, NEW k, Sound(f, k), NEW h, DataOK(h.data), NEW i, NEW B \in Seq(Content),
         Rewrites(f, h, i, B), NEW n \in Nat, n <= f.dir[i].size, n <= Len(B),
         \A j \in 1..n : B[j] = Bytes(f, f.dir[i])[j]
  PROVE  FrontStays(f, h, i, n) /\ OnlyEntry(f, h, i)
<1>1. PICK e \in Entry : h.dir = [f.dir EXCEPT ![i] = e] /\ Bytes(h, e) = B
  BY DEF Rewrites
<1>2. i \in DOMAIN f.dir /\ f.dir[i].size \in Nat /\ e.size \in Nat
  BY Places DEF Rewrites, Sound, Entry
<1>3. e.size = Len(B)
  BY <1>1, <1>2, BytesLen
<1>4. h.dir[i] = e /\ DOMAIN h.dir = DOMAIN f.dir
      /\ \A j \in DOMAIN f.dir \ {i} : h.dir[j] = f.dir[j]
  BY <1>1, <1>2
<1> QED BY <1>1, <1>2, <1>3, <1>4 DEF FrontStays, OnlyEntry

\* Appending keeps all of the file, writing from an offset on what is in front of it.
FrontKept(f, h, i, offset, appending) ==
  /\ appending => FrontStays(f, h, i, f.dir[i].size)
  /\ ~appending => FrontStays(f, h, i, offset)
  /\ OnlyEntry(f, h, i)

\* So does a write of a file that is there.
LEMMA ExistingFront ==
  ASSUME EofIsNoBlock, NEW f, FsOK(f), NEW k, Sound(f, k), NEW name,
         NEW i, i = Find(f, name), i # 0,
         NEW bytes \in Seq(Content), NEW offset \in Nat, NEW appending, NEW at,
         NEW w, w = writeFileToFAT(f, name, bytes, offset, appending, at), w.ok,
         w.fs.damage \cap Misplaced = {}, Innocent(w.fs)
  PROVE  FrontKept(f, w.fs, i, offset, appending)
<1>1. i \in DOMAIN f.dir /\ f.dir[i].size \in Nat /\ DataOK(f.data)
  BY FoundPlace, Places DEF Sound
<1>2. DataOK(w.fs.data)
  BY ExistingKeeps DEF Keeps, Sound
<1>3. PICK old : old = Bytes(f, f.dir[i])
  OBVIOUS
<1>4. old \in Seq(Content) /\ Len(old) = f.dir[i].size
  BY <1>1, <1>3, BytesLen
<1>5. ~Failed(f).ok
  BY DEF Failed
<1>6. CASE appending
  <2>1. w = AppendTo(f, i, bytes)
    BY <1>5, <1>6 DEF writeFileToFAT
  <2>2. Rewrites(f, w.fs, i, old \o bytes)
    BY <1>1, <1>3, <2>1, AppendRewrites
  <2>4. Len(bytes) \in Nat /\ Len(old) \in Nat
    BY <1>4, LenProperties
  <2>3. /\ old \o bytes \in Seq(Content) /\ Len(old \o bytes) = Len(old) + Len(bytes)
        /\ \A j \in 1..Len(old) : (old \o bytes)[j] = old[j]
    <3>0. old \in Seq(Content) /\ bytes \in Seq(Content)
      BY <1>4
    <3>1. /\ old \o bytes \in Seq(Content) /\ Len(old \o bytes) = Len(old) + Len(bytes)
          /\ \A j \in 1..(Len(old) + Len(bytes)) :
               (old \o bytes)[j] = IF j <= Len(old) THEN old[j] ELSE bytes[j - Len(old)]
      BY ONLY <3>0, ConcatProperties
    <3> QED BY <2>4, <3>1
  <2>5. FrontStays(f, w.fs, i, f.dir[i].size) /\ OnlyEntry(f, w.fs, i)
    <3>1. PICK B : B = old \o bytes
      OBVIOUS
    <3>2. /\ B \in Seq(Content) /\ Rewrites(f, w.fs, i, B)
          /\ f.dir[i].size <= Len(B) /\ \A j \in 1..f.dir[i].size : B[j] = Bytes(f, f.dir[i])[j]
      BY <1>1, <1>3, <1>4, <2>2, <2>3, <2>4, <3>1
    <3> QED BY <1>1, <1>2, <3>2, RewritesFront
  <2> QED BY <1>6, <2>5 DEF FrontKept
<1>7. CASE ~appending /\ offset > 0
  <2>1. w = WriteAt(f, i, offset, bytes)
    BY <1>5, <1>7 DEF writeFileToFAT
  <2>2. FrontStays(f, w.fs, i, offset) /\ OnlyEntry(f, w.fs, i)
    BY <1>1, <1>7, <2>1, WriteAtKeepsFront
  <2> QED BY <1>7, <2>2 DEF FrontKept
<1>8. CASE ~appending /\ ~(offset > 0)
  <2>1. w = Overwrite(f, i, bytes) /\ offset = 0
    BY <1>5, <1>8 DEF writeFileToFAT
  <2>2. Rewrites(f, w.fs, i, bytes)
    BY <1>1, <2>1, OverwriteRewrites
  <2>3. FrontStays(f, w.fs, i, 0) /\ OnlyEntry(f, w.fs, i)
    <3>1. \A j \in 1..0 : bytes[j] = Bytes(f, f.dir[i])[j]
      OBVIOUS
    <3>2. Len(bytes) \in Nat
      BY LenProperties
    <3> QED BY <1>1, <1>2, <2>2, <3>1, <3>2, RewritesFront
  <2> QED BY <1>8, <2>1, <2>3 DEF FrontKept
<1> QED BY <1>6, <1>7, <1>8

\* A call of writeFileToFAT that fails.
LEMMA FailsUntouched ==
  ASSUME NEW f, DOMAIN f = Fields, NEW name, Find(f, name) # 0,
         NEW bytes, NEW offset, NEW appending, NEW at,
         NEW w, w = writeFileToFAT(f, name, bytes, offset, appending, at), ~w.ok
  PROVE  w.fs = f \/ "offset_past_end" \in w.fs.damage
<1>1. PICK i : i = Find(f, name) /\ i # 0
  OBVIOUS
<1>2. \/ w = Failed(f) \/ w = AppendTo(f, i, bytes) \/ w = WriteAt(f, i, offset, bytes)
      \/ w = Overwrite(f, i, bytes)
  BY <1>1 DEF writeFileToFAT
<1>3. Failed(f).fs = f
  BY DEF Failed
<1>4. CASE w = AppendTo(f, i, bytes)
  BY <1>3, <1>4 DEF AppendTo, Done
<1>5. CASE w = Overwrite(f, i, bytes)
  BY <1>3, <1>5 DEF Overwrite, Done
<1>6. CASE w = WriteAt(f, i, offset, bytes)
  <2>1. \/ w = Failed(f)
        \/ w = Failed([f EXCEPT !.blocks = Released(f, i), !.damage = @ \cup {"offset_past_end"}])
    BY <1>6 DEF WriteAt, Done
  <2>2. PICK t : t = Released(f, i)
    OBVIOUS
  <2>3. PICK g : g = [f EXCEPT !.blocks = t, !.damage = @ \cup {"offset_past_end"}]
    OBVIOUS
  <2>4. g.damage = f.damage \cup {"offset_past_end"}
    BY <2>3 DEF Fields
  <2>5. Failed(g).fs = g
    BY DEF Failed
  <2> QED BY <1>3, <2>1, <2>2, <2>3, <2>4, <2>5
<1> QED BY <1>2, <1>3, <1>4, <1>5, <1>6

\* An entry that keeps its address keeps its place.
LEMMA SamePlaceOf ==
  ASSUME NEW f, FsOK(f), NEW h, FsOK(h), SameEntries(f.dir, h.dir), NEW x, x.at \in Ats(f.dir)
  PROVE  EntryOf(h, x) = EntryOf(f, x) /\ EntryOf(f, x) \in DOMAIN f.dir
<1>1. x.at \in Ats(h.dir)
  BY DEF SameEntries, Ats
<1>2. /\ EntryOf(f, x) \in DOMAIN f.dir /\ f.dir[EntryOf(f, x)].at = x.at
      /\ EntryOf(h, x) \in DOMAIN h.dir /\ h.dir[EntryOf(h, x)].at = x.at
  BY <1>1, EntryFacts
<1>3. f.dir[EntryOf(h, x)].at = x.at /\ EntryOf(h, x) \in DOMAIN f.dir
  BY <1>2 DEF SameEntries
<1> QED BY <1>2, <1>3 DEF FsOK, DirOK

\* What an allowed end says of a file system.
LEMMA AllowedFacts ==
  ASSUME Unharmed, NEW f, f.damage \subseteq Situations
  PROVE  Harmless(f) /\ Innocent(f) /\ f.damage \cap Misplaced = {}
BY DEF Unharmed, Harmless, Innocent

\* Descriptor i has been written with.
Advanced(f, d, g, i, e) ==
  /\ FsOK(g) /\ DataOK(g.data) /\ SameEntries(f.dir, g.dir) /\ OnlyEntry(f, g, e)
  /\ i \in Writers(d) /\ e = EntryOf(f, d[i])
  /\ d[i].mode = "append" => FrontStays(f, g, e, f.dir[e].size)
  /\ d[i].mode # "append" => FrontStays(f, g, e, d[i].pos)

\* It has kept what is in front of its position, and others their files.
LEMMA AdvancedInPlace ==
  ASSUME NEW f, NEW d, Ready(f, d), Within(f, d), NEW g, NEW i, NEW e, Advanced(f, d, g, i, e),
         NEW pos \in Nat, d[i].mode = "append" => pos = Size(g, d[i]),
         NEW new, new = [d EXCEPT ![i].pos = pos], NEW j \in DOMAIN new
  PROVE  Right(f, d, g, new[j])
<1>1. /\ FsOK(f) /\ FdsOK(f, d) /\ DataOK(f.data) /\ FsOK(g) /\ DataOK(g.data)
      /\ i \in DOMAIN d /\ \A m \in DOMAIN d : d[m].at \in Ats(f.dir)
  BY ReadyFacts DEF Advanced, Writers, FdsOK
<1>2. \A m \in DOMAIN d : EntryOf(g, d[m]) = EntryOf(f, d[m]) /\ EntryOf(f, d[m]) \in DOMAIN f.dir
  BY <1>1, SamePlaceOf DEF Advanced
<1>3. ASSUME NEW m \in Writers(d) \ {i} PROVE Size(g, d[m]) = Size(f, d[m])
  <2>1. d[m].at # d[i].at /\ m \in DOMAIN d
    BY <1>1, <1>3 DEF Advanced, FdsOK, Writers
  <2>2. f.dir[EntryOf(f, d[m])].at = d[m].at /\ f.dir[e].at = d[i].at
    BY <1>1, <2>1, EntryFacts DEF Advanced
  <2>3. EntryOf(f, d[m]) # e
    BY <2>1, <2>2
  <2> QED BY <1>2, <2>1, <2>3 DEF Advanced, OnlyEntry, Size
<1>4. d[i].mode = "append" => pos <= Size(g, d[i])
  OBVIOUS
<1>5. KeepsFront(f, g, d[i])
  <2>1. PICK n \in Nat : n = d[i].pos
    BY <1>1, FrontOfItself
  <2>2. FrontStays(f, g, e, n)
    <3>1. CASE d[i].mode = "append"
      <4>1. n <= f.dir[e].size /\ FrontStays(f, g, e, f.dir[e].size)
        BY <1>1, <2>1, <3>1 DEF Within, Advanced, Size
      <4> QED BY <4>1 DEF FrontStays
    <3>2. CASE d[i].mode # "append"
      BY <2>1, <3>2 DEF Advanced
    <3> QED BY <3>1, <3>2
  <2>3. IsPrefix(SubSeq(Bytes(f, f.dir[e]), 1, n), Bytes(g, g.dir[e]))
    BY <1>1, <2>2, FrontIsPrefix
  <2>4. EntryOf(f, d[i]) = e /\ EntryOf(g, d[i]) = e
    BY <1>1, <1>2 DEF Advanced
  <2> QED BY <2>1, <2>3, <2>4 DEF KeepsFront, Text
<1> QED BY <1>1, <1>3, <1>4, <1>5, PositionInPlace

\* f_write.
LEMMA WriteInPlace ==
  ASSUME EofIsNoBlock, Unharmed, NEW f, NEW d, Ready(f, d), Within(f, d), NEW id,
         NEW bytes \in Seq(Content)
  PROVE  InPlace(f, d, f_write(f, d, id, bytes))
<1> DEFINE i == Node(d, id)
           name == NameOf(f, d[i])
           offset == IF d[i].mode = "write" THEN d[i].pos ELSE 0
           w == writeFileToFAT(f, name, bytes, offset, d[i].mode = "append", None)
           c == f_write(f, d, id, bytes)
<1>1. \A ok : InPlace(f, d, Call(ok, f, d)) /\ InPlace(f, d, Call(ok, Searched(f, d), d))
  BY UntouchedInPlace
<1>2. IsCall(c)
  BY ReadyFacts, WriteSteady DEF Steady
<1>3. \/ \E ok : c = Call(ok, f, d) \/ c = Call(ok, Searched(f, d), d)
      \/ i # 0 /\ d[i].mode # "read" /\ c = Moved(w, d, i, bytes)
  BY DEF f_write
<1>4. ASSUME i # 0, d[i].mode # "read", c = Moved(w, d, i, bytes), Allowed(c)
      PROVE  InPlace(f, d, c)
  <2>1. i \in DOMAIN d /\ d[i] \in Fd /\ d[i].at \in Ats(f.dir)
    BY <1>4, ReadyFacts, NodeFacts DEF FdsOK, Plain
  <2>2. d[i].pos \in Nat /\ offset \in Nat /\ i \in Writers(d)
    BY <1>4, <2>1 DEF Fd, Mode, Writers
  <2>3. Find(f, name) # 0 /\ Find(f, name) = EntryOf(f, d[i])
    BY <2>1, ReadyFacts, EntryFacts
  <2>4. PICK appending : appending = (d[i].mode = "append")
    OBVIOUS
  <2>5. PICK x : x = w
    OBVIOUS
  <2>6. x = writeFileToFAT(f, name, bytes, offset, appending, None)
    BY <2>4, <2>5
  <2>7. d[i].mode # "append" => offset = d[i].pos
    BY <1>4, <2>1 DEF Fd, Mode
  <2> HIDE DEF i, name, offset, w, c
  <2>8. c = Moved(x, d, i, bytes) /\ c.fs = x.fs
    <3>1. c = Moved(x, d, i, bytes)
      BY <1>4, <2>5
    <3> QED BY <3>1 DEF Moved, Call
  <2>9. Harmless(x.fs) /\ Innocent(x.fs) /\ x.fs.damage \cap Misplaced = {}
    BY <1>4, <2>8, AllowedFacts DEF Allowed
  <2>10. PICK k : Sound(f, k)
    BY ReadyFacts DEF Intact
  <2>11. Kept(f, x.fs) /\ FsOK(x.fs)
    BY <2>3, <2>6, ReadyFacts, ExistingKept, KeptOK
  <2>12. Sound(x.fs, k)
    <3>1. Keeps(f, x.fs, k)
      BY <2>2, <2>3, <2>6, <2>9, ReadyFacts, ExistingKeeps
    <3> QED BY <2>9, <2>10, <3>1 DEF Keeps
  <2>13. CASE ~x.ok
    <3>1. x.fs = f
      BY <2>3, <2>6, <2>9, <2>13, ReadyFacts, FailsUntouched DEF Misplaced
    <3>2. c = Call(FALSE, f, d)
      BY <2>8, <2>13, <3>1 DEF Moved
    <3> QED BY <1>1, <3>2
  <2>14. CASE x.ok
    <3>1. PICK e : e = Find(f, name)
      OBVIOUS
    <3>2. FrontKept(f, x.fs, e, offset, appending)
      <4>1. FsOK(f) /\ offset \in Nat /\ e # 0
        BY <2>2, <2>3, <3>1, ReadyFacts
      <4> QED BY <2>6, <2>9, <2>10, <2>14, <3>1, <4>1, ExistingFront
    <3>3. Advanced(f, d, x.fs, i, e)
      BY <2>2, <2>3, <2>4, <2>7, <2>11, <2>12, <3>1, <3>2 DEF Advanced, Sound, Kept, FrontKept
    <3>4. Size(x.fs, d[i]) \in Nat
      <4>1. EntryOf(x.fs, d[i]) = e
        BY <2>1, <2>3, <2>11, <3>1, ReadyFacts, SamePlaceOf DEF Kept
      <4>2. x.fs.dir[e].size \in Nat
        BY <3>2 DEF FrontKept, FrontStays
      <4> QED BY <4>1, <4>2 DEF Size
    <3>5. PICK pos \in Nat : pos = IF d[i].mode = "write" THEN d[i].pos + Len(bytes)
                                   ELSE Size(x.fs, d[i])
      <4>1. Len(bytes) \in Nat
        BY LenProperties
      <4> QED BY <2>2, <3>4, <4>1
    <3>6. c.fds = [d EXCEPT ![i].pos = pos]
      BY <2>8, <2>14, <3>5 DEF Moved, Call, Size
    <3>7. d[i].mode = "append" => pos = Size(x.fs, d[i])
      BY <3>5
    <3>8. \A j \in DOMAIN c.fds : Right(f, d, x.fs, c.fds[j])
      BY <3>3, <3>6, <3>7, AdvancedInPlace
    <3> QED BY <1>2, <2>8, <3>8 DEF InPlace
  <2> QED BY <2>13, <2>14
<1>5. ~Allowed(c) => InPlace(f, d, c)
  BY DEF InPlace
<1> HIDE DEF i, w, c
<1>6. InPlace(f, d, c)
  BY <1>1, <1>3, <1>4, <1>5
<1> QED BY <1>6 DEF c

\* A file that is created: the others keep their size, and it has that of its bytes.
LEMMA CreatedSizes ==
  ASSUME NEW f, FsOK(f), NEW name \in Name, Find(f, name) = 0, NEW at, at \notin Ats(f.dir),
         NEW bytes, NEW offset, NEW appending,
         NEW w, w = writeFileToFAT(f, name, bytes, offset, appending, at), w.ok
  PROVE  /\ SameSizes(f, w.fs)
         /\ \A j \in DOMAIN w.fs.dir : w.fs.dir[j].at = at => w.fs.dir[j].size = Len(bytes)
<1> DEFINE c == FirstFree(f.blocks, 1, 1)
           new == [name |-> name, size |-> Len(bytes), perm |-> {"r", "w"}, at |-> at,
                   firstBlock |-> IF bytes = <<>> THEN 0 ELSE c]
           needed == Needed(f, Len(bytes))
           g == Write(f, f.blocks, c, 0, bytes)
           h == [g EXCEPT !.dir = Append(@, new), !.freeBlocks = @ - needed]
<1>1. w = IF f.freeBlocks < needed THEN Failed(f) ELSE Done(h)
  BY DEF writeFileToFAT, Create
<1>2. w.fs = h
  BY <1>1 DEF Failed, Done
<1>3. Beside(f, g)
  BY WriteBeside DEF FsOK
<1>4. new.size = Len(bytes) /\ new.at = at
  OBVIOUS
<1> HIDE DEF new, needed, g
<1>5. h.dir = Append(f.dir, new)
  BY <1>3 DEF Beside, Fields
<1> HIDE DEF h
<1>6. f.dir \in Seq(Range(f.dir)) /\ Len(f.dir) \in Nat /\ DOMAIN f.dir = 1..Len(f.dir)
  BY DirFacts DEF FsOK, DirOK
<1> DEFINE S == Range(f.dir) \cup {new}
<1>7. f.dir \in Seq(S) /\ new \in S
  <2>1. Range(f.dir) \subseteq S
    OBVIOUS
  <2> HIDE DEF S
  <2>2. f.dir \in Seq(S)
    BY <1>6, <2>1, SeqMonotonic
  <2> QED BY <2>2 DEF S
<1> HIDE DEF S
<1>8. PICK u : u = Append(f.dir, new)
  OBVIOUS
<1>9. /\ u \in Seq(S) /\ Len(u) = Len(f.dir) + 1
      /\ \A i \in 1..Len(f.dir) : u[i] = f.dir[i]
      /\ u[Len(f.dir) + 1] = new
  BY <1>7, <1>8, AppendProperties
<1>10. DOMAIN u = 1..(Len(f.dir) + 1)
  BY <1>9, LenProperties
<1>11. \A j \in DOMAIN u : (j \in DOMAIN f.dir /\ u[j] = f.dir[j]) \/ u[j] = new
  BY <1>6, <1>9, <1>10
<1>12. \A i \in DOMAIN f.dir : f.dir[i].at # at
  BY DEF Ats
<1>13. \A i, j \in DOMAIN f.dir : f.dir[i].at = f.dir[j].at => i = j
  BY DEF FsOK, DirOK
<1>14. ASSUME NEW i \in DOMAIN f.dir, NEW j \in DOMAIN u, f.dir[i].at = u[j].at
       PROVE  u[j].size = f.dir[i].size
  BY <1>4, <1>11, <1>12, <1>13, <1>14
<1>15. ASSUME NEW j \in DOMAIN u, u[j].at = at PROVE u[j].size = Len(bytes)
  BY <1>4, <1>11, <1>12, <1>15
<1> QED BY <1>2, <1>5, <1>8, <1>14, <1>15 DEF SameSizes

\* A new descriptor, of entry k.
LEMMA OpenedInPlace ==
  ASSUME NEW f, NEW d, Ready(f, d), Within(f, d), NEW g, FsOK(g), FdsOK(g, d), SameSizes(f, g),
         NEW mode, NEW k \in DOMAIN g.dir, NEW e, e = g.dir[k],
         mode = "append" => e.size \in Nat,
         NEW c, c = Opened(g, d, mode, e), IsCall(c)
  PROVE  InPlace(f, d, c)
<1> DEFINE u == [i \in DOMAIN d |-> [d[i] EXCEPT !.stale = FALSE]]
           n == [id |-> NextId(d), mode |-> mode, at |-> e.at, stale |-> FALSE,
                 pos |-> IF mode = "append" THEN e.size ELSE 0]
           S == Range(u) \cup {n}
<1>1. FsOK(c.fs) /\ c.fs.dir = g.dir /\ c.fds = Append(u, n)
  BY Flagged DEF Opened
<1>2. PICK v : v = c.fds
  OBVIOUS
<1>3. FdsOK(c.fs, v)
  BY <1>2 DEF IsCall
<1>4. SameFds(d, u) /\ Len(d) \in Nat /\ DOMAIN d = 1..Len(d)
  BY StaleSet, FdsFacts
<1>5. \A i \in DOMAIN d : /\ u[i].id = d[i].id /\ u[i].at = d[i].at
                          /\ u[i].mode = d[i].mode /\ u[i].pos = d[i].pos
  <2> SUFFICES ASSUME NEW i \in DOMAIN d
               PROVE  /\ u[i].id = d[i].id /\ u[i].at = d[i].at
                      /\ u[i].mode = d[i].mode /\ u[i].pos = d[i].pos
    OBVIOUS
  <2>1. d[i] \in Fd /\ u[i] = [d[i] EXCEPT !.stale = FALSE]
    BY ReadyFacts DEF Plain
  <2> QED BY <2>1 DEF Fd
<1>6. /\ n.mode = mode /\ n.at = e.at
      /\ mode = "append" => n.pos = e.size
  OBVIOUS
<1> HIDE DEF n
<1>7. u \in Seq(Range(u)) /\ Len(u) = Len(d)
  BY <1>4, LenProperties DEF SameFds
<1> HIDE DEF u
<1>8. u \in Seq(S) /\ n \in S
  <2>1. Range(u) \subseteq S
    OBVIOUS
  <2> HIDE DEF S
  <2>2. u \in Seq(S)
    BY <1>7, <2>1, SeqMonotonic
  <2> QED BY <2>2 DEF S
<1> HIDE DEF S
<1>9. /\ v \in Seq(S) /\ Len(v) = Len(d) + 1
      /\ \A i \in 1..Len(d) : v[i] = u[i]
      /\ v[Len(d) + 1] = n
  BY <1>1, <1>2, <1>7, <1>8, AppendProperties
<1>10. DOMAIN v = 1..(Len(d) + 1)
  BY <1>9, LenProperties
<1>11. \A j \in DOMAIN v : (j \in DOMAIN d /\ v[j] = u[j]) \/ v[j] = n
  BY <1>4, <1>9, <1>10
<1>12. ASSUME NEW i \in DOMAIN d PROVE d[i].id # n.id
  <2>1. i \in DOMAIN v /\ Len(d) + 1 \in DOMAIN v /\ i < Len(d) + 1 /\ v[i].id = d[i].id
    BY <1>4, <1>5, <1>9, <1>10
  <2>2. v[i].id < v[Len(d) + 1].id /\ v[i].id \in Nat
    BY <1>3, <2>1 DEF FdsOK, IsFd
  <2> QED BY <1>9, <2>1, <2>2
<1>13. Right(f, d, c.fs, n)
  <2>1. ASSUME n.mode = "append" PROVE n.pos <= Size(c.fs, n)
    <3>1. n.at \in Ats(c.fs.dir)
      BY <1>1, <1>6 DEF Ats
    <3>2. EntryOf(c.fs, n) = k
      <4>1. EntryOf(c.fs, n) \in DOMAIN g.dir /\ g.dir[EntryOf(c.fs, n)].at = g.dir[k].at
        BY <1>1, <1>6, <3>1, EntryFacts
      <4> QED BY <4>1 DEF FsOK, DirOK
    <3>3. Size(c.fs, n) = e.size /\ e.size \in Nat /\ n.pos = e.size
      BY <1>1, <1>6, <2>1, <3>2 DEF Size
    <3> QED BY <3>3
  <2>2. \A i \in Writers(d) : d[i].id # n.id
    BY <1>12 DEF Writers
  <2> QED BY <2>1, <2>2 DEF Right
<1>14. ASSUME NEW j \in DOMAIN d PROVE Right(f, d, c.fs, u[j])
  <2>1. PICK x : x = u[j]
    OBVIOUS
  <2>2. FromOld(d, x)
    BY <1>5, <2>1 DEF FromOld
  <2>3. x.at \in Ats(f.dir) /\ x.at \in Ats(c.fs.dir)
    <3>1. d[j].at \in Ats(g.dir)
      BY DEF FdsOK
    <3>2. d[j].at \in Ats(f.dir)
      BY DEF Ready, FdsOK
    <3>3. x.at = d[j].at
      BY <1>5, <2>1
    <3> QED BY <1>1, <3>1, <3>2, <3>3
  <2>4. SameSizes(f, c.fs)
    BY <1>1 DEF SameSizes
  <2>5. Size(c.fs, x) = Size(f, x)
    BY <1>1, <2>3, <2>4, ReadyFacts, SizeStays
  <2>6. Right(f, d, c.fs, x)
    BY <2>2, <2>5, ReadyFacts, OldIsRight
  <2> QED BY <2>1, <2>6
<1>15. \A j \in DOMAIN v : Right(f, d, c.fs, v[j])
  BY <1>11, <1>13, <1>14
<1> QED BY <1>2, <1>15 DEF InPlace

\* f_open.
LEMMA OpenInPlace ==
  ASSUME EofIsNoBlock, NEW f, NEW d, Ready(f, d), Within(f, d), NEW name \in Name, NEW mode \in Mode
  PROVE  InPlace(f, d, f_open(f, d, name, mode))
<1> DEFINE g == IF mode = "read" THEN f ELSE Searched(f, d)
           k == Find(f, name)
           made == writeFileToFAT(g, name, <<>>, 0, FALSE, NewAddr(f))
           existing == Opened(g, d, mode, f.dir[k])
           missing == OpenedNew(made, d, name, mode)
           fails == Call(FALSE, f, d)
           c == f_open(f, d, name, mode)
<1>1. c = IF mode # "read" /\ OpenForWriting(f, d, name) THEN fails
          ELSE IF k # 0 THEN existing
          ELSE IF mode = "read" THEN fails ELSE missing
  BY DEF f_open
<1>2. InPlace(f, d, fails)
  BY UntouchedInPlace
<1>3. FsOK(f) /\ FdsOK(f, d) /\ FsOK(g) /\ g.dir = f.dir /\ FdsOK(g, d)
  <2>1. FsOK(g) /\ g.dir = f.dir
    BY ReadyFacts, SearchedOK
  <2> HIDE DEF g
  <2> QED BY <2>1, ReadyFacts DEF FdsOK
<1>4. IsCall(c)
  BY <1>3, OpenOK DEF OneMore, Steady
<1> HIDE DEF c, g
<1>5. SameSizes(f, g)
  BY <1>3, SameDirSizes
<1>6. ASSUME k # 0, c = existing PROVE InPlace(f, d, c)
  <2>1. k \in DOMAIN f.dir
    BY <1>3, <1>6, FindFacts DEF FsOK
  <2>2. PICK e : e = f.dir[k]
    OBVIOUS
  <2> HIDE DEF k
  <2>3. e.size \in Nat
    BY <2>1, <2>2, ReadyFacts, Places
  <2>4. c = Opened(g, d, mode, e)
    BY <1>6, <2>2
  <2>5. k \in DOMAIN g.dir /\ e = g.dir[k]
    BY <1>3, <2>1, <2>2
  <2> QED BY <1>3, <1>4, <1>5, <2>3, <2>4, <2>5, OpenedInPlace
<1>7. ASSUME k = 0, c = missing PROVE InPlace(f, d, c)
  <2>1. PICK at : at = NewAddr(f)
    OBVIOUS
  <2>2. at \in Addr /\ at \notin Ats(g.dir) /\ Find(g, name) = 0
    BY <1>3, <1>7, <2>1, NewAddrFacts DEF Find
  <2>3. PICK bytes : bytes = <<>> /\ Len(bytes) = 0
    BY EmptySeq
  <2>4. PICK offset, appending : offset = 0 /\ appending = FALSE
    OBVIOUS
  <2>5. PICK w : w = writeFileToFAT(g, name, bytes, offset, appending, at)
    OBVIOUS
  <2>6. w = made
    BY <2>1, <2>3, <2>4, <2>5
  <2> HIDE DEF k, made
  <2>7. /\ ~w.ok => w.fs = g
        /\ w.ok => /\ FsOK(w.fs) /\ Ats(w.fs.dir) = Ats(g.dir) \cup {at}
                   /\ Find(w.fs, name) # 0 /\ w.fs.dir[Find(w.fs, name)].at = at
    BY <1>3, <2>2, <2>5, MissingCreated
  <2>8. CASE ~w.ok
    <3>1. c = Call(FALSE, g, d)
      BY <1>7, <2>6, <2>7, <2>8 DEF OpenedNew
    <3>2. c.fs = g /\ c.fds = d
      BY <3>1 DEF Call
    <3> QED BY <1>4, <1>5, <3>2, StillInPlace, OldStays
  <2>9. CASE w.ok
    <3>1. PICK h : h = w.fs
      OBVIOUS
    <3>2. PICK m : m = Find(h, name)
      OBVIOUS
    <3>3. PICK e : e = h.dir[m]
      OBVIOUS
    <3>4. c = Opened(h, d, mode, e)
      BY <1>7, <2>6, <2>9, <3>1, <3>2, <3>3 DEF OpenedNew
    <3>5. FsOK(h) /\ m \in DOMAIN h.dir
      BY <2>7, <2>9, <3>1, <3>2, FindFacts DEF FsOK
    <3>6. FdsOK(h, d)
      BY <1>3, <2>7, <2>9, <3>1, FdsStay, SameFdsOK
    <3>7. SameSizes(g, h) /\ e.size = 0
      BY <1>3, <2>2, <2>3, <2>5, <2>7, <2>9, <3>1, <3>2, <3>3, <3>5, CreatedSizes
    <3>8. SameSizes(f, h)
      BY <1>3, <3>7 DEF SameSizes
    <3>9. mode = "append" => e.size \in Nat
      BY <3>7
    <3> QED BY ONLY <1>4, <3>3, <3>4, <3>5, <3>6, <3>8, <3>9, Ready(f, d), Within(f, d),
                    OpenedInPlace
  <2> QED BY <2>8, <2>9
<1> HIDE DEF existing, missing, fails, k
<1>8. InPlace(f, d, c)
  BY <1>1, <1>2, <1>6, <1>7
<1> QED BY <1>8 DEF c

\* f_close.
LEMMA CloseInPlace ==
  ASSUME NEW f, NEW d, Ready(f, d), Within(f, d), NEW id
  PROVE  InPlace(f, d, f_close(f, d, id))
<1> DEFINE i == Node(d, id)
           u == IF i = Len(d) /\ i > 1 THEN [d EXCEPT ![i - 1].stale = TRUE] ELSE d
           v == RemoveAt(u, i)
           closed == Call(TRUE, saveFat(f), v)
           c == f_close(f, d, id)
<1>1. c = IF i = 0 THEN Call(FALSE, Searched(f, d), d) ELSE closed
  BY DEF f_close
<1>2. IsCall(c)
  BY ReadyFacts, CloseOK DEF OneLess, Steady
<1>3. InPlace(f, d, Call(FALSE, Searched(f, d), d))
  BY UntouchedInPlace
<1>4. ASSUME i # 0, c = closed PROVE InPlace(f, d, c)
  <2>1. i \in DOMAIN d
    BY <1>4, ReadyFacts, NodeFacts
  <2> HIDE DEF i, v, c
  <2>2. c.fds = v /\ c.fs.dir = f.dir
    <3>1. saveFat(f).dir = f.dir
      BY ReadyFacts, SaveFatOK
    <3>2. c.fds = v /\ c.fs = saveFat(f)
      BY <1>4 DEF Call
    <3> QED BY <3>1, <3>2
  <2> USE DEF v
  <2> HIDE DEF closed
  <2>3. SameFds(d, u)
    BY ReadyFacts, StaleSet, FdsStay
  <2>4. \A j \in DOMAIN d : u[j].pos = d[j].pos
    <3> SUFFICES ASSUME NEW j \in DOMAIN d PROVE u[j].pos = d[j].pos
      OBVIOUS
    <3>1. d[j] \in Fd /\ (u[j] = d[j] \/ u[j] = [d[j] EXCEPT !.stale = TRUE])
      BY ReadyFacts DEF Plain
    <3> HIDE DEF u
    <3> QED BY <3>1 DEF Fd
  <2> HIDE DEF u
  <2>5. \A j \in DOMAIN u : FromOld(d, u[j])
    BY <2>3, <2>4 DEF FromOld, SameFds
  <2>6. u \in Seq(Range(u)) /\ i \in 1..Len(u) /\ DOMAIN u = 1..Len(u) /\ Len(u) \in Nat
    BY <2>1, <2>3, LenProperties DEF SameFds
  <2>7. /\ v \in Seq(Range(u)) /\ Len(v) = Len(u) - 1
        /\ \A j \in 1..(Len(u) - 1) : v[j] = IF j < i THEN u[j] ELSE u[j + 1]
    BY <2>6, RemoveAtProperties
  <2> HIDE DEF v
  <2>8. DOMAIN v = 1..(Len(u) - 1)
    BY <2>7, LenProperties
  <2>9. \A j \in DOMAIN v : \E m \in DOMAIN u : v[j] = u[m]
    BY <2>6, <2>7, <2>8
  <2>10. \A j \in DOMAIN v : FromOld(d, v[j])
    BY <2>5, <2>9
  <2>11. SameSizes(f, c.fs)
    BY <2>2, ReadyFacts, SameDirSizes
  <2> QED BY <1>2, <2>2, <2>10, <2>11, StillInPlace
<1> HIDE DEF closed, c
<1>5. InPlace(f, d, c)
  BY <1>1, <1>3, <1>4
<1> QED BY <1>5 DEF c

\* Every entry of a directory has the address and the size of one of f.
OldEntries(f, dir) ==
  \A j \in DOMAIN dir :
     \E i \in DOMAIN f.dir : dir[j].at = f.dir[i].at /\ dir[j].size = f.dir[i].size

\* Then files keep their sizes.
LEMMA OldEntriesSizes ==
  ASSUME NEW f, FsOK(f), NEW g, OldEntries(f, g.dir)
  PROVE  SameSizes(f, g)
BY DEF OldEntries, SameSizes, FsOK, DirOK

\* An entry gets another name or other permissions.
LEMMA LabelOld ==
  ASSUME NEW f, f.dir \in Seq(Entry), NEW i \in DOMAIN f.dir, NEW e \in Entry,
         e.at = f.dir[i].at, e.size = f.dir[i].size,
         NEW dir, dir = [f.dir EXCEPT ![i] = e]
  PROVE  dir \in Seq(Entry) /\ DOMAIN dir = DOMAIN f.dir /\ OldEntries(f, dir)
<1>1. dir \in Seq(Entry)
  BY ExceptSeq
<1>2. \A j \in DOMAIN f.dir : dir[j] = IF j = i THEN e ELSE f.dir[j]
  OBVIOUS
<1>3. DOMAIN dir = DOMAIN f.dir
  OBVIOUS
<1> QED BY <1>1, <1>2, <1>3 DEF OldEntries

\* One is taken away.
LEMMA RemovedOld ==
  ASSUME NEW f, NEW dir \in Seq(Entry), OldEntries(f, dir), NEW i \in DOMAIN dir
  PROVE  OldEntries(f, RemoveAt(dir, i))
<1>1. Len(dir) \in Nat /\ DOMAIN dir = 1..Len(dir)
  BY LenProperties
<1>2. PICK u : u = RemoveAt(dir, i)
  OBVIOUS
<1>3. /\ u \in Seq(Entry) /\ Len(u) = Len(dir) - 1
      /\ \A j \in 1..(Len(dir) - 1) : u[j] = IF j < i THEN dir[j] ELSE dir[j + 1]
  BY <1>1, <1>2, RemoveAtProperties
<1>4. DOMAIN u = 1..(Len(dir) - 1)
  BY <1>3, LenProperties
<1>5. ASSUME NEW j \in DOMAIN u PROVE \E m \in DOMAIN dir : u[j] = dir[m]
  <2>1. PICK m : m = IF j < i THEN j ELSE j + 1
    OBVIOUS
  <2>2. m \in DOMAIN dir /\ u[j] = dir[m]
    BY <1>1, <1>3, <1>4, <2>1
  <2> QED BY <2>2
<1> QED BY <1>2, <1>5 DEF OldEntries

\* rm changes no size of those that stay, ...
LEMMA DeleteSizes ==
  ASSUME NEW f, FsOK(f), f.dir \in Seq(Entry), NEW name
  PROVE  SameSizes(f, deleteFileFromFAT(f, name).fs)
<1>1. PICK i : i = Find(f, name)
  OBVIOUS
<1>2. PICK g : g = deleteFileFromFAT(f, name).fs
  OBVIOUS
<1>3. OldEntries(f, f.dir)
  BY DEF OldEntries
<1>4. g.dir = f.dir \/ (i # 0 /\ g.dir = RemoveAt(f.dir, i))
  <2>1. DOMAIN f = Fields
    BY DEF FsOK
  <2>2. g = f \/ (i # 0 /\ g = Delete(f, i))
    BY <1>1, <1>2 DEF deleteFileFromFAT, Done, Failed
  <2>3. Delete(f, i).dir = RemoveAt(f.dir, i)
    BY <2>1 DEF Delete, Fields
  <2> QED BY <2>2, <2>3
<1>5. i # 0 => i \in DOMAIN f.dir
  BY <1>1, FindFacts DEF FsOK
<1>6. OldEntries(f, g.dir)
  BY <1>3, <1>4, <1>5, RemovedOld
<1> QED BY <1>2, <1>6, OldEntriesSizes

\* mv, which may also remove a file, ...
LEMMA RenameSizes ==
  ASSUME NEW f, FsOK(f), f.dir \in Seq(Entry), NEW old, NEW new \in Name
  PROVE  SameSizes(f, renameFile(f, old, new).fs)
<1> DEFINE i == Find(f, old)
           j == Find(f, new)
           e == [f.dir[i] EXCEPT !.name = new]
           u == [f.dir EXCEPT ![i] = e]
           h == [f EXCEPT !.dir[i].name = new]
           r == renameFile(f, old, new)
<1>1. DOMAIN f = Fields /\ OldEntries(f, f.dir)
  BY DEF FsOK, OldEntries
<1>2. h.dir = u /\ DOMAIN h = Fields
  BY <1>1 DEF Fields
<1>3. \/ r.fs = f
      \/ /\ i # 0
         /\ \/ r.fs = h
            \/ r.fs = [h EXCEPT !.damage = @ \cup {"mv_over_readonly"}]
            \/ /\ j # 0
               /\ r.fs = [Delete(h, j) EXCEPT !.damage = @ \cup Flag("mv_to_itself", i = j)]
  BY DEF renameFile, Done, Failed
<1>4. /\ i # 0 => i \in DOMAIN f.dir
      /\ j # 0 => j \in DOMAIN f.dir
  BY FindFacts DEF FsOK
<1> HIDE DEF i, j, h, r
<1>5. ASSUME NEW S PROVE [h EXCEPT !.damage = @ \cup S].dir = u
  BY <1>2 DEF Fields
<1>6. ASSUME NEW S PROVE [Delete(h, j) EXCEPT !.damage = @ \cup S].dir = RemoveAt(u, j)
  BY <1>2 DEF Delete, Fields
<1>7. \/ r.fs.dir = f.dir
      \/ i # 0 /\ r.fs.dir = u
      \/ i # 0 /\ j # 0 /\ r.fs.dir = RemoveAt(u, j)
  <2>1. PICK S, T : S = {"mv_over_readonly"} /\ T = Flag("mv_to_itself", i = j)
    OBVIOUS
  <2>2. [h EXCEPT !.damage = @ \cup S].dir = u
    BY <1>5
  <2>3. [Delete(h, j) EXCEPT !.damage = @ \cup T].dir = RemoveAt(u, j)
    BY <1>6
  <2> HIDE DEF u
  <2> QED BY <1>2, <1>3, <2>1, <2>2, <2>3
<1>8. ASSUME i # 0 PROVE u \in Seq(Entry) /\ DOMAIN u = DOMAIN f.dir /\ OldEntries(f, u)
  <2>1. i \in DOMAIN f.dir /\ f.dir[i] \in Entry
    BY <1>4, <1>8, Places
  <2>2. e \in Entry /\ e.at = f.dir[i].at /\ e.size = f.dir[i].size
    BY <2>1 DEF Entry
  <2> HIDE DEF e
  <2> QED BY <2>1, <2>2, LabelOld
<1> HIDE DEF u
<1>9. OldEntries(f, r.fs.dir)
  BY <1>1, <1>4, <1>7, <1>8, RemovedOld
<1>10. SameSizes(f, r.fs)
  BY <1>9, OldEntriesSizes
<1> QED BY <1>10 DEF r

\* ... and chmod.
LEMMA ChmodSizes ==
  ASSUME NEW f, FsOK(f), f.dir \in Seq(Entry), NEW name, NEW perm \in Perms
  PROVE  SameSizes(f, chmodFile(f, name, perm).fs)
<1> DEFINE i == Find(f, name)
           e == [f.dir[i] EXCEPT !.perm = perm]
           u == [f.dir EXCEPT ![i] = e]
           h == [f EXCEPT !.dir[i].perm = perm]
           r == chmodFile(f, name, perm)
<1>1. DOMAIN f = Fields /\ OldEntries(f, f.dir)
  BY DEF FsOK, OldEntries
<1>2. h.dir = u
  BY <1>1 DEF Fields
<1>3. r.fs = f \/ (i # 0 /\ r.fs = h)
  BY DEF chmodFile, Done, Failed
<1>4. i # 0 => i \in DOMAIN f.dir
  BY FindFacts DEF FsOK
<1> HIDE DEF i, h, r
<1>5. ASSUME i # 0 PROVE OldEntries(f, u)
  <2>1. i \in DOMAIN f.dir /\ f.dir[i] \in Entry
    BY <1>4, <1>5, Places
  <2>2. e \in Entry /\ e.at = f.dir[i].at /\ e.size = f.dir[i].size
    BY <2>1 DEF Entry
  <2> HIDE DEF e
  <2> QED BY <2>1, <2>2, LabelOld
<1> HIDE DEF u
<1>6. SameSizes(f, r.fs)
  BY <1>1, <1>2, <1>3, <1>5, OldEntriesSizes
<1> QED BY <1>6 DEF r

\* f_mv, f_unlink and f_chmod.
LEMMA SavedInPlace ==
  ASSUME NumbersKept, NEW f, NEW d, Ready(f, d), Within(f, d), NEW r, DOMAIN r.fs = Fields,
         FsOK(r.fs) \/ "mv_over_readonly" \in r.fs.damage, SameSizes(f, r.fs)
  PROVE  InPlace(f, d, Saved(r, d))
<1>1. PICK c : c = Saved(r, d)
  OBVIOUS
<1>2. ASSUME Allowed(c)
      PROVE  IsCall(c) /\ SameSizes(f, c.fs) /\ \A j \in DOMAIN c.fds : FromOld(d, c.fds[j])
  <2>1. "unlink_open" \notin c.fs.damage /\ "mv_over_readonly" \notin c.fs.damage
    BY <1>2 DEF Allowed, NumbersKept
  <2>2. FdsOK(f, d)
    BY ReadyFacts
  <2>3. Steady(d, c)
    BY <1>1, <2>1, <2>2, SavedOK
  <2>4. PICK S : c = Call(r.ok, LET g == [r.fs EXCEPT !.damage = @ \cup S]
                                IN  IF r.ok THEN saveFat(g) ELSE g, d)
    BY <1>1 DEF Saved
  <2>5. PICK g : g = [r.fs EXCEPT !.damage = @ \cup S]
    OBVIOUS
  <2>6. c.fds = d /\ c.fs = IF r.ok THEN saveFat(g) ELSE g
    BY <2>4, <2>5 DEF Call
  <2>7. g.dir = r.fs.dir /\ r.fs.damage \subseteq g.damage /\ DOMAIN g = Fields
    BY <2>5 DEF Fields
  <2>8. g.damage \subseteq c.fs.damage
    BY <2>6, <2>7, SaveFatGrows
  <2>9. FsOK(r.fs)
    BY <2>1, <2>7, <2>8
  <2>10. FsOK(g)
    BY <2>5, <2>9, Flagged
  <2>11. c.fs.dir = r.fs.dir
    BY <2>6, <2>7, <2>10, SaveFatOK
  <2> QED BY <2>3, <2>6, <2>11, OldStays DEF Steady, SameSizes
<1>3. InPlace(f, d, c)
  BY <1>2, StillInPlace
<1> QED BY <1>1, <1>3

-----------------------------------------------------------------------------
(***************************************************************************)
(* A step writes in place.                                                 *)
(***************************************************************************)
\* A step after which all have kept what they have written.
StaysInPlace == StepInPlace(fs, fds, fs', fds')

\* What is needed of the state before it.
SureState == IInv /\ TypeInv /\ Within(fs, fds)

\* A call that can be followed.
Sure(c) == IsCall(c) /\ Fine(c) /\ InPlace(fs, fds, c)

\* Each call is.
LEMMA OpenSure ==
  ASSUME EofIsNoBlock, SureState, NEW name \in Name, NEW mode \in Mode
  PROVE  Sure(f_open(fs, fds, name, mode))
BY OpenTyped, StateFacts, OpenInPlace DEF Sure, SureState

\* A read.
LEMMA ReadSure ==
  ASSUME SureState, NEW id, NEW n \in Nat
  PROVE  Sure(f_read(fs, fds, id, n))
BY ReadTyped, StateFacts, ReadInPlace DEF Sure, SureState

\* A write.
LEMMA WriteSure ==
  ASSUME EofIsNoBlock, Unharmed, SureState, NEW id, NEW bytes \in Seq(Content)
  PROVE  Sure(f_write(fs, fds, id, bytes))
BY WriteTyped, StateFacts, WriteInPlace DEF Sure, SureState

\* A close.
LEMMA CloseSure ==
  ASSUME EofIsNoBlock, SureState, NEW id
  PROVE  Sure(f_close(fs, fds, id))
BY CloseTyped, StateFacts, CloseInPlace DEF Sure, SureState

\* To seek the end.
LEMMA SeekSure ==
  ASSUME SureState, NEW id
  PROVE  Sure(f_lseek(fs, fds, id))
<1>1. Ready(fs, fds) /\ FsOK(fs) /\ FdsOK(fs, fds) /\ Within(fs, fds)
  BY StateFacts DEF SureState, Ready
<1>2. IsCall(f_lseek(fs, fds, id))
  BY <1>1, SeekSteady DEF Steady
<1>3. Fine(f_lseek(fs, fds, id))
  BY <1>1, SeekFine
<1>4. InPlace(fs, fds, f_lseek(fs, fds, id))
  BY <1>1, SeekInPlace
<1> QED BY <1>2, <1>3, <1>4 DEF Sure

\* No call at all.
LEMMA NoCallSure ==
  ASSUME SureState
  PROVE  Sure(Call(TRUE, fs, fds))
<1>1. Ready(fs, fds) /\ DOMAIN fs = Fields /\ Within(fs, fds)
  BY StateFacts DEF SureState
<1>2. PICK c : c = Call(TRUE, fs, fds)
  OBVIOUS
<1>3. IsCall(c)
  BY <1>1, <1>2, ReadyFacts DEF IsCall, Call
<1>4. Fine(c) /\ InPlace(fs, fds, c)
  BY <1>1, <1>2, StillFine, UntouchedInPlace
<1> QED BY <1>2, <1>3, <1>4 DEF Sure

\* One in a situation, too.
LEMMA MarkedSure ==
  ASSUME NEW c, Sure(c), NEW situation, NEW holds
  PROVE  Sure(Marked(c, situation, holds))
<1>1. IsCall(c) /\ Fine(c) /\ InPlace(fs, fds, c)
  BY DEF Sure
<1>2. {"fs", "fds"} \subseteq DOMAIN c /\ DOMAIN c.fs = Fields
  BY <1>1 DEF IsCall, FsOK
<1>3. Fine(Marked(c, situation, holds))
  BY <1>1, <1>2, MarkedFine
<1>4. InPlace(fs, fds, Marked(c, situation, holds))
  BY <1>1, <1>2, MarkedInPlace
<1>5. IsCall(Marked(c, situation, holds))
  BY <1>1, MarkedOK
<1> QED BY <1>3, <1>4, <1>5 DEF Sure

\* It is followed.
LEMMA SureStays ==
  ASSUME Unharmed, NEW c, Sure(c), NEW programs, NEW sh, Commit(c, programs, sh)
  PROVE  StaysInPlace
BY CommitInPlace DEF Sure, StaysInPlace

\* A program goes on after it, ...
LEMMA GoesInPlace ==
  ASSUME Unharmed, NEW p, NEW c, Sure(c), NEW q, Goes(p, c, q)
  PROVE  StaysInPlace
BY SureStays DEF Goes

\* ... or ends.
LEMMA EndsInPlace ==
  ASSUME Unharmed, NEW p, NEW c, Sure(c), Ends(p, c)
  PROVE  StaysInPlace
<1>1. PICK holds : holds = (\E h \in {prog[p].in, prog[p].out} \ {None, Terminal, shell.in, shell.out} :
                              Node(c.fds, h.id) # 0)
  OBVIOUS
<1>2. Goes(p, Marked(c, "left_open", holds), NoProgram)
  BY <1>1 DEF Ends
<1>3. Sure(Marked(c, "left_open", holds))
  BY MarkedSure
<1> QED BY <1>2, <1>3, GoesInPlace

\* Neither files nor descriptors change.
LEMMA UnchangedInPlace ==
  ASSUME SureState, fs' = fs, fds' = fds
  PROVE  StaysInPlace
<1>1. FdsOK(fs, fds) /\ Plain(fds) /\ Within(fs, fds)
  BY StateFacts DEF SureState, Ready
<1>2. ASSUME NEW i \in Writers(fds) PROVE ~(fds[Node(fds, fds[i].id)].pos > fds[i].pos)
  <2>1. i \in DOMAIN fds
    BY DEF Writers
  <2>2. Node(fds, fds[i].id) = i
    BY <1>1, <2>1, NodeFacts
  <2>3. fds[i].pos \in Nat
    BY <1>1, <2>1 DEF Plain, Fd
  <2> QED BY <2>2, <2>3
<1>3. StepInPlace(fs, fds, fs, fds)
  BY <1>1, <1>2 DEF StepInPlace
<1> QED BY <1>3 DEF StaysInPlace

\* A new start closes all.
LEMMA RestartInPlace ==
  ASSUME Restart
  PROVE  StaysInPlace
<1>1. fds' = <<>>
  BY DEF Restart, Follow, First
<1> QED BY <1>1, NothingOpen DEF StaysInPlace

\* A program opens a file.
LEMMA ProgramOpensInPlace ==
  ASSUME EofIsNoBlock, Unharmed, SureState, NEW p \in Proc,
         OpensSource(p) \/ TouchOpens(p) \/ CopyCreates(p)
  PROVE  StaysInPlace
<1> DEFINE q == prog[p]
<1>1. q \in Program /\ IsProgram(q)
  BY ProgramTyped DEF SureState
<1>2. "read" \in Mode /\ "write" \in Mode /\ "append" \in Mode
  BY DEF Mode
<1>3. CASE OpensSource(p)
  <2> DEFINE c == f_open(fs, fds, Head(q.names), "read")
             r == [q EXCEPT !.in = c.held, !.at = IF q.cmd = "cat" THEN "read" ELSE "seek"]
  <2>1. q.at = "open" /\ (Ends(p, c) \/ Goes(p, c, r))
    BY <1>3 DEF OpensSource, At
  <2>2. Head(q.names) \in Name
    BY <1>1, <2>1, HeadTailProperties DEF IsProgram
  <2>3. Sure(c)
    BY <1>2, <2>2, OpenSure
  <2> HIDE DEF c, r
  <2> QED BY <2>1, <2>3, GoesInPlace, EndsInPlace
<1>4. CASE TouchOpens(p)
  <2> DEFINE c == f_open(fs, fds, Head(q.names), "append")
             r == [q EXCEPT !.out = c.held, !.at = "write"]
  <2>1. q.at = "open" /\ (Ends(p, c) \/ Goes(p, c, r))
    BY <1>4 DEF TouchOpens, At
  <2>2. Head(q.names) \in Name
    BY <1>1, <2>1, HeadTailProperties DEF IsProgram
  <2>3. Sure(c)
    BY <1>2, <2>2, OpenSure
  <2> HIDE DEF c, r
  <2> QED BY <2>1, <2>3, GoesInPlace, EndsInPlace
<1>5. CASE CopyCreates(p)
  <2> DEFINE c == f_open(fs, fds, q.names[2], "write")
             r == [q EXCEPT !.out = c.held, !.at = "write"]
  <2>1. q.cmd = "cp" /\ (Ends(p, c) \/ Goes(p, c, r))
    BY <1>5 DEF CopyCreates, At
  <2>2. q.names[2] \in Name
    <3>1. q.names \in Seq(Name) /\ Len(q.names) = 2
      BY <1>1, <2>1 DEF IsProgram
    <3> HIDE DEF q
    <3> QED BY <3>1, ElementOfSeq
  <2>3. Sure(c)
    BY <1>2, <2>2, OpenSure
  <2> HIDE DEF c, r
  <2> QED BY <2>1, <2>3, GoesInPlace, EndsInPlace
<1> QED BY <1>3, <1>4, <1>5

\* It reads, or seeks the end.
LEMMA ProgramReadsInPlace ==
  ASSUME Unharmed, SureState, NEW p \in Proc, CatReads(p) \/ CopySeeks(p) \/ CopyReads(p)
  PROVE  StaysInPlace
<1> DEFINE q == prog[p]
<1>1. CASE CatReads(p)
  <2> DEFINE own == q.names # <<>>
             n == IF own THEN BufSize ELSE StdinSize
             c == f_read(fs, fds, q.in.id, n)
             r == [q EXCEPT !.at = IF c.bytes = <<>> THEN "close" ELSE "write", !.buf = c.bytes]
  <2>1. Ends(p, c) \/ Goes(p, c, r)
    BY <1>1 DEF CatReads, At
  <2>2. n \in Nat
    BY DescriptorAssumption
  <2> HIDE DEF n
  <2>3. Sure(c)
    BY <2>2, ReadSure
  <2> HIDE DEF c, r
  <2> QED BY <2>1, <2>3, GoesInPlace, EndsInPlace
<1>2. CASE CopySeeks(p)
  <2> DEFINE c == f_lseek(fs, fds, q.in.id)
             n == c.fds[Node(fds, q.in.id)].pos
             r == [q EXCEPT !.at = "read", !.buf = [i \in 1..n |-> Junk]]
  <2>1. Goes(p, c, r)
    BY <1>2 DEF CopySeeks
  <2>2. Sure(c)
    BY SeekSure
  <2> HIDE DEF c, r
  <2> QED BY <2>1, <2>2, GoesInPlace
<1>3. CASE CopyReads(p)
  <2> DEFINE c == f_read(fs, fds, q.in.id, Len(q.buf))
             r == [q EXCEPT !.at = "abort", !.buf = <<>>]
             s == [q EXCEPT !.at = "close"]
             t == [q EXCEPT !.buf = c.bytes \o SubSeq(@, Len(c.bytes) + 1, Len(@))]
  <2>1. PICK again : again = (\E i \in DOMAIN q.buf : q.buf[i] # Junk)
    OBVIOUS
  <2>2. Goes(p, c, r) \/ Goes(p, c, s) \/ Goes(p, Marked(c, "read_twice", again), t)
    BY <1>3, <2>1 DEF CopyReads
  <2>3. PICK l \in Nat : l = Len(q.buf)
    <3>1. q.buf \in Seq(Content)
      BY ProgramTyped DEF SureState
    <3> HIDE DEF q
    <3> QED BY <3>1, LenProperties
  <2>4. Sure(c)
    BY <2>3, ReadSure
  <2> HIDE DEF c, r, s, t
  <2>5. Sure(Marked(c, "read_twice", again))
    BY <2>4, MarkedSure
  <2> QED BY <2>2, <2>4, <2>5, GoesInPlace
<1> QED BY <1>1, <1>2, <1>3

\* It writes.
LEMMA ProgramWritesInPlace ==
  ASSUME EofIsNoBlock, Unharmed, SureState, NEW p \in Proc,
         CatWrites(p) \/ TouchWrites(p) \/ CopyWrites(p)
  PROVE  StaysInPlace
<1> DEFINE q == prog[p]
<1>1. q.buf \in Seq(Content) /\ <<>> \in Seq(Content)
  BY ProgramTyped, EmptySeq DEF SureState
<1>2. CASE CatWrites(p) \/ CopyWrites(p)
  <2> DEFINE c == f_write(fs, fds, q.out.id, q.buf)
             r == [q EXCEPT !.at = "read", !.buf = <<>>]
             s == [q EXCEPT !.at = "finish", !.buf = <<>>]
  <2>1. Ends(p, c) \/ Goes(p, c, r) \/ Goes(p, c, s)
    BY <1>2 DEF CatWrites, CopyWrites
  <2>2. Sure(c)
    BY <1>1, WriteSure
  <2> HIDE DEF c, r, s
  <2> QED BY <2>1, <2>2, GoesInPlace, EndsInPlace
<1>3. CASE TouchWrites(p)
  <2> DEFINE c == f_write(fs, fds, q.out.id, <<>>)
             r == [q EXCEPT !.at = "close"]
  <2>1. Ends(p, c) \/ Goes(p, c, r)
    BY <1>3 DEF TouchWrites
  <2>2. Sure(c)
    BY <1>1, WriteSure
  <2> HIDE DEF c, r
  <2> QED BY <2>1, <2>2, GoesInPlace, EndsInPlace
<1> QED BY <1>2, <1>3

\* It closes.
LEMMA ProgramClosesInPlace ==
  ASSUME EofIsNoBlock, Unharmed, SureState, NEW p \in Proc,
         ClosesOne(p) \/ CopyCloses(p) \/ CopyFinishes(p)
  PROVE  StaysInPlace
<1> DEFINE q == prog[p]
<1>1. CASE ClosesOne(p)
  <2> DEFINE own == IF q.cmd = "cat" THEN q.in ELSE q.out
             c == f_close(fs, fds, own.id)
             next == [q EXCEPT !.names = Tail(@), !.at = "open"]
             r == IF q.cmd = "cat" THEN [next EXCEPT !.in = None] ELSE [next EXCEPT !.out = Terminal]
  <2>1. Ends(p, c) \/ Goes(p, c, r)
    BY <1>1 DEF ClosesOne
  <2> HIDE DEF own, r
  <2>2. Sure(c)
    BY CloseSure
  <2> HIDE DEF c
  <2> QED BY <2>1, <2>2, GoesInPlace, EndsInPlace
<1>2. CASE CopyCloses(p)
  <2> DEFINE c == f_close(fs, fds, q.in.id)
             r == [q EXCEPT !.at = "create", !.in = None]
  <2>1. Ends(p, c) \/ Goes(p, c, r)
    BY <1>2 DEF CopyCloses
  <2>2. Sure(c)
    BY CloseSure
  <2> HIDE DEF c, r
  <2> QED BY <2>1, <2>2, GoesInPlace, EndsInPlace
<1>3. CASE CopyFinishes(p)
  <2> DEFINE c == f_close(fs, fds, q.out.id)
  <2>1. Ends(p, c)
    BY <1>3 DEF CopyFinishes
  <2>2. Sure(c)
    BY CloseSure
  <2> HIDE DEF c
  <2> QED BY <2>1, <2>2, EndsInPlace
<1> QED BY <1>1, <1>2, <1>3

\* Every step of a program.
LEMMA ProgramInPlace ==
  ASSUME EofIsNoBlock, Unharmed, SureState, NEW p \in Proc, Step(p)
  PROVE  StaysInPlace
BY ProgramOpensInPlace, ProgramReadsInPlace, ProgramWritesInPlace, ProgramClosesInPlace DEF Step

\* The shell opens the files a line redirects to.
LEMMA ShellOpensInPlace ==
  ASSUME EofIsNoBlock, Unharmed, SureState, NEW s \in Started, OpenIn(s) \/ OpenOut(s)
  PROVE  StaysInPlace
<1>1. IsShell(s)
  BY StartedTyped DEF SureState
<1>2. CASE OpenIn(s)
  <2> DEFINE c == f_open(fs, fds, s.line.in, "read")
             t == GoOn([s EXCEPT !.in = c.held], 2)
  <2>1. s.at = "in" /\ IF c.ok THEN Commit(c, prog, t) ELSE Restart
    BY <1>2 DEF OpenIn
  <2>2. s.line.in \in Name /\ "read" \in Mode
    BY <1>1, <2>1, LineFacts DEF IsShell, Mode
  <2>3. Sure(c)
    BY <2>2, OpenSure
  <2> HIDE DEF c, t
  <2> QED BY <2>1, <2>3, SureStays, RestartInPlace
<1>3. CASE OpenOut(s)
  <2> DEFINE c == f_open(fs, fds, s.line.out, s.line.mode)
             t == GoOn([s EXCEPT !.out = c.held], 3)
  <2>1. s.at = "out" /\ IF c.ok THEN Commit(c, prog, t) ELSE Restart
    BY <1>3 DEF OpenOut
  <2>2. s.line \in Lines /\ s.line.out # None
    BY <1>1, <2>1 DEF IsShell
  <2>3. s.line \in Line
    BY <2>2, DescriptorAssumption
  <2>4. s.line.out \in Name /\ s.line.mode \in Mode
    BY <2>2, <2>3 DEF Line, Mode
  <2>5. Sure(c)
    BY <2>4, OpenSure
  <2> HIDE DEF c, t
  <2> QED BY <2>1, <2>5, SureStays, RestartInPlace
<1> QED BY <1>2, <1>3

\* It closes them.
LEMMA ShellClosesInPlace ==
  ASSUME EofIsNoBlock, Unharmed, SureState, NEW h, NEW t, CloseRedirected(h, t)
  PROVE  StaysInPlace
<1>1. PICK used : used = (\E p \in Proc : h \in {prog[p].in, prog[p].out})
  OBVIOUS
<1> DEFINE c == f_close(fs, fds, h.id)
<1>2. IF c.ok THEN Commit(Marked(c, "closed_behind", used), prog, t) ELSE Restart
  BY <1>1 DEF CloseRedirected
<1>3. Sure(c)
  BY CloseSure
<1> HIDE DEF c
<1>4. Sure(Marked(c, "closed_behind", used))
  BY <1>3, MarkedSure
<1> QED BY <1>2, <1>4, SureStays, RestartInPlace

\* The shell.
LEMMA ShellInPlace ==
  ASSUME EofIsNoBlock, Unharmed, SureState, ShellStep
  PROVE  StaysInPlace
<1>1. CASE CloseOut \/ CloseIn
  BY <1>1, ShellClosesInPlace DEF CloseOut, CloseIn
<1>2. CASE Waited
  BY <1>2, UnchangedInPlace DEF Waited
<1>3. ASSUME NEW s \in Started, OpenIn(s) \/ OpenOut(s)
      PROVE  StaysInPlace
  BY <1>3, ShellOpensInPlace
<1>4. ASSUME NEW s \in Started, Spawn(s) \/ RunBuiltin(s)
      PROVE  StaysInPlace
  BY <1>4, UnchangedInPlace DEF Spawn, RunBuiltin
<1>5. ASSUME NEW s \in Started, GiveUp(s)
      PROVE  StaysInPlace
  <2>1. PICK left : left = (s.in # None \/ s.out # Terminal)
    OBVIOUS
  <2>2. PICK k : k = Call(TRUE, fs, fds)
    OBVIOUS
  <2>3. Commit(Marked(k, "left_open", left), prog, Idle)
    BY <1>5, <2>1, <2>2 DEF GiveUp
  <2>4. Sure(k)
    BY <2>2, NoCallSure
  <2>5. Sure(Marked(k, "left_open", left))
    BY <2>4, MarkedSure
  <2> QED BY <2>3, <2>5, SureStays
<1> QED BY <1>1, <1>2, <1>3, <1>4, <1>5 DEF ShellStep

\* rm, mv and chmod.
LEMMA SavedSure ==
  ASSUME EofIsNoBlock, NumbersKept, SureState, NEW r, \A k : Keeps(fs, r.fs, k),
         FsOK(r.fs) \/ "mv_over_readonly" \in r.fs.damage, SameSizes(fs, r.fs)
  PROVE  Fine(Saved(r, fds)) /\ InPlace(fs, fds, Saved(r, fds))
<1>1. Ready(fs, fds) /\ Within(fs, fds)
  BY StateFacts DEF SureState
<1>2. DOMAIN r.fs = Fields
  BY DEF Keeps, Grows
<1>3. Fine(Saved(r, fds))
  BY <1>1, SavedFine
<1>4. InPlace(fs, fds, Saved(r, fds))
  BY <1>1, <1>2, SavedInPlace
<1> QED BY <1>3, <1>4

\* Every step.
LEMMA NextInPlace ==
  ASSUME EofIsNoBlock, NumbersKept, Unharmed, SureState, [Next]_vars
  PROVE  StaysInPlace
<1>0. /\ FsOK(fs) /\ DOMAIN fs = Fields /\ fs.dir \in Seq(Entry)
  BY StateFacts, ReadyFacts DEF SureState
<1>1. CASE \E p \in Proc : Step(p)
  BY <1>1, ProgramInPlace
<1>2. CASE ShellStep
  BY <1>2, ShellInPlace
<1>3. ASSUME NEW name \in Name, f_unlink(name)
      PROVE  StaysInPlace
  <2> DEFINE r == deleteFileFromFAT(fs, name)
             c == Saved(r, fds)
  <2>1. \A k : Keeps(fs, r.fs, k)
    BY <1>0, DeleteFileKeeps
  <2>2. FsOK(r.fs)
    BY <1>0, DeleteFileOK
  <2>3. SameSizes(fs, r.fs)
    BY <1>0, DeleteSizes
  <2>4. Commit(c, prog, shell)
    BY <1>3 DEF f_unlink
  <2> HIDE DEF r
  <2>5. Fine(c) /\ InPlace(fs, fds, c)
    BY <2>1, <2>2, <2>3, SavedSure
  <2> HIDE DEF c
  <2> QED BY <2>4, <2>5, CommitInPlace DEF StaysInPlace
<1>4. ASSUME NEW old \in Name, NEW new \in Name, f_mv(old, new)
      PROVE  StaysInPlace
  <2> DEFINE r == renameFile(fs, old, new)
             c == Saved(r, fds)
  <2>1. \A k : Keeps(fs, r.fs, k)
    BY <1>0, RenameKeeps
  <2>2. FsOK(r.fs) \/ "mv_over_readonly" \in r.fs.damage
    BY <1>0, RenameFileOK
  <2>3. SameSizes(fs, r.fs)
    BY <1>0, RenameSizes
  <2>4. Commit(c, prog, shell)
    BY <1>4 DEF f_mv
  <2> HIDE DEF r
  <2>5. Fine(c) /\ InPlace(fs, fds, c)
    BY <2>1, <2>2, <2>3, SavedSure
  <2> HIDE DEF c
  <2> QED BY <2>4, <2>5, CommitInPlace DEF StaysInPlace
<1>5. ASSUME NEW g \in Granted, f_chmod(g[1], g[2])
      PROVE  StaysInPlace
  <2> DEFINE r == chmodFile(fs, g[1], g[2])
             c == Saved(r, fds)
  <2>0. g[2] \in Perms
    BY DescriptorAssumption
  <2>1. \A k : Keeps(fs, r.fs, k)
    BY <1>0, <2>0, ChmodKeeps
  <2>2. FsOK(r.fs)
    BY <1>0, ChmodFileOK
  <2>3. SameSizes(fs, r.fs)
    BY <1>0, <2>0, ChmodSizes
  <2>4. Commit(c, prog, shell)
    BY <1>5 DEF f_chmod
  <2> HIDE DEF r
  <2>5. Fine(c) /\ InPlace(fs, fds, c)
    BY <2>1, <2>2, <2>3, SavedSure
  <2> HIDE DEF c
  <2> QED BY <2>4, <2>5, CommitInPlace DEF StaysInPlace
<1>6. CASE Interrupt
  <2>1. PICK c : c = Call(TRUE, fs, fds)
    OBVIOUS
  <2>2. Sure(c)
    BY <2>1, NoCallSure
  <2>3. Ends(fore, c)
    BY <1>6, <2>1 DEF Interrupt
  <2> QED BY <2>2, <2>3, EndsInPlace
<1>7. CASE Restart
  BY <1>7, RestartInPlace
<1>8. CASE UNCHANGED vars
  BY <1>8, UnchangedInPlace DEF vars
<1> QED BY <1>1, <1>2, <1>3, <1>4, <1>5, <1>6, <1>7, <1>8 DEF Next

\* What is written goes behind what the same descriptor has written before: the bytes
\* in front of its position stay, whoever else writes, creates, removes and renames
\* files between its calls (filedescriptor.c:270, file.c:439).
THEOREM WrittenInPlace ==
  ASSUME NumbersKept, EofIsNoBlock, Unharmed, MountedSound
  PROVE  Spec => WritesInPlace
<1>1. Init => Within(fs, fds)
  <2>1. DOMAIN <<>> = {}
    OBVIOUS
  <2> QED BY <2>1 DEF Init, First, Within
<1>2. IInv /\ TypeInv /\ Within(fs, fds) /\ [Next]_vars => Within(fs, fds)'
  <2> SUFFICES ASSUME SureState, [Next]_vars PROVE Within(fs', fds')
    BY DEF SureState
  <2>1. StepInPlace(fs, fds, fs', fds')
    BY NextInPlace DEF StaysInPlace
  <2> QED BY <2>1 DEF StepInPlace
<1>3. IInv /\ TypeInv /\ Within(fs, fds) /\ [Next]_vars
        => [\A i \in Writers(fds) :
              LET n == fds[i]
                  j == Node(fds', n.id)
                  before == Bytes(fs, fs.dir[EntryOf(fs, n)])
                  after  == Bytes(fs', fs'.dir[EntryOf(fs', n)])
              IN  j # 0 /\ fds'[j].pos > n.pos
                    => IsPrefix(SubSeq(before, 1, n.pos), after)]_<<fs, fds>>
  <2> SUFFICES ASSUME SureState, [Next]_vars, NEW i \in Writers(fds),
                      Node(fds', fds[i].id) # 0,
                      fds'[Node(fds', fds[i].id)].pos > fds[i].pos
               PROVE  IsPrefix(SubSeq(Bytes(fs, fs.dir[EntryOf(fs, fds[i])]), 1, fds[i].pos),
                               Bytes(fs', fs'.dir[EntryOf(fs', fds[i])]))
    BY DEF SureState
  <2>1. StepInPlace(fs, fds, fs', fds')
    BY NextInPlace DEF StaysInPlace
  <2>2. KeepsFront(fs, fs', fds[i])
    BY <2>1 DEF StepInPlace
  <2> QED BY <2>2 DEF KeepsFront, Text
<1> QED BY <1>1, <1>2, <1>3, TypesKept, PTL DEF Spec, WritesInPlace
=============================================================================
