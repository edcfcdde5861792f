--------------------------- MODULE FileDescriptors ---------------------------
(***************************************************************************)
(* Open files (filedescriptor.c) and those who use them: the programs cat, *)
(* touch, cp, rm, mv and chmod of shell.c, which run as processes of       *)
(* PennOS, and the shell, which opens the files a command line redirects   *)
(* to, hands their numbers to the program and closes them (iter.c).  A     *)
(* tick may come between any two calls, so that each call is one action.   *)
(*                                                                         *)
(* Of a program only its calls are modelled, of a command line only what   *)
(* leads to calls.  A step into a situation that is not in Situations is   *)
(* not followed: the user starts again with the first file system.         *)
(***************************************************************************)
EXTENDS Fat

CONSTANTS
  Proc,
  fore,        \* the one in the foreground
  None,        \* no file
  Mounted,     \* the file system PennOS is started with
  Lines,       \* command lines
  Granted,     \* files and permissions given to chmod
  BufSize,     \* what cat reads at once of a file it opens
  StdinSize,   \* ... and of its standard input
  MaxId        \* bound on the numbers of descriptors

VARIABLES
  fs,
  fds,         \* the list of descriptors, first to last
  prog,        \* what each process is about to do
  shell

vars == <<fs, fds, prog, shell>>

Mode == {"read", "write", "append"}

\* stale: its next pointer leads to a node that was freed.
Fd == [id: Nat, mode: Mode, pos: Nat, at: Addr, stale: BOOLEAN]

\* A number somebody uses, and the entry it was opened for.
Held     == [id: Nat, of: Addr]
Terminal == [id |-> 1, of |-> None]

\* builtin: a command that the shell runs itself.
Line == [cmd: {"cat", "touch", "cp", "builtin", "unknown"}, names: Seq(Name), in: Name \cup {None},
         out: Name \cup {None}, mode: {"write", "append"}, background: BOOLEAN]

Program == [cmd: {"cat", "touch", "cp", "none"},
            at: {"open", "seek", "read", "write", "close", "abort", "create", "finish", "end"},
            names: Seq(Name), in: Held \cup {None}, out: Held \cup {Terminal},
            buf: Seq(Byte \cup {Junk})]

ASSUME DescriptorAssumption ==
  /\ fore \in Proc
  /\ IsFileSystem(Mounted) /\ Mounted.damage = {} /\ Mounted.disk = Mounted.dir
  /\ \A i, j \in DOMAIN Mounted.dir :
       \/ Mounted.dir[i].name = Mounted.dir[j].name
       \/ Mounted.dir[i].at = Mounted.dir[j].at
       => i = j
  /\ IsFiniteSet(Name) /\ IsFiniteSet(Addr) /\ Cardinality(Addr) >= Cardinality(Name)
  /\ Granted \subseteq Name \X Perms
  /\ Lines \subseteq Line
  /\ \A line \in Lines :
       /\ line.cmd = "cp" => Len(line.names) = 2
       /\ line.cmd = "touch" => line.names # <<>>
       /\ line.cmd = "cat" => line.names # <<>> \/ line.in # None
  /\ BufSize \in Nat \ {0} /\ StdinSize \in Nat \ {0} /\ MaxId \in Nat
  /\ None \notin Name \cup Addr \cup Held \cup {Terminal}

\* No line is being run.
Idle == [at |-> "prompt", line |-> None, in |-> None, out |-> Terminal]

\* A process without a program.
NoProgram == [cmd |-> "none", at |-> "end", names |-> <<>>, in |-> None, out |-> Terminal,
              buf |-> <<>>]

\* malloc gives a new entry an address that no entry has.
NewAddr(f) == CHOOSE at \in Addr : at \notin Ats(f.dir)

First == [fs |-> Mounted, fds |-> <<>>, prog |-> [p \in Proc |-> NoProgram], shell |-> Idle]

Init == fs = First.fs /\ fds = First.fds /\ prog = First.prog /\ shell = First.shell

-----------------------------------------------------------------------------
(***************************************************************************)
(* filedescriptor.c.  A call takes and returns the file system and the     *)
(* list of descriptors, and whether it succeeded; open returns a number    *)
(* too, read the bytes.                                                    *)
(***************************************************************************)
Call(ok, f, d) == [ok |-> ok, fs |-> f, fds |-> d]

\* findFdNodeWithId, or 0.
Node(d, id) == FirstOf({i \in DOMAIN d : d[i].id = id})

\* The entry a descriptor points to.
EntryOf(f, n) == FirstOf({i \in DOMAIN f.dir : f.dir[i].at = n.at})
NameOf(f, n)  == f.dir[EntryOf(f, n)].name

Writers(d) == {i \in DOMAIN d : d[i].mode \in {"write", "append"}}

\* findWritingFdNodeWithFileName.
OpenForWriting(f, d, name) == \E i \in Writers(d) : NameOf(f, d[i]) = name

\* f after a search that found nothing: it has gone beyond the last descriptor.
Searched(f, d) ==
  [f EXCEPT !.damage = @ \cup Flag("freed_node", d # <<>> /\ Last(d).stale)]

\* Mutant: numbered by position.
NextId_Length(d) == Len(d) + 3

\* The number behind that of the last descriptor.
NextId(d) == IF d = <<>> THEN 3 ELSE Last(d).id + 1

\* newFileDescriptorNode, for entry e.
Opened(f, d, mode, e) ==
  [ok |-> TRUE,
   fs |-> [f EXCEPT !.damage = @ \cup Flag("numbers_used_up", NextId(d) > MaxId)],
   fds |-> Append([i \in DOMAIN d |-> [d[i] EXCEPT !.stale = FALSE]],
                  [id |-> NextId(d), mode |-> mode, at |-> e.at, stale |-> FALSE,
                   pos |-> IF mode = "append" THEN e.size ELSE 0]),
   held |-> [id |-> NextId(d), of |-> e.at]]

\* The file that a call of writeFileToFAT has just created.
OpenedNew(made, d, name, mode) ==
  IF made.ok THEN Opened(made.fs, d, mode, made.fs.dir[Find(made.fs, name)])
  ELSE Call(FALSE, made.fs, d)

\* Mutant: a file that is open for writing may be opened so again.
f_open_Again(f, d, name, mode) ==
  IF Find(f, name) # 0 THEN Opened(f, d, mode, f.dir[Find(f, name)])
  ELSE IF mode = "read" THEN Call(FALSE, f, d)
  ELSE OpenedNew(writeFileToFAT(f, name, <<>>, 0, FALSE, NewAddr(f)), d, name, mode)

\* A file that is opened to be written is created if it is missing; one that is
\* there is not truncated in either mode: F_WRITE is 0, and the branch that
\* would do so is never taken.
f_open(f, d, name, mode) ==
  LET searched == IF mode = "read" THEN f ELSE Searched(f, d)
  IN  IF mode # "read" /\ OpenForWriting(f, d, name) THEN Call(FALSE, f, d)
      ELSE IF Find(f, name) # 0 THEN Opened(searched, d, mode, f.dir[Find(f, name)])
      ELSE IF mode = "read" THEN Call(FALSE, f, d)
      ELSE OpenedNew(writeFileToFAT(searched, name, <<>>, 0, FALSE, NewAddr(f)), d, name, mode)

\* Mutant: the position stays.
f_read_Still(f, d, id, n) ==
  LET i == Node(d, id)
      bytes == readFileFromFAT(f, NameOf(f, d[i]))
      rest == SubSeq(bytes, d[i].pos + 1, Min({Len(bytes), d[i].pos + n}))
  IN  IF i = 0 THEN Call(FALSE, Searched(f, d), d)
      ELSE IF ~Readable(f, NameOf(f, d[i])) THEN Call(FALSE, f, d)
      ELSE [ok |-> TRUE, fs |-> f, fds |-> d, bytes |-> rest]

\* Up to n bytes, none at the end of the file.
f_read(f, d, id, n) ==
  LET i == Node(d, id)
      bytes == readFileFromFAT(f, NameOf(f, d[i]))
      rest == SubSeq(bytes, d[i].pos + 1, Min({Len(bytes), d[i].pos + n}))
  IN  IF i = 0 THEN Call(FALSE, Searched(f, d), d)
      ELSE IF ~Readable(f, NameOf(f, d[i])) THEN Call(FALSE, f, d)
      ELSE [ok |-> TRUE, fs |-> f, fds |-> [d EXCEPT ![i].pos = @ + Len(rest)], bytes |-> rest]

\* Descriptor i after w, a call of writeFileToFAT.
Moved(w, d, i, bytes) ==
  IF ~w.ok THEN Call(FALSE, w.fs, d)
  ELSE Call(TRUE, w.fs,
            [d EXCEPT ![i].pos = IF d[i].mode = "write" THEN @ + Len(bytes)
                                 ELSE w.fs.dir[EntryOf(w.fs, d[i])].size])

\* Mutant: always at the start.
f_write_Start(f, d, id, bytes) ==
  LET i == Node(d, id)
  IN  IF id = Terminal.id THEN Call(TRUE, f, d)
      ELSE IF i = 0 \/ d[i].mode = "read" THEN Call(FALSE, f, d)
      ELSE Moved(writeFileToFAT(f, NameOf(f, d[i]), bytes, 0, d[i].mode = "append", None),
                 d, i, bytes)

\* At the position or at the end, by the mode.  A file written at a position
\* must be readable too.  What goes to the terminal changes nothing here.
f_write(f, d, id, bytes) ==
  LET i == Node(d, id)
      n == d[i]
      name == NameOf(f, n)
  IN  IF id = Terminal.id THEN Call(TRUE, f, d)
      ELSE IF i = 0 THEN Call(FALSE, Searched(f, d), d)
      ELSE IF n.mode = "read" \/ (n.mode = "write" /\ ~Readable(f, name))
        THEN Call(FALSE, f, d)
      ELSE Moved(writeFileToFAT(f, name, bytes, IF n.mode = "write" THEN n.pos ELSE 0,
                                n.mode = "append", None),
                 d, i, bytes)

\* Every close saves the directory, with what all others have written so far.  Of
\* the last descriptor, the one before it keeps the pointer.
f_close(f, d, id) ==
  LET i == Node(d, id)
  IN  IF i = 0 THEN Call(FALSE, Searched(f, d), d)
      ELSE Call(TRUE, saveFat(f),
                RemoveAt(IF i = Len(d) /\ i > 1 THEN [d EXCEPT ![i - 1].stale = TRUE]
                         ELSE d, i))

\* f_mv, f_unlink and f_chmod: the directory is saved if they succeed.  Descriptors
\* of an entry that is freed here keep the pointer to it.
Saved(r, d) ==
  LET f == [r.fs EXCEPT !.damage = @ \cup
              Flag("unlink_open", \E i \in DOMAIN d : d[i].at \notin Ats(r.fs.dir))]
  IN  Call(r.ok, IF r.ok THEN saveFat(f) ELSE f, d)

\* f_lseek to the end.
f_lseek(f, d, id) ==
  LET i == Node(d, id)
  IN  Call(TRUE, f, [d EXCEPT ![i].pos = f.dir[EntryOf(f, d[i])].size])

-----------------------------------------------------------------------------
(***************************************************************************)
(* One call of a program or of the shell, and what both do next.           *)
(***************************************************************************)
Follow(s) == fs' = s.fs /\ fds' = s.fds /\ prog' = s.prog /\ shell' = s.shell

Commit(c, programs, sh) ==
  \E r \in {c} :
    Follow(IF r.fs.damage \subseteq Situations
             THEN [fs |-> Settle(Unsaved(r.fs)), fds |-> r.fds, prog |-> programs, shell |-> sh]
           ELSE First)

\* c, with a situation to add.
Marked(c, situation, holds) ==
  [c EXCEPT !.fs.damage = @ \cup Flag(situation, holds)]

\* Program p goes on as q.
Goes(p, c, q) == Commit(c, [prog EXCEPT ![p] = q], shell)

\* It ends.  What it has opened and not closed stays open for good.
Ends(p, c) ==
  LET own == {prog[p].in, prog[p].out} \ {None, Terminal, shell.in, shell.out}
  IN  Goes(p, Marked(c, "left_open", \E h \in own : Node(c.fds, h.id) # 0), NoProgram)

At(p, commands, place) == prog[p].cmd \in commands /\ prog[p].at = place

-----------------------------------------------------------------------------
(***************************************************************************)
(* cat, touch and cp.  A program that returns early leaves open what it    *)
(* has opened.                                                             *)
(***************************************************************************)
\* cat and cp open a file to read.
OpensSource(p) ==
  LET q == prog[p]
  IN  /\ At(p, {"cat", "cp"}, "open")
      /\ \E c \in {f_open(fs, fds, Head(q.names), "read")} :
           IF ~c.ok THEN Ends(p, c)
           ELSE Goes(p, c, [q EXCEPT !.in = c.held, !.at = IF q.cmd = "cat" THEN "read" ELSE "seek"])

\* At the end of its standard input cat ends, at that of a file it closes it.
CatReads(p) ==
  LET q == prog[p]
      own == q.names # <<>>
  IN  /\ At(p, {"cat"}, "read")
      /\ \E c \in {f_read(fs, fds, q.in.id, IF own THEN BufSize ELSE StdinSize)} :
           IF ~c.ok \/ (c.bytes = <<>> /\ ~own) THEN Ends(p, c)
           ELSE Goes(p, c, [q EXCEPT !.at = IF c.bytes = <<>> THEN "close" ELSE "write",
                                     !.buf = c.bytes])

CatWrites(p) ==
  LET q == prog[p]
  IN  /\ At(p, {"cat"}, "write")
      /\ \E c \in {f_write(fs, fds, q.out.id, q.buf)} :
           IF c.ok THEN Goes(p, c, [q EXCEPT !.at = "read", !.buf = <<>>]) ELSE Ends(p, c)

\* cat and touch close a file and go on with the next.
ClosesOne(p) ==
  LET q == prog[p]
      own == IF q.cmd = "cat" THEN q.in ELSE q.out
      next == [q EXCEPT !.names = Tail(@), !.at = "open"]
  IN  /\ At(p, {"cat", "touch"}, "close")
      /\ \E c \in {f_close(fs, fds, own.id)} :
           IF ~c.ok \/ next.names = <<>> THEN Ends(p, c)
           ELSE Goes(p, c, IF q.cmd = "cat" THEN [next EXCEPT !.in = None]
                           ELSE [next EXCEPT !.out = Terminal])

TouchOpens(p) ==
  LET q == prog[p]
  IN  /\ At(p, {"touch"}, "open")
      /\ \E c \in {f_open(fs, fds, Head(q.names), "append")} :
           IF c.ok THEN Goes(p, c, [q EXCEPT !.out = c.held, !.at = "write"]) ELSE Ends(p, c)

TouchWrites(p) ==
  /\ At(p, {"touch"}, "write")
  /\ \E c \in {f_write(fs, fds, prog[p].out.id, <<>>)} :
       IF c.ok THEN Goes(p, c, [prog[p] EXCEPT !.at = "close"]) ELSE Ends(p, c)

\* A buffer of the size found now, uninitialized.
CopySeeks(p) ==
  LET q == prog[p]
  IN  /\ At(p, {"cp"}, "seek")
      /\ \E c \in {f_lseek(fs, fds, q.in.id)} :
           Goes(p, c, [q EXCEPT !.at = "read",
                                !.buf = [i \in 1..c.fds[Node(fds, q.in.id)].pos |-> Junk]])

\* It reads from the end on, where there is something only if the file has grown
\* since.  What is read a second time is put behind what was read first and may
\* not fit.
CopyReads(p) ==
  LET q == prog[p]
      again == \E i \in DOMAIN q.buf : q.buf[i] # Junk
  IN  /\ At(p, {"cp"}, "read")
      /\ \E c \in {f_read(fs, fds, q.in.id, Len(q.buf))} :
           IF ~c.ok THEN Goes(p, c, [q EXCEPT !.at = "abort", !.buf = <<>>])
           ELSE IF c.bytes = <<>> THEN Goes(p, c, [q EXCEPT !.at = "close"])
           ELSE Goes(p, Marked(c, "read_twice", again),
                     [q EXCEPT !.buf = c.bytes \o SubSeq(@, Len(c.bytes) + 1, Len(@))])

\* Mutant: the source is not closed.
CopyCloses_Forgets(p) ==
  LET q == prog[p]
  IN  \/ At(p, {"cp"}, "abort") /\ Ends(p, f_close(fs, fds, q.in.id))
      \/ /\ At(p, {"cp"}, "close")
         /\ Goes(p, Call(TRUE, fs, fds), [q EXCEPT !.at = "create", !.in = None])

CopyCloses(p) ==
  LET q == prog[p]
  IN  \/ At(p, {"cp"}, "abort") /\ Ends(p, f_close(fs, fds, q.in.id))
      \/ /\ At(p, {"cp"}, "close")
         /\ \E c \in {f_close(fs, fds, q.in.id)} :
              IF c.ok THEN Goes(p, c, [q EXCEPT !.at = "create", !.in = None]) ELSE Ends(p, c)

CopyCreates(p) ==
  LET q == prog[p]
  IN  /\ At(p, {"cp"}, "create")
      /\ \E c \in {f_open(fs, fds, q.names[2], "write")} :
           IF c.ok THEN Goes(p, c, [q EXCEPT !.out = c.held, !.at = "write"]) ELSE Ends(p, c)

\* The copy is closed whether it could be written or not.
CopyWrites(p) ==
  LET q == prog[p]
  IN  /\ At(p, {"cp"}, "write")
      /\ Goes(p, f_write(fs, fds, q.out.id, q.buf), [q EXCEPT !.at = "finish", !.buf = <<>>])

CopyFinishes(p) == At(p, {"cp"}, "finish") /\ Ends(p, f_close(fs, fds, prog[p].out.id))

Step(p) ==
  \/ OpensSource(p) \/ CatReads(p) \/ CatWrites(p) \/ ClosesOne(p)
  \/ TouchOpens(p) \/ TouchWrites(p)
  \/ CopySeeks(p) \/ CopyReads(p) \/ CopyCloses(p)
  \/ CopyCreates(p) \/ CopyWrites(p) \/ CopyFinishes(p)

\* rm, mv and chmod of a file are one call each.
f_unlink(name) == Commit(Saved(deleteFileFromFAT(fs, name), fds), prog, shell)
f_mv(old, new) == Commit(Saved(renameFile(fs, old, new), fds), prog, shell)
f_chmod(name, perm) == Commit(Saved(chmodFile(fs, name, perm), fds), prog, shell)

-----------------------------------------------------------------------------
(***************************************************************************)
(* The shell: one command line (iter.c).                                   *)
(***************************************************************************)
Stages == <<"in", "out", "spawn", "wait", "close_out", "close_in", "prompt">>

\* Shell s goes on at the first stage from number i on that its line needs.
GoOn(s, i) ==
  LET needed(at) ==
        CASE at = "in" -> s.line.in # None
          [] at = "out" -> s.line.out # None
          [] at = "wait" -> ~s.line.background
          [] at = "close_out" -> s.out # Terminal
          [] at = "close_in" -> s.in # None
          [] OTHER -> TRUE
      at == Stages[Min({j \in i..Len(Stages) : needed(Stages[j])})]
  IN  IF at = "prompt" THEN Idle ELSE [s EXCEPT !.at = at]

\* A line that is typed is started on at once.
Started ==
  IF shell.at = "prompt" THEN {GoOn([Idle EXCEPT !.line = line], 1) : line \in Lines}
  ELSE {shell}

\* The shell ends, and PennOS with it; the directory is not saved.  It is started
\* again, if the file system can still be mounted.
Restart ==
  LET f == freeFat(fs)
      g == loadFat(f)
  IN  Follow(IF f.damage \subseteq Situations /\ Loadable(f) /\ g.damage \subseteq Situations
               THEN [First EXCEPT !.fs = Settle(g)] ELSE First)

\* A redirection that cannot be opened ends the shell.
OpenIn(s) ==
  /\ s.at = "in"
  /\ \E c \in {f_open(fs, fds, s.line.in, "read")} :
       IF c.ok THEN Commit(c, prog, GoOn([s EXCEPT !.in = c.held], 2)) ELSE Restart

OpenOut(s) ==
  /\ s.at = "out"
  /\ \E c \in {f_open(fs, fds, s.line.out, s.line.mode)} :
       IF c.ok THEN Commit(c, prog, GoOn([s EXCEPT !.out = c.held], 3)) ELSE Restart

\* A process takes over the line and the numbers; the descriptors stay those of all.
Spawn(s) ==
  LET line == s.line
      free == {p \in IF line.background THEN Proc \ {fore} ELSE {fore} : prog[p] = NoProgram}
      at == IF line.names = <<>> THEN "read" ELSE "open"
  IN  /\ s.at = "spawn" /\ line.cmd \in {"cat", "touch", "cp"} /\ free # {}
      /\ prog' = [prog EXCEPT ![CHOOSE p \in free : TRUE] =
                    [cmd |-> line.cmd, names |-> line.names, in |-> s.in, out |-> s.out,
                     buf |-> <<>>, at |-> at]]
      /\ shell' = GoOn(s, 4)
      /\ UNCHANGED <<fs, fds>>

\* No process takes part in a command of the shell itself.
RunBuiltin(s) ==
  /\ s.at = "spawn" /\ s.line.cmd = "builtin"
  /\ shell' = GoOn(s, 5)
  /\ UNCHANGED <<fs, fds, prog>>

\* iter returns, before it has closed the files redirected to.
GiveUp(s) ==
  /\ s.at = "spawn" /\ s.line.cmd = "unknown"
  /\ Commit(Marked(Call(TRUE, fs, fds), "left_open", s.in # None \/ s.out # Terminal),
            prog, Idle)

Waited ==
  /\ shell.at = "wait" /\ prog[fore] = NoProgram
  /\ shell' = GoOn(shell, 5)
  /\ UNCHANGED <<fs, fds, prog>>

\* ^C kills the program the shell waits for; nobody closes its files.
Interrupt ==
  /\ shell.at = "wait" /\ prog[fore] # NoProgram
  /\ Ends(fore, Call(TRUE, fs, fds))

\* The files redirected to are closed, even if a program still uses them.
CloseRedirected(h, next) ==
  LET used == \E p \in Proc : h \in {prog[p].in, prog[p].out}
  IN  \E c \in {f_close(fs, fds, h.id)} :
        IF c.ok THEN Commit(Marked(c, "closed_behind", used), prog, next) ELSE Restart

CloseOut ==
  shell.at = "close_out" /\ CloseRedirected(shell.out, GoOn([shell EXCEPT !.out = Terminal], 6))

CloseIn == shell.at = "close_in" /\ CloseRedirected(shell.in, Idle)

ShellStep ==
  \/ \E s \in Started : OpenIn(s) \/ OpenOut(s) \/ Spawn(s) \/ RunBuiltin(s) \/ GiveUp(s)
  \/ Waited \/ CloseOut \/ CloseIn

Next ==
  \/ \E p \in Proc : Step(p)
  \/ ShellStep
  \/ \E name \in Name : f_unlink(name)
  \/ \E old, new \in Name : f_mv(old, new)
  \/ \E g \in Granted : f_chmod(g[1], g[2])
  \/ Interrupt
  \/ Restart

Spec == Init /\ [][Next]_vars

\* The scheduler runs every process that is ready again and again (BoundedWait of
\* RoundRobin).
FairSpec == Spec /\ \A p \in Proc : WF_vars(Step(p))

-----------------------------------------------------------------------------
TypeOK ==
  /\ IsFileSystem(fs) /\ fds \in Seq(Fd)
  /\ prog \in [Proc -> Program]
  /\ shell \in [at : Range(Stages), line : Lines \cup {None}, in : Held \cup {None},
                 out : Held \cup {Terminal}]

\* The numbers of programs and shell.
HeldNumbers ==
  (UNION {{q.in, q.out} : q \in {prog[p] : p \in Proc} \cup {shell}}) \ {None, Terminal}

\* A number that a program or the shell has been given is open and leads to the
\* file it was opened for, although all share one list and numbers are used
\* again (filedescriptor.c:44, :56).
OwnFile ==
  \A h \in HeldNumbers : Node(fds, h.id) # 0 /\ fds[Node(fds, h.id)].at = h.of

\* A file is open for writing at most once, whoever opens and renames it in which
\* order: f_open looks for its name, the descriptors know its entry.
OneWriter ==
  \A i, j \in Writers(fds) : fds[i].at = fds[j].at => i = j

\* Every descriptor belongs to a program or the shell, which can still close
\* it: a file left open for writing could not be opened for it again before
\* the next start (filedescriptor.c:144).
NoneLeftOpen == {fds[i].id : i \in DOMAIN fds} \subseteq {h.id : h \in HeldNumbers}

\* What is written goes behind what the same descriptor has written before: the
\* bytes in front of its position stay (filedescriptor.c:270, file.c:439).
WritesInPlace ==
  [][\A i \in Writers(fds) :
       LET n == fds[i]
           j == Node(fds', n.id)
           before == Bytes(fs, fs.dir[EntryOf(fs, n)])
           after  == Bytes(fs', fs'.dir[EntryOf(fs', n)])
       IN  j # 0 /\ fds'[j].pos > n.pos
             => IsPrefix(SubSeq(before, 1, n.pos), after)]_<<fs, fds>>

\* A program comes to its end, also one that appends to the file it reads, until
\* the file system is full.
ProgramsEnd == \A p \in Proc : prog[p] # NoProgram ~> prog[p] = NoProgram
=============================================================================
