------------------------------- MODULE Pennfat -------------------------------
(***************************************************************************)
(* The stand-alone program pennfat (pennfat.c, pennfathandler.c): a loop   *)
(* that reads a command and runs it to its end, on the file system that is *)
(* mounted, if any.  Each command is one action, the saveFat at its end    *)
(* included; a command that fails on the way returns without it, and so    *)
(* does the end of the program.                                            *)
(***************************************************************************)
EXTENDS Fat

CONSTANTS
  NoFile,
  Texts,      \* lines typed and files of the host
  Lists,      \* names given to touch, rm and cat
  Granted     \* permissions given by chmod

ASSUME PennfatAssumption ==
  /\ Texts \subseteq Seq(Byte) /\ Lists \subseteq Seq(Name) \ {<<>>}
  /\ Granted \subseteq Perms /\ Addr # {}
  /\ {<<name>> : name \in Name} \subseteq Lists
  /\ NoFile \notin [bytes: Seq(Byte \cup {Junk}), perm: Perms]

VARIABLES
  fs,         \* the file system, in memory and in the host file
  mounted,
  user        \* what the user sees: a function of the other two

vars == <<fs, mounted, user>>

\* The directory as it is, or will be after the next mount.
Directory(f, m) == IF m THEN f.dir ELSE f.disk

\* A file by name, as cat and ls show it.
Contents(f, m) ==
  LET dir == Directory(f, m)
      named(name) == {i \in DOMAIN dir : dir[i].name = name}
  IN  [name \in Name |->
         IF named(name) = {} THEN NoFile
         ELSE LET e == dir[Min(named(name))] IN [bytes |-> Bytes(f, e), perm |-> e.perm]]

Init == fs = NewFat /\ mounted = TRUE /\ user = Contents(fs, mounted)

\* Entries of pennfat are told apart by their names alone.
At == CHOOSE a \in Addr : TRUE

write(f, name, bytes, appending) == writeFileToFAT(f, name, bytes, 0, appending, At)

\* A command on the mounted file system; one that fails has not been saved.
Run(r) ==
  /\ mounted
  /\ fs' = Settle(Unsaved(IF r.ok THEN saveFat(r.fs) ELSE r.fs))
  /\ UNCHANGED mounted

\* What f makes of the file system for one element of list after the other, up to
\* the first that fails.
InTurn(f(_, _), list) ==
  FoldLeft(LAMBDA r, x : IF r.ok THEN f(r.fs, x) ELSE r, Done(fs), list)

handleTouchCommand(names) == Run(InTurn(LAMBDA f, name : write(f, name, <<>>, TRUE), names))

handleMoveCommand(old, new) == Run(renameFile(fs, old, new))

handleRemoveCommand(names) == Run(InTurn(deleteFileFromFAT, names))

\* cat -w or -a: of a line ...
CatLine(text, appending, name) == Run(write(fs, name, text, appending))

\* Mutant: each source is read just before it is written.
CatFiles_Late(sources, appending, name) ==
  LET part == [i \in DOMAIN sources |-> [source |-> sources[i],
                                         append |-> appending \/ i > 1]]
      Copied(f, p) ==
        IF Readable(f, p.source) THEN write(f, name, readFileFromFAT(f, p.source), p.append)
        ELSE Failed(f)
  IN  Run(InTurn(Copied, part))

\* ... or of files, all of which are read before the first is written.
CatFiles(sources, appending, name) ==
  LET part == [i \in DOMAIN sources |-> [bytes |-> readFileFromFAT(fs, sources[i]),
                                         append |-> appending \/ i > 1]]
  IN  Run(IF \A i \in DOMAIN sources : Readable(fs, sources[i])
            THEN InTurn(LAMBDA f, p : write(f, name, p.bytes, p.append), part)
            ELSE Failed(fs))

\* cp -h: an empty file is written twice.
CopyFromHost(text, name) ==
  LET f == write(fs, name, <<>>, FALSE)
  IN  Run(IF text # <<>> THEN write(fs, name, text, FALSE)
          ELSE IF f.ok THEN write(f.fs, name, <<>>, FALSE) ELSE f)

CopyFile(source, name) ==
  Run(IF Readable(fs, source) THEN write(fs, name, readFileFromFAT(fs, source), FALSE)
      ELSE Failed(fs))

\* A permission it does not know is taken for none.
handleChmodCommand(name, perm) == Run(chmodFile(fs, name, perm))

\* The host file is truncated; a size that is not allowed only frees the old one.
handleMakeFsCommand(valid) ==
  /\ fs' = IF valid THEN NewFat ELSE IF mounted THEN Settle(freeFat(fs)) ELSE fs
  /\ mounted' = valid

\* A mounted file system is freed, not saved.
handleMountCommand ==
  LET f == IF mounted THEN freeFat(fs) ELSE fs
  IN  /\ f.damage \subseteq Situations
      /\ fs' = Settle(IF Loadable(f) THEN loadFat(f) ELSE f)
      /\ mounted' = Loadable(f)

handleUnmountCommand ==
  /\ mounted
  /\ fs' = Settle(freeFat(saveFat(fs)))
  /\ mounted' = FALSE

\* ^D: exitGracefully frees without a save.
Quit ==
  /\ mounted
  /\ fs' = Settle(freeFat(fs))
  /\ mounted' = FALSE

Command ==
  \/ \E names \in Lists : handleTouchCommand(names)
  \/ \E old, new \in Name : handleMoveCommand(old, new)
  \/ \E names \in Lists : handleRemoveCommand(names)
  \/ \E text \in Texts, appending \in BOOLEAN, name \in Name : CatLine(text, appending, name)
  \/ \E sources \in Lists, appending \in BOOLEAN, name \in Name :
       CatFiles(sources, appending, name)
  \/ \E text \in Texts, name \in Name : CopyFromHost(text, name)
  \/ \E source, name \in Name : CopyFile(source, name)
  \/ \E name \in Name, perm \in Granted : handleChmodCommand(name, perm)
  \/ \E valid \in BOOLEAN : handleMakeFsCommand(valid)
  \/ handleMountCommand
  \/ handleUnmountCommand
  \/ Quit

\* The user keeps clear of the situations that are not allowed.
Next == Command /\ fs'.damage \subseteq Situations /\ user' = Contents(fs', mounted')

Spec == Init /\ [][Next]_vars

-----------------------------------------------------------------------------
TypeOK == IsFileSystem(fs) /\ mounted \in BOOLEAN /\ user = Contents(fs, mounted)

\* Whatever commands are run, fail and are cut short by an umount or the end of
\* the program, a file's chain fits its size and ends: getBytes (file.c:154)
\* follows it without looking.
ChainsWhole == WholeChains(fs, Directory(fs, mounted))

\* No block belongs to two files, or to a file and the directory, also when a
\* command failed half way and the next one saved what it had done.
ChainsDisjoint == DisjointChains(fs, Directory(fs, mounted))

\* No block in use is out of reach of the directory: what a command frees, takes
\* and then gives up is not lost.
NoLostBlocks == NothingLost(fs, Directory(fs, mounted))

\* The count that file.c:390 tests never promises more blocks than there are.
NeverOvercommits == mounted => CountIsSafe(fs)

F == INSTANCE Files WITH files <- user

\* pennfat keeps files: every byte read is the one last written there, through
\* all reuse of blocks, failures half way, umount and mount.
IsFiles == F!Spec
=============================================================================
