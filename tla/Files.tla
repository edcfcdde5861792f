-------------------------------- MODULE Files --------------------------------
(***************************************************************************)
(* What pennfat promises its user: files by name, with bytes and           *)
(* permissions, in a file system that is there whether mounted or not.     *)
(* How large it is and when a command finds no room is left open: a        *)
(* command may fail at any of its files, with those before it done.        *)
(***************************************************************************)
EXTENDS Sequences, SequencesExt

CONSTANTS
  Name, Byte, NoFile,
  Texts,    \* lines typed and files of the host
  Lists     \* names given to touch, rm and cat

VARIABLE files    \* each name's file, or NoFile

Perms == SUBSET {"r", "w"}

Exists(name)  == files[name] # NoFile
CanRead(name)  == Exists(name) /\ "r" \in files[name].perm
CanWrite(name) == Exists(name) => "w" \in files[name].perm

BytesOf(name) == IF Exists(name) THEN files[name].bytes ELSE <<>>

\* The file name after its bytes have become bytes.
Holding(name, bytes) ==
  [files EXCEPT ![name] = [bytes |-> bytes,
                           perm |-> IF Exists(name) THEN @.perm ELSE {"r", "w"}]]

Init == files = [name \in Name |-> NoFile]

\* mkfs.
Make == files' = [name \in Name |-> NoFile]

\* touch: the files that are not there yet, up to where it fails.
Touch(names) ==
  files' = [name \in Name |-> IF name \in names /\ ~Exists(name)
                                THEN [bytes |-> <<>>, perm |-> {"r", "w"}]
                                ELSE files[name]]

\* rm, up to where it fails.
Unlink(names) ==
  /\ \A name \in names : Exists(name) /\ CanWrite(name)
  /\ files' = [name \in Name |-> IF name \in names THEN NoFile ELSE files[name]]

\* cat of a line, or cp from the host.
Put(name, bytes) == CanWrite(name) /\ files' = Holding(name, bytes)
Add(name, bytes) == CanWrite(name) /\ files' = Holding(name, BytesOf(name) \o bytes)

\* cat and cp of files, up to where it fails: all are read before one is written.
Cat(sources, n, start, name) ==
  /\ \A i \in DOMAIN sources : CanRead(sources[i])
  /\ CanWrite(name)
  /\ files' = Holding(name, start \o FlattenSeq([i \in 1..n |-> BytesOf(sources[i])]))

\* mv: what had the new name is gone.
Move(old, new) ==
  /\ old # new /\ Exists(old) /\ CanWrite(old) /\ CanWrite(new)
  /\ files' = [files EXCEPT ![new] = files[old], ![old] = NoFile]

Chmod(name, perm) == Exists(name) /\ files' = [files EXCEPT ![name].perm = perm]

Upto(list, n) == {list[i] : i \in 1..n}

Next ==
  \/ Make
  \/ \E name \in Name :
       \/ \E text \in Texts : Put(name, text) \/ Add(name, text)
       \/ \E new \in Name : Move(name, new)
       \/ \E perm \in Perms : Chmod(name, perm)
  \/ \E list \in Lists : \E n \in DOMAIN list :
       \/ Touch(Upto(list, n))
       \/ Unlink(Upto(list, n))
       \/ \E name \in Name : Cat(list, n, <<>>, name) \/ Cat(list, n, BytesOf(name), name)

Spec == Init /\ [][Next]_files
=============================================================================
