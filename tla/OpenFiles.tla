------------------------------- MODULE OpenFiles -------------------------------
(***************************************************************************)
(* Descriptors, references and inode locks: the calls of posix_interface.c *)
(* that use a path or a descriptor, the table of open files of file.c, and *)
(* ilock, iput, itrunc, stati and idealloc of fs.c.  Threads share the     *)
(* table, its descriptors and the in-memory inodes.                        *)
(*                                                                         *)
(* A call is the sequence of steps it still has to make, todo.  A step is  *)
(* an access to shared memory, or all of what happens under a lock.  i_ref *)
(* is raised and lowered with a load and a store; iput does so under       *)
(* i_mutex, and the others under no lock.  The inodes are those of files   *)
(* that are in the lookup cache; names and directories are Namespace, and  *)
(* writes FileWrite.  Offsets and sizes that wrap below 0 are left out.    *)
(***************************************************************************)
EXTENDS Integers, FiniteSets, Sequences

CONSTANTS Threads, Files,
          Dirs,         \* the files that are directories
          MaxOpen,      \* g_max_open_files
          MaxSize,      \* bound: the size of a file
          MaxRefs,      \* bound: i_ref of each file, beyond which no path call begins
          ReadSize,     \* what a read asks for
          Calls,        \* the calls the threads make
          Uses,         \* which thread names and closes which file
          Nobody, NoFile, NoFd

Descriptors == 0 .. MaxOpen - 1

ASSUME OpenFilesAssumption ==
  /\ IsFiniteSet(Threads) /\ Nobody \notin Threads \cup Files \cup {NoFile}
  /\ MaxOpen \in Nat \ {0} /\ ReadSize \in Nat \ {0} /\ MaxSize \in Nat
  /\ Dirs \subseteq Files /\ NoFile \notin Files /\ NoFd \notin Descriptors
  /\ Uses \subseteq Threads \X Files /\ MaxRefs \in [Files -> Nat]

VARIABLES
  ref, type, ip, off,    \* open_files[d]
  writer, readers,       \* open_files[d].rwlock
  tableLock,             \* g_fd_table.lock: the thread that has it
  i_ref, size,           \* of each inode
  mutex, busy, deleting, \* i_mutex, I_BUSY and I_DELETING of each inode
  named,                 \* its name is still in its directory
  call,                  \* of each thread: the steps it has still to make (todo),
                         \* its descriptor and inode, a local value (reg), and
                         \* where its read began and ended (got)
  given,                 \* the descriptors that the application has
  leaked,                \* those whose lock was never released
  foreign,               \* a mutex was unlocked by a thread that had not locked it
  aborted                \* an assertion has failed

tableVars == <<ref, type, ip>>
lockVars == <<writer, readers, tableLock>>
inodeVars == <<i_ref, size, mutex, busy, deleting, named>>
ghostVars == <<given, leaked, foreign, aborted>>
vars == <<ref, type, ip, off, writer, readers, tableLock, i_ref, size, mutex, busy,
          deleting, named, call, given, leaked, foreign, aborted>>

NoCall == [todo |-> <<>>, fd |-> NoFd, ino |-> NoFile, reg |-> 0, got |-> <<0, 0>>]

fd(t) == call[t].fd
ino(t) == call[t].ino
reg(t) == call[t].reg

Init ==
  /\ ref = [d \in Descriptors |-> 0]
  /\ type = [d \in Descriptors |-> "FD_NONE"]
  /\ ip = [d \in Descriptors |-> NoFile]
  /\ off = [d \in Descriptors |-> 0]
  /\ writer = [d \in Descriptors |-> Nobody]
  /\ readers = [d \in Descriptors |-> {}]
  /\ tableLock = Nobody
  /\ i_ref = [f \in Files |-> 0]
  /\ size = [f \in Files |-> MaxSize]
  /\ mutex = [f \in Files |-> Nobody]
  /\ busy = [f \in Files |-> FALSE]
  /\ deleting = [f \in Files |-> FALSE]
  /\ named = [f \in Files |-> TRUE]
  /\ call = [t \in Threads |-> NoCall]
  /\ given = {} /\ leaked = {} /\ foreign = FALSE /\ aborted = FALSE

-----------------------------------------------------------------------------
\* The calls, as the steps they make.
OpenSteps == <<"namei", "incr", "lock_table", "scan", "take", "fill">>
\* Mutated stat: the reference that stati puts is put again.
StatPutsAgain == <<"namei", "incr", "load", "decr", "iput", "put">>

StatSteps == <<"namei", "incr", "load", "decr">>
AccessSteps == <<"namei", "incr", "iput", "put">>
TruncateSteps == <<"namei", "incr", "itrunc", "iput", "put">>
UnlinkSteps == <<"namei", "incr", "load", "incr", "remove", "iput", "put",
                 "idealloc", "ilock", "delete", "iunlock", "unbusy">>
CloseSteps == <<"drop", "iput", "put">>
ReadSteps == <<"rdlock", "ilock", "end", "readi", "clip", "short", "advance",
               "iunlock", "unbusy", "rdunlock">>
FstatSteps == <<"ref", "load", "decr">>
FtruncateSteps == <<"ref", "itrunc">>
SeekSteps == <<"seek", "seek_end">>

PathCalls == [open |-> OpenSteps, stat |-> StatSteps, access |-> AccessSteps,
              truncate |-> TruncateSteps, unlink |-> UnlinkSteps]
FdCalls == [read |-> ReadSteps, fstat |-> FstatSteps,
            ftruncate |-> FtruncateSteps, lseek |-> SeekSteps]

Idle(t) == call[t] = NoCall
At(t, step) == ~aborted /\ ~Idle(t) /\ Head(call[t].todo) = step

\* The thread goes on with other steps; with the next; with the next, and a
\* new local value.  A call that has no more steps has returned.
GoTo(t, steps) == call' = [call EXCEPT ![t].todo = steps]
After(c, r) ==
  IF Len(c.todo) = 1 THEN NoCall ELSE [c EXCEPT !.todo = Tail(@), !.reg = r]
StepWith(t, r) == call' = [call EXCEPT ![t] = After(@, r)]
Step(t) == StepWith(t, reg(t))
Return(t) == call' = [call EXCEPT ![t] = NoCall]
Begin(t, steps, d, f) ==
  call' = [call EXCEPT ![t] = [NoCall EXCEPT !.todo = steps, !.fd = d, !.ino = f]]

\* Bound: no call begins after a lock has been lost, or another's unlocked.
Quiet == ~aborted /\ ~foreign /\ leaked = {}

\* The descriptors that calls under way are about, and those of a file.
BusyFds == {fd(t) : t \in Threads}
OpenOf(f) == {d \in given : ip[d] = f}

\* A thread begins a call with a path.  Only regular files are unlinked.
CallPath(t, f, c) ==
  /\ Idle(t) /\ Quiet /\ <<t, f>> \in Uses /\ c \in Calls \cap DOMAIN PathCalls
  /\ c \in {"unlink", "truncate"} => f \notin Dirs
  /\ i_ref[f] < MaxRefs[f]
  /\ Begin(t, PathCalls[c], NoFd, f)
  /\ UNCHANGED <<tableVars, off, lockVars, inodeVars, ghostVars>>

\* A thread begins a call with an open descriptor.  Bound: directories are not
\* sought.
CallFd(t, d, c) ==
  /\ Idle(t) /\ Quiet /\ d \in given /\ c \in Calls \cap DOMAIN FdCalls
  /\ c \in {"read", "ftruncate", "lseek"} => type[d] = "FD_INODE"
  /\ Begin(t, FdCalls[c], d, ip[d])
  /\ UNCHANGED <<tableVars, off, lockVars, inodeVars, ghostVars>>

\* A thread closes a descriptor that no other call uses.
CallClose(t, d) ==
  /\ Idle(t) /\ Quiet /\ d \in given \ BusyFds
  /\ <<t, ip[d]>> \in Uses
  /\ Begin(t, CloseSteps, d, ip[d])
  /\ given' = given \ {d}
  /\ UNCHANGED <<tableVars, off, lockVars, inodeVars, leaked, foreign, aborted>>

\* A thread calls lseek with a descriptor that is not open.
CallStray(t, d) ==
  /\ Idle(t) /\ Quiet /\ d \notin given /\ "stray_lseek" \in Calls
  /\ Begin(t, SeekSteps, d, NoFile)
  /\ UNCHANGED <<tableVars, off, lockVars, inodeVars, ghostVars>>

-----------------------------------------------------------------------------
\* namei with the path in the lookup cache: a deleted inode is not returned;
\* i_ref++ begins.
namei(t) ==
  /\ At(t, "namei")
  /\ IF named[ino(t)] /\ ~deleting[ino(t)]
     THEN StepWith(t, i_ref[ino(t)]) ELSE Return(t)
  /\ UNCHANGED <<tableVars, off, lockVars, inodeVars, ghostVars>>

\* i_ref++ and i_ref-- under no lock: in namei, unlink and stati.
Load(t) ==
  /\ At(t, "load")
  /\ StepWith(t, i_ref[ino(t)])
  /\ UNCHANGED <<tableVars, off, lockVars, inodeVars, ghostVars>>

Store(t) ==
  /\ \/ At(t, "incr") /\ i_ref' = [i_ref EXCEPT ![ino(t)] = reg(t) + 1]
     \/ At(t, "decr") /\ i_ref' = [i_ref EXCEPT ![ino(t)] = reg(t) - 1]
  /\ Step(t)
  /\ UNCHANGED <<tableVars, off, lockVars, size, mutex, busy, deleting, named, ghostVars>>

\* Mutated iput: the reference is kept.
PutNothing(t) ==
  \/ /\ At(t, "iput") /\ mutex[ino(t)] = Nobody
     /\ mutex' = [mutex EXCEPT ![ino(t)] = t]
     /\ Step(t)
     /\ UNCHANGED <<tableVars, off, lockVars, i_ref, size, busy, deleting, named, ghostVars>>
  \/ /\ At(t, "put")
     /\ mutex' = [mutex EXCEPT ![ino(t)] = Nobody]
     /\ Step(t)
     /\ UNCHANGED <<tableVars, off, lockVars, i_ref, size, busy, deleting, named, ghostVars>>

\* iput: i_ref-- under i_mutex, which those who raise it do not take.
iput(t) ==
  \/ /\ At(t, "iput") /\ mutex[ino(t)] = Nobody
     /\ mutex' = [mutex EXCEPT ![ino(t)] = t]
     /\ StepWith(t, i_ref[ino(t)])
     /\ UNCHANGED <<tableVars, off, lockVars, i_ref, size, busy, deleting, named, ghostVars>>
  \/ /\ At(t, "put")
     /\ i_ref' = [i_ref EXCEPT ![ino(t)] = reg(t) - 1]
     /\ mutex' = [mutex EXCEPT ![ino(t)] = Nobody]
     /\ Step(t)
     /\ UNCHANGED <<tableVars, off, lockVars, size, busy, deleting, named, ghostVars>>

-----------------------------------------------------------------------------
\* The lock of a descriptor is free for a writer.
Unlocked(d) == writer[d] = Nobody /\ readers[d] = {}

\* userfs_file_alloc: take the lock of the table, look at the descriptors one
\* after the other, and take the first that is not in use.
LockTable(t) ==
  /\ At(t, "lock_table") /\ tableLock = Nobody
  /\ tableLock' = t
  /\ StepWith(t, 0)
  /\ UNCHANGED <<tableVars, off, writer, readers, inodeVars, ghostVars>>

ScanOn(t) ==
  /\ At(t, "scan") /\ ref[reg(t)] # 0 /\ reg(t) + 1 < MaxOpen
  /\ call' = [call EXCEPT ![t].reg = @ + 1]
  /\ UNCHANGED <<tableVars, off, lockVars, inodeVars, ghostVars>>

\* Mutated full table: its lock is kept.
FullKeepsLock(t) ==
  /\ At(t, "scan") /\ ref[reg(t)] # 0 /\ reg(t) + 1 = MaxOpen
  /\ GoTo(t, <<"iunlock", "unbusy", "iput", "put">>)
  /\ UNCHANGED <<tableVars, off, lockVars, inodeVars, ghostVars>>

\* The table is full: iunlockput of an inode that this thread has not locked.
ScanFull(t) ==
  /\ At(t, "scan") /\ ref[reg(t)] # 0 /\ reg(t) + 1 = MaxOpen
  /\ tableLock' = Nobody
  /\ GoTo(t, <<"iunlock", "unbusy", "iput", "put">>)
  /\ UNCHANGED <<tableVars, off, writer, readers, inodeVars, ghostVars>>

ScanFree(t) ==
  /\ At(t, "scan") /\ ref[reg(t)] = 0
  /\ call' = [call EXCEPT ![t].fd = reg(t), ![t].todo = Tail(@)]
  /\ UNCHANGED <<tableVars, off, lockVars, inodeVars, ghostVars>>

\* It waits for the lock of the descriptor with the lock of the table held.
Take(t) ==
  /\ At(t, "take") /\ Unlocked(fd(t))
  /\ ref' = [ref EXCEPT ![fd(t)] = 1]
  /\ tableLock' = Nobody
  /\ Step(t)
  /\ UNCHANGED <<type, ip, off, writer, readers, inodeVars, ghostVars>>

userfs_file_alloc(t) ==
  LockTable(t) \/ ScanOn(t) \/ ScanFull(t) \/ ScanFree(t) \/ Take(t)

\* The end of userfs_posix_open.
Fill(t) ==
  LET d == fd(t) IN
  /\ At(t, "fill") /\ Unlocked(d)
  /\ type' = [type EXCEPT ![d] = IF ino(t) \in Dirs THEN "FD_DIR" ELSE "FD_INODE"]
  /\ ip' = [ip EXCEPT ![d] = ino(t)]
  /\ off' = [off EXCEPT ![d] = 0]
  /\ given' = given \cup {d}
  /\ Step(t)
  /\ UNCHANGED <<ref, lockVars, inodeVars, leaked, foreign, aborted>>

\* userfs_file_close; the reference of a directory is not put.  There is no
\* dup, so ref is 1.  It leaves ip and off, which nobody reads before Fill has
\* set them; they are cleared here.
userfs_file_close(t) ==
  LET d == fd(t) IN
  /\ At(t, "drop") /\ Unlocked(d)
  /\ ref' = [ref EXCEPT ![d] = 0]
  /\ type' = [type EXCEPT ![d] = "FD_NONE"]
  /\ ip' = [ip EXCEPT ![d] = NoFile] /\ off' = [off EXCEPT ![d] = 0]
  /\ IF type[d] = "FD_INODE" THEN Step(t) ELSE Return(t)
  /\ UNCHANGED <<lockVars, inodeVars, ghostVars>>

-----------------------------------------------------------------------------
\* userfs_posix_read takes the lock of the descriptor for reading.
Rdlock(t) ==
  /\ At(t, "rdlock") /\ writer[fd(t)] = Nobody
  /\ readers' = [readers EXCEPT ![fd(t)] = @ \cup {t}]
  /\ Step(t)
  /\ UNCHANGED <<tableVars, off, writer, tableLock, inodeVars, ghostVars>>

ilock(t) ==
  /\ At(t, "ilock") /\ mutex[ino(t)] = Nobody
  /\ mutex' = [mutex EXCEPT ![ino(t)] = t]
  /\ busy' = [busy EXCEPT ![ino(t)] = TRUE]
  /\ Step(t)
  /\ UNCHANGED <<tableVars, off, lockVars, i_ref, size, deleting, named, ghostVars>>

\* Mutated end of file: the mutex is released, and I_BUSY stays.
AtEndStaysBusy(t) ==
  /\ At(t, "end") /\ off[fd(t)] >= size[ino(t)]
  /\ GoTo(t, <<"iunlock", "rdunlock">>)
  /\ UNCHANGED <<tableVars, off, lockVars, inodeVars, ghostVars>>

\* userfs_file_read under ilock: nothing is read at the end of the file, else
\* readi is called with off, which is moved afterwards.
AtEnd(t) ==
  /\ At(t, "end") /\ off[fd(t)] >= size[ino(t)]
  /\ GoTo(t, <<"iunlock", "unbusy", "rdunlock">>)
  /\ UNCHANGED <<tableVars, off, lockVars, inodeVars, ghostVars>>

BeforeEnd(t) ==
  /\ At(t, "end") /\ off[fd(t)] < size[ino(t)]
  /\ Step(t)
  /\ UNCHANGED <<tableVars, off, lockVars, inodeVars, ghostVars>>

\* readi has read n bytes from off on.
Reads(t, n) ==
  LET o == off[fd(t)] IN
  call' = [call EXCEPT ![t].todo = <<"advance", "iunlock", "unbusy", "rdunlock">>,
                       ![t].reg = n, ![t].got = IF n = 0 THEN @ ELSE <<o, o + n>>]

\* readi loads the size three times, which an lseek may change meanwhile: it
\* asserts that off is before it, tests if it ends what is asked for, and
\* then takes what is left.  When off has passed the size by then, the length
\* wraps to almost 2^32, and the read ends the program.
AssertOffset(t) ==
  /\ At(t, "readi")
  /\ aborted' = (off[fd(t)] >= size[ino(t)])
  /\ Step(t)
  /\ UNCHANGED <<tableVars, off, lockVars, inodeVars, given, leaked, foreign>>

Clip(t) ==
  /\ At(t, "clip")
  /\ IF off[fd(t)] + ReadSize > size[ino(t)] THEN Step(t) ELSE Reads(t, ReadSize)
  /\ UNCHANGED <<tableVars, off, lockVars, inodeVars, ghostVars>>

Shorten(t) ==
  LET left == size[ino(t)] - off[fd(t)] IN
  /\ At(t, "short")
  /\ aborted' = (left < 0)
  /\ IF left < 0 THEN UNCHANGED call ELSE Reads(t, left)
  /\ UNCHANGED <<tableVars, off, lockVars, inodeVars, given, leaked, foreign>>

readi(t) == AssertOffset(t) \/ Clip(t) \/ Shorten(t)

\* Mutated advance: by what was asked for, not by what was read.
AdvanceAsked(t) ==
  /\ At(t, "advance")
  /\ off' = [off EXCEPT ![fd(t)] = @ + ReadSize]
  /\ Step(t)
  /\ UNCHANGED <<tableVars, lockVars, inodeVars, ghostVars>>

Advance(t) ==
  /\ At(t, "advance")
  /\ off' = [off EXCEPT ![fd(t)] = @ + reg(t)]
  /\ Step(t)
  /\ UNCHANGED <<tableVars, lockVars, inodeVars, ghostVars>>

userfs_file_read(t) == AtEnd(t) \/ BeforeEnd(t) \/ readi(t) \/ Advance(t)

\* iunlock releases the mutex, whoever has it, and clears I_BUSY after that.
iunlock(t) ==
  \/ /\ At(t, "iunlock")
     /\ mutex' = [mutex EXCEPT ![ino(t)] = Nobody]
     /\ foreign' = (foreign \/ mutex[ino(t)] \notin {t, Nobody})
     /\ Step(t)
     /\ UNCHANGED <<tableVars, off, lockVars, i_ref, size, busy, deleting, named, given, leaked, aborted>>
  \/ /\ At(t, "unbusy")
     /\ busy' = [busy EXCEPT ![ino(t)] = FALSE]
     /\ Step(t)
     /\ UNCHANGED <<tableVars, off, lockVars, i_ref, size, mutex, deleting, named, ghostVars>>

Rdunlock(t) ==
  /\ At(t, "rdunlock")
  /\ readers' = [readers EXCEPT ![fd(t)] = @ \ {t}]
  /\ Step(t)
  /\ UNCHANGED <<tableVars, off, writer, tableLock, inodeVars, ghostVars>>

\* fstat and ftruncate look whether the descriptor is in use.
RefCheck(t) ==
  /\ At(t, "ref")
  /\ IF ref[fd(t)] = 0 THEN Return(t) ELSE Step(t)
  /\ UNCHANGED <<tableVars, off, lockVars, inodeVars, ghostVars>>

\* itrunc: the size is set under the mutex.
itrunc(t) ==
  /\ At(t, "itrunc") /\ mutex[ino(t)] = Nobody
  /\ \E n \in 0..MaxSize : size' = [size EXCEPT ![ino(t)] = n]
  /\ Step(t)
  /\ UNCHANGED <<tableVars, off, lockVars, i_ref, mutex, busy, deleting, named, ghostVars>>

\* userfs_posix_lseek of a descriptor that is not in use returns -EBADF with
\* its lock held.
SeekClosed(t) ==
  /\ At(t, "seek") /\ Unlocked(fd(t)) /\ ref[fd(t)] = 0
  /\ writer' = [writer EXCEPT ![fd(t)] = t]
  /\ leaked' = leaked \cup {fd(t)}
  /\ Return(t)
  /\ UNCHANGED <<tableVars, off, readers, tableLock, inodeVars, given,
                 foreign, aborted>>

\* SEEK_SET and SEEK_CUR move the offset.
SeekTo(t) ==
  /\ At(t, "seek") /\ Unlocked(fd(t)) /\ ref[fd(t)] # 0
  /\ \E o \in 0..MaxSize : off' = [off EXCEPT ![fd(t)] = o]
  /\ Return(t)
  /\ UNCHANGED <<tableVars, lockVars, inodeVars, ghostVars>>

\* SEEK_END moves the end of the file, without the lock of its inode, and the
\* offset to what is then the end.
SeekEnd(t) ==
  \/ /\ At(t, "seek") /\ Unlocked(fd(t)) /\ ref[fd(t)] # 0 /\ ino(t) \in Files
     /\ writer' = [writer EXCEPT ![fd(t)] = t]
     /\ \E n \in 0..MaxSize : size' = [size EXCEPT ![ino(t)] = n]
     /\ Step(t)
     /\ UNCHANGED <<tableVars, off, readers, tableLock, i_ref, mutex, busy, deleting, named,
                    ghostVars>>
  \/ /\ At(t, "seek_end")
     /\ off' = [off EXCEPT ![fd(t)] = size[ino(t)]]
     /\ writer' = [writer EXCEPT ![fd(t)] = Nobody]
     /\ Step(t)
     /\ UNCHANGED <<tableVars, readers, tableLock, inodeVars, ghostVars>>

userfs_posix_lseek(t) == SeekClosed(t) \/ SeekTo(t) \/ SeekEnd(t)

-----------------------------------------------------------------------------
\* unlink: dir_remove_entry and dlookup_del; when another unlink was first it
\* returns, and keeps its references.
Remove(t) ==
  /\ At(t, "remove")
  /\ named' = [named EXCEPT ![ino(t)] = FALSE]
  /\ IF named[ino(t)] THEN Step(t) ELSE Return(t)
  /\ UNCHANGED <<tableVars, off, lockVars, i_ref, size, mutex, busy, deleting, ghostVars>>

\* Mutated assertion: one reference more is allowed.
AssertLess(t) ==
  /\ At(t, "idealloc")
  /\ aborted' = (i_ref[ino(t)] > 2)
  /\ Step(t)
  /\ UNCHANGED <<tableVars, off, lockVars, inodeVars, given, leaked, foreign>>

\* idealloc asserts that there is at most the reference of unlink itself.
\* nlink is never 0 here, so what follows the assertion is skipped.
AssertRefs(t) ==
  /\ At(t, "idealloc")
  /\ aborted' = (i_ref[ino(t)] >= 2)
  /\ Step(t)
  /\ UNCHANGED <<tableVars, off, lockVars, inodeVars, given, leaked, foreign>>

Delete(t) ==
  /\ At(t, "delete")
  /\ size' = [size EXCEPT ![ino(t)] = 0]
  /\ deleting' = [deleting EXCEPT ![ino(t)] = TRUE]
  /\ Step(t)
  /\ UNCHANGED <<tableVars, off, lockVars, i_ref, mutex, busy, named, ghostVars>>

idealloc(t) == AssertRefs(t) \/ Delete(t)

-----------------------------------------------------------------------------
Call(t) ==
  \/ \E f \in Files, c \in DOMAIN PathCalls : CallPath(t, f, c)
  \/ \E d \in Descriptors :
       CallClose(t, d) \/ CallStray(t, d) \/ \E c \in DOMAIN FdCalls : CallFd(t, d, c)

Run(t) ==
  \/ namei(t) \/ Load(t) \/ Store(t) \/ iput(t) \/ userfs_file_alloc(t) \/ Fill(t)
  \/ userfs_file_close(t) \/ Rdlock(t) \/ ilock(t) \/ userfs_file_read(t) \/ iunlock(t)
  \/ Rdunlock(t) \/ RefCheck(t) \/ itrunc(t) \/ userfs_posix_lseek(t) \/ Remove(t)
  \/ idealloc(t)

Next == \E t \in Threads : Call(t) \/ Run(t)

Spec == Init /\ [][Next]_vars

-----------------------------------------------------------------------------
Steps == {"namei", "incr", "decr", "load", "iput", "put", "lock_table", "scan", "take",
          "fill", "drop", "rdlock", "ilock", "end", "readi", "clip", "short", "advance",
          "iunlock", "unbusy", "rdunlock", "ref", "itrunc", "seek", "seek_end", "remove",
          "idealloc", "delete"}

\* Types; a descriptor is in use once, and no file passes its limit.
TypeOK ==
  /\ ref \in [Descriptors -> {0, 1}]
  /\ type \in [Descriptors -> {"FD_NONE", "FD_INODE", "FD_DIR"}]
  /\ ip \in [Descriptors -> Files \cup {NoFile}]
  /\ off \in [Descriptors -> Nat] /\ size \in [Files -> 0..MaxSize]
  /\ writer \in [Descriptors -> Threads \cup {Nobody}]
  /\ readers \in [Descriptors -> SUBSET Threads]
  /\ tableLock \in Threads \cup {Nobody}
  /\ i_ref \in [Files -> Nat]
  /\ mutex \in [Files -> Threads \cup {Nobody}]
  /\ busy \in [Files -> BOOLEAN] /\ deleting \in [Files -> BOOLEAN]
  /\ named \in [Files -> BOOLEAN]
  /\ \A t \in Threads :
       /\ \A k \in DOMAIN call[t].todo : call[t].todo[k] \in Steps
       /\ fd(t) \in Descriptors \cup {NoFd} /\ ino(t) \in Files \cup {NoFile}
       /\ reg(t) \in Nat
  /\ given \subseteq Descriptors /\ leaked \subseteq Descriptors

\* How often a step is still to be made in the calls that have found f.
ToDo(f, step) ==
  {p \in Threads \X (1..Len(UnlinkSteps)) :
     LET todo == call[p[1]].todo IN
     /\ ino(p[1]) = f /\ p[2] \in DOMAIN todo
     /\ todo[p[2]] = step /\ todo[1] # "namei"}

Count(f, step) == Cardinality(ToDo(f, step))

(* i_ref counts the descriptors of a file: what it will be when the calls     *)
(* under way have raised and lowered it is the number of descriptors the      *)
(* application has and of those it is about to get, and the one reference     *)
(* that unlink leaves.  It holds for threads that do not share a path; the    *)
(* reference of an open directory is never put, and fstat puts one it has     *)
(* not taken.  So the assertion of idealloc fails for the files that are      *)
(* open, and for no other.                                                    *)
RefsExact ==
  /\ \A f \in Files \ Dirs :
       i_ref[f] + Count(f, "incr") - Count(f, "decr") - Count(f, "put")
         = Cardinality(OpenOf(f)) + Count(f, "fill")
             + (IF ~named[f] \/ Count(f, "remove") > 0 THEN 1 ELSE 0)
  /\ \A t \in Threads :
       At(t, "idealloc") => (i_ref[ino(t)] < 2 <=> OpenOf(ino(t)) = {})

(* unlink of a file that is open, which the code has a TODO for, does not     *)
(* tear down its inode, whose mutex idealloc destroys: no descriptor reaches  *)
(* a deleted one, and no open, read, seek or truncation is about to use it.   *)
(* Nothing but the count of references, kept without locks, protects it.      *)
DeletedUnused ==
  \A f \in Files : deleting[f] =>
    /\ OpenOf(f) = {}
    /\ \A step \in {"fill", "advance", "seek_end", "itrunc"} : Count(f, step) = 0

(* I_BUSY, for which idealloc panics, is set only while a thread is between   *)
(* ilock and the end of iunlock, although iunlock clears it when the next     *)
(* thread may already have set it.                                            *)
BusyInside == \A f \in Files : busy[f] => Count(f, "unbusy") > Count(f, "ilock")

(* The calls never all wait for one another, though open waits for the lock   *)
(* of a descriptor with the lock of the table held, and a read for the lock   *)
(* of the inode with the lock of the descriptor held: one of them can go on,  *)
(* unless lseek has left the lock of a descriptor locked.                     *)
NoDeadlock ==
  leaked = {} /\ ~aborted /\ (\E t \in Threads : ~Idle(t)) => \E t \in Threads : ENABLED Run(t)

\* A read has read, and will move the offset.
Pending(d) == {t \in Threads : fd(t) = d /\ ~Idle(t) /\ Head(call[t].todo) = "advance"}

D == INSTANCE DescriptorTable WITH
       Free <- Nobody, Reserved <- NoFile,
       slot <- [d \in Descriptors |-> IF ref[d] = 0 THEN Nobody
                                      ELSE IF type[d] = "FD_NONE" THEN NoFile ELSE ip[d]],
       off <- [d \in Descriptors |-> IF Pending(d) = {} THEN off[d]
                                     ELSE off[d] + reg(CHOOSE t \in Pending(d) : TRUE)],
       got <- [t \in Threads |-> call[t].got]

\* An lseek of d returns in this step.
Seeking(d) ==
  \E t \in Threads : (At(t, "seek") \/ At(t, "seek_end")) /\ fd(t) = d /\ Idle(t)'

(* Threads that share descriptors see a table of open files whose operations  *)
(* are atomic: no two opens get one descriptor, and reads of one descriptor,  *)
(* which hold its lock for reading only, continue one another because they    *)
(* hold the lock of the inode, and read nothing behind the end of the file,   *)
(* even if an lseek moves it meanwhile; only lseek moves a descriptor         *)
(* otherwise.  It ends when an open that finds the table full unlocks the     *)
(* inode of a read.                                                           *)
ImplementsTable ==
  D!Init /\ [][foreign \/ D!Steady \/ \E d \in Descriptors : Seeking(d) /\ D!Seek(d)]_(D!vars)
=============================================================================
