------------------------------- MODULE Namespace -------------------------------
(***************************************************************************)
(* The names of one directory: userfs_open_file, which creates files and   *)
(* directories, the lookups of dirent.c and unlink, on top of the table of *)
(* inode numbers (InodeTable).  A name is found in the cache of paths      *)
(* (dlookup), the cache of the directory (de_cache), its tree of dentries, *)
(* or on the disk, which this session does not change.                     *)
(*                                                                         *)
(* A call is the sequence of steps it still has to make; a step is what    *)
(* happens under one lock, or an access under none.  An in-memory inode is *)
(* a pair of its number and a count, as a number that is used again gets   *)
(* another one while the old one stays in icache.  The log is what the     *)
(* kernel will make of it: the last entry for each name and number.        *)
(* References are OpenFiles.                                               *)
(***************************************************************************)
EXTENDS Integers, Sequences, FiniteSets

CONSTANTS Threads, Names,
          OldFiles,    \* the names on disk, and their numbers
          FirstBlock,  \* those in the first block of the directory
          MaxCalls,    \* bound: calls of create and unlink
          InoNum, InodeBase,
          Nobody, NoFile

OldInos == {OldFiles[n] : n \in DOMAIN OldFiles}

ASSUME NamespaceAssumption ==
  /\ DOMAIN OldFiles \subseteq Names /\ FirstBlock \subseteq DOMAIN OldFiles
  /\ MaxCalls \in Nat /\ Nobody \notin Threads
  /\ \A m, n \in DOMAIN OldFiles : OldFiles[m] = OldFiles[n] => m = n

VARIABLES
  fsinode_table, bitmapnum, live, panicked,   \* InodeTable
  tree,      \* dentry_tree: the number and addordel of each name
  inmem,     \* inmem_den: the dentries on disk have been read
  ilocked,   \* i_mutex of the directory: the thread that has it
  dlookup, de_cache,                          \* the inodes cached for a name
  copies,    \* icache: how many in-memory inodes a number has had
  deleting,  \* those with I_DELETING
  disk, attr,                                 \* the log: names and numbers
  call,      \* of each thread: its use, steps (todo), name, number and inode,
             \* and history: the inodes its name had meanwhile (seen), and
             \* whether it met the removal of its name (late)
  calls,     \* how many calls of create and unlink there were
  file,      \* the inode of the file of that name, if there is one
  early,     \* numbers whose deletion was logged after they were taken again
  stale,     \* history: names that ReturnsFile and CachesTrue except
  crashed    \* the thread that got NULL from iget in dir_lookup

numberVars == <<fsinode_table, bitmapnum, live, panicked>>
cacheVars == <<dlookup, de_cache, copies, deleting>>
logVars == <<disk, attr, early>>
nameVars == <<file, stale, crashed>>
vars == <<numberVars, tree, inmem, ilocked, cacheVars, logVars, call, calls, nameVars>>

T == INSTANCE InodeTable

Numbers == OldInos \cup {InodeBase + 128 * i : i \in 0 .. InoNum - 1}
NoDentry == [ino |-> 0, flag |-> "None"]
NoInode == <<0, 0>>
NoCall == [use |-> "none", todo |-> <<>>, name |-> Nobody, ino |-> 0, ip |-> NoInode,
           seen |-> {}, late |-> FALSE]

Init ==
  /\ T!Init
  /\ tree = [n \in Names |-> NoDentry] /\ inmem = FALSE
  /\ ilocked = Nobody
  /\ dlookup = [n \in Names |-> <<>>] /\ de_cache = [n \in Names |-> <<>>]
  /\ copies = [i \in Numbers |-> 0] /\ deleting = {}
  /\ disk = [n \in Names |-> IF n \in DOMAIN OldFiles THEN OldFiles[n] ELSE 0]
  /\ attr = [i \in Numbers |-> IF i \in OldInos THEN "kept" ELSE "none"] /\ early = {}
  /\ call = [t \in Threads |-> NoCall] /\ calls = 0
  /\ file = [n \in Names |-> IF n \in DOMAIN OldFiles THEN <<OldFiles[n], 1>> ELSE NoFile]
  /\ stale = {} /\ crashed = Nobody

-----------------------------------------------------------------------------
CreateSteps == <<"dlookup", "de_cache", "ilock", "search", "fetch", "number", "insert",
                 "attr", "dentry", "iunlock", "cache", "look", "add">>
ReopenSteps == <<"read inode", "iunlock", "cache", "look", "add">>
DirSteps == <<"dir_lookup", "look dir", "fetch dir", "read dir", "iget", "cache">>
LookupSteps == <<"namei", "ilock">> \o DirSteps \o <<"iunlock", "add">>
\* Mutated order: the number is put back before the dentry is marked.
FreeBeforeMark == <<"find", "free", "mark", "uncache", "log deleted", "cut", "log name",
                    "put back", "forget", "delete">>

RemoveSteps == <<"find", "mark", "free", "uncache", "log deleted", "cut", "log name",
                 "put back", "forget", "delete">>

Idle(t) == call[t].use = "none"
At(t, step) == ~Idle(t) /\ Head(call[t].todo) = step /\ ~panicked /\ crashed = Nobody
Name(t) == call[t].name

GoTo(t, steps) == call' = [call EXCEPT ![t].todo = steps]
Step(t) == GoTo(t, Tail(call[t].todo))

Fail(t) == call' = [call EXCEPT ![t] = NoCall]

\* The inode is found: a create or a lookup returns it, an unlink goes on.
Unlinking(t) == call[t].use = "unlink"
Found(t, ip) ==
  call' = [call EXCEPT ![t].ip = ip,
                       ![t].todo = IF Unlinking(t) THEN RemoveSteps ELSE <<"return">>]

\* No call on that name is under way.
Settled(n) == \A t \in Threads : Name(t) # n

\* An unlink of a name is kept apart from creates and other unlinks of it.
Apart(n, use) ==
  \A t \in Threads : Name(t) = n /\ "unlink" \in {use, call[t].use} =>
                        "lookup" \in {use, call[t].use}

\* The unlink of t has marked the dentry, or found none.
Steps(t) == {call[t].todo[k] : k \in DOMAIN call[t].todo}
Removing(t) == Unlinking(t) /\ "delete" \in Steps(t) /\ "mark" \notin Steps(t)

Begin(t, n, use, steps) ==
  LET removers == {u \in Threads : Name(u) = n /\ Removing(u)} IN
  /\ Idle(t) /\ ~panicked /\ crashed = Nobody
  /\ Apart(n, use)
  /\ call' = [call EXCEPT ![t] =
                [NoCall EXCEPT !.use = use, !.todo = steps, !.name = n,
                               !.seen = {file[n]} \cup {call[u].ip : u \in removers},
                               !.late = removers # {}]]
  /\ UNCHANGED <<numberVars, tree, inmem, ilocked, cacheVars, logVars, nameVars>>

CallCreate(t, n) ==
  Begin(t, n, "create", CreateSteps) /\ calls < MaxCalls /\ calls' = calls + 1
CallUnlink(t, n) ==
  Begin(t, n, "unlink", LookupSteps \o RemoveSteps) /\ calls < MaxCalls /\ calls' = calls + 1
CallLookup(t, n) == Begin(t, n, "lookup", LookupSteps) /\ UNCHANGED calls

Return(t) ==
  /\ At(t, "return") \/ At(t, "none")
  /\ Fail(t)
  /\ UNCHANGED <<numberVars, tree, inmem, ilocked, cacheVars, logVars, calls, nameVars>>

-----------------------------------------------------------------------------
\* Both caches are hash tables that take a name twice; which entry is found
\* depends on how the table has grown.
Entries(cache, n) == {cache[n][k] : k \in DOMAIN cache[n]}
With(cache, n, ip) == [cache EXCEPT ![n] = Append(@, ip)]
Without(cache, n) ==
  IF cache[n] = <<>> THEN {cache}
  ELSE {[cache EXCEPT ![n] = SubSeq(@, 1, k - 1) \o SubSeq(@, k + 1, Len(@))] :
          k \in DOMAIN cache[n]}

\* userfs_open_file looks in the two caches, without looking at I_DELETING.
OpenCached(t) ==
  /\ \/ At(t, "dlookup") /\ \E ip \in Entries(dlookup, Name(t)) : Found(t, ip)
     \/ At(t, "de_cache") /\ \E ip \in Entries(de_cache, Name(t)) : Found(t, ip)
     \/ At(t, "dlookup") /\ dlookup[Name(t)] = <<>> /\ Step(t)
     \/ At(t, "de_cache") /\ de_cache[Name(t)] = <<>> /\ Step(t)
  /\ UNCHANGED <<numberVars, tree, inmem, ilocked, cacheVars, logVars, calls, nameVars>>

ilock(t) ==
  /\ At(t, "ilock") /\ ilocked = Nobody
  /\ ilocked' = t
  /\ Step(t)
  /\ UNCHANGED <<numberVars, tree, inmem, cacheVars, logVars, calls, nameVars>>

iunlock(t) ==
  /\ At(t, "iunlock")
  /\ ilocked' = Nobody
  /\ Step(t)
  /\ UNCHANGED <<numberVars, tree, inmem, cacheVars, logVars, calls, nameVars>>

\* The step of t gives its name another file, or none: the calls on it see that.
NameFile(t, ip, removed) ==
  /\ file' = [file EXCEPT ![Name(t)] = ip]
  /\ call' = [u \in Threads |->
       IF Name(u) # Name(t) THEN call[u]
       ELSE [call[u] EXCEPT !.seen = @ \cup {ip},
                            !.late = @ \/ (removed /\ u # t),
                            !.todo = IF u = t THEN Tail(@) ELSE @]]

\* What fetch_ondisk_dentry and fetch_ondisk_dentry_from_kernel insert.
OnDisk(n) == [ino |-> OldFiles[n], flag |-> "Ondisk"]
Fetched(block) == [n \in Names |-> IF n \in block THEN OnDisk(n) ELSE tree[n]]
Fetches == DOMAIN OldFiles # {} /\ ~inmem

\* A dentry to create; one to find.
Missing(d) == d.flag \in {"None", "Delden"}

\* userfs_open_file searches the tree, with the directory locked.
Search(t) ==
  LET d == tree[Name(t)] IN
  /\ At(t, "search")
  /\ call' = [call EXCEPT ![t].ino = d.ino,
                          ![t].todo = IF d.flag = "None" THEN Tail(@)
                                      ELSE IF Missing(d) THEN Tail(Tail(@)) ELSE ReopenSteps]
  /\ UNCHANGED <<numberVars, tree, inmem, ilocked, cacheVars, logVars, calls, nameVars>>

\* It reads the directory only once: a name that is on disk, and not in the
\* first block, is not found later.
Fetch(t) ==
  /\ At(t, "fetch")
  /\ IF Fetches
     THEN /\ tree' = Fetched(FirstBlock \cup ({Name(t)} \cap DOMAIN OldFiles))
          /\ inmem' = TRUE
          /\ IF Name(t) \in DOMAIN OldFiles
             THEN call' = [call EXCEPT ![t].ino = OldFiles[Name(t)], ![t].todo = ReopenSteps]
             ELSE Step(t)
     ELSE UNCHANGED <<tree, inmem>> /\ Step(t)
  /\ UNCHANGED <<numberVars, ilocked, cacheVars, logVars, calls, nameVars>>

\* Mutated addition: icache_add again, after icache_alloc_add.
AddTwice(t, i) ==
  /\ copies' = [copies EXCEPT ![i] = @ + 2]
  /\ call' = [call EXCEPT ![t].ino = i, ![t].ip = <<i, copies[i] + 2>>, ![t].todo = Tail(@)]

\* icache_alloc_add and icache_add: another in-memory inode of that number.
AddInode(t, i) ==
  /\ copies' = [copies EXCEPT ![i] = @ + 1]
  /\ call' = [call EXCEPT ![t].ino = i, ![t].ip = <<i, copies[i] + 1>>, ![t].todo = Tail(@)]

\* A number for the new file, and its inode; none is left: panic.
NewInode(t) ==
  /\ At(t, "number")
  /\ T!find_inode_bitmap
  /\ AddInode(t, fsinode_table[T!FirstOccupied])
  /\ UNCHANGED <<tree, inmem, ilocked, dlookup, de_cache, deleting, logVars, calls, nameVars>>

NoNumber(t) ==
  /\ At(t, "number")
  /\ T!OutOfInodes
  /\ UNCHANGED <<tree, inmem, ilocked, cacheVars, logVars, call, calls, nameVars>>

Insert(t) ==
  /\ At(t, "insert")
  /\ tree' = [tree EXCEPT ![Name(t)] = [ino |-> call[t].ino, flag |-> "Addden"]]
  /\ NameFile(t, call[t].ip, FALSE)
  /\ UNCHANGED <<numberVars, inmem, ilocked, cacheVars, logVars, calls, stale, crashed>>

\* The entries of the log for a new file.
LogCreated(t) ==
  /\ \/ At(t, "attr") /\ attr' = [attr EXCEPT ![call[t].ino] = "kept"] /\ UNCHANGED disk
     \/ At(t, "dentry") /\ disk' = [disk EXCEPT ![Name(t)] = call[t].ino] /\ UNCHANGED attr
  /\ Step(t)
  /\ UNCHANGED <<numberVars, tree, inmem, ilocked, cacheVars, early, calls, nameVars>>

\* The name has a dentry: read_ondisk_inode_from_kernel and icache_add.
Reopen(t) ==
  /\ At(t, "read inode")
  /\ AddInode(t, call[t].ino)
  /\ stale' = IF copies[call[t].ino] > 0 THEN stale \cup {Name(t)} ELSE stale
  /\ UNCHANGED <<numberVars, tree, inmem, ilocked, dlookup, de_cache, deleting, logVars,
                 calls, file, crashed>>

\* A name is cached by a call that has met the removal of it.
AddedLate(t) == stale' = IF call[t].late THEN stale \cup {Name(t)} ELSE stale

\* de_cache_alloc_add, without the lock of the directory in a create.
CacheName(t) ==
  /\ At(t, "cache")
  /\ de_cache' = With(de_cache, Name(t), call[t].ip)
  /\ AddedLate(t)
  /\ Step(t)
  /\ UNCHANGED <<numberVars, tree, inmem, ilocked, dlookup, copies, deleting, logVars,
                 calls, file, crashed>>

\* A create adds the path only if a second look does not find it.
LookAgain(t) ==
  /\ At(t, "look")
  /\ IF dlookup[Name(t)] = <<>> THEN Step(t) ELSE Found(t, call[t].ip)
  /\ UNCHANGED <<numberVars, tree, inmem, ilocked, cacheVars, logVars, calls, nameVars>>

AddPath(t) ==
  /\ At(t, "add")
  /\ dlookup' = With(dlookup, Name(t), call[t].ip)
  /\ AddedLate(t)
  /\ Found(t, call[t].ip)
  /\ UNCHANGED <<numberVars, tree, inmem, ilocked, de_cache, copies, deleting, logVars,
                 calls, file, crashed>>

userfs_open_file(t) ==
  \/ OpenCached(t) \/ ilock(t) \/ Search(t) \/ Fetch(t) \/ NewInode(t) \/ NoNumber(t)
  \/ Insert(t) \/ LogCreated(t) \/ Reopen(t) \/ iunlock(t) \/ CacheName(t) \/ LookAgain(t)
  \/ AddPath(t)

-----------------------------------------------------------------------------
\* Nothing is found: an unlink tries dir_lookup again, without the lock.
FirstTry(t) == "add" \in Steps(t)

\* Mutated failure: the directory stays locked.
MissKeepsLock(t) ==
  GoTo(t, IF Unlinking(t) /\ FirstTry(t) THEN DirSteps \o RemoveSteps ELSE <<"none">>)

Missed(t) ==
  GoTo(t, (IF ilocked = t THEN <<"iunlock">> ELSE <<>>)
            \o (IF Unlinking(t) /\ FirstTry(t) THEN DirSteps \o RemoveSteps ELSE <<"none">>))

\* namei: the path is cached, or namex walks it.
namei(t) ==
  /\ At(t, "namei")
  /\ \/ dlookup[Name(t)] = <<>> /\ Step(t)
     \/ \E ip \in Entries(dlookup, Name(t)) :
          IF ip \in deleting THEN Missed(t) ELSE Found(t, ip)
  /\ UNCHANGED <<numberVars, tree, inmem, ilocked, cacheVars, logVars, calls, nameVars>>

\* dir_lookup: the cache of the directory, which skips the other steps.
DirCached(t) ==
  /\ At(t, "dir_lookup")
  /\ \/ de_cache[Name(t)] = <<>> /\ Step(t)
     \/ \E ip \in Entries(de_cache, Name(t)) :
          call' = [call EXCEPT ![t].ip = ip,
                               ![t].todo = SubSeq(@, Len(DirSteps) + 1, Len(@))]
  /\ UNCHANGED <<numberVars, tree, inmem, ilocked, cacheVars, logVars, calls, nameVars>>

LookDir(t) ==
  /\ At(t, "look dir")
  /\ GoTo(t, IF tree[Name(t)] = NoDentry /\ Fetches
             THEN Tail(call[t].todo) ELSE Tail(Tail(call[t].todo)))
  /\ UNCHANGED <<numberVars, tree, inmem, ilocked, cacheVars, logVars, calls, nameVars>>

\* Mutated fetch: the dentries that were read are not inserted.
FetchNothing(t) ==
  /\ At(t, "fetch dir")
  /\ inmem' = TRUE
  /\ Step(t)
  /\ UNCHANGED <<numberVars, tree, ilocked, cacheVars, logVars, calls, nameVars>>

FetchDir(t) ==
  /\ At(t, "fetch dir")
  /\ tree' = Fetched(FirstBlock) /\ inmem' = TRUE
  /\ Step(t)
  /\ UNCHANGED <<numberVars, ilocked, cacheVars, logVars, calls, nameVars>>

\* The tree, and the disk for a name that is not in it.
ReadDir(t) ==
  LET n == Name(t)
      d == IF tree[n] = NoDentry /\ n \in DOMAIN OldFiles THEN OnDisk(n) ELSE tree[n]
  IN /\ At(t, "read dir")
     /\ tree' = [tree EXCEPT ![n] = d]
     /\ IF Missing(d) THEN Missed(t)
        ELSE call' = [call EXCEPT ![t].ino = d.ino, ![t].todo = Tail(@)]
     /\ UNCHANGED <<numberVars, inmem, ilocked, cacheVars, logVars, calls, nameVars>>

\* iget: any inode of that number in icache, or one read from the disk.  For
\* one that is deleted it returns NULL, which dir_lookup goes through.
iget(t) ==
  /\ At(t, "iget")
  /\ \/ copies[call[t].ino] = 0 /\ AddInode(t, call[t].ino) /\ UNCHANGED <<stale, crashed>>
     \/ \E k \in 1 .. copies[call[t].ino] :
          LET ip == <<call[t].ino, k>> IN
          /\ crashed' = IF ip \in deleting THEN t ELSE Nobody
          /\ stale' = IF copies[ip[1]] > 1 THEN stale \cup {Name(t)} ELSE stale
          /\ call' = [call EXCEPT ![t].ip = ip, ![t].todo = Tail(@)]
          /\ UNCHANGED copies
  /\ UNCHANGED <<numberVars, tree, inmem, ilocked, dlookup, de_cache, deleting, logVars,
                 calls, file>>

dir_lookup(t) == DirCached(t) \/ LookDir(t) \/ FetchDir(t) \/ ReadDir(t) \/ iget(t)

-----------------------------------------------------------------------------
\* dir_remove_entry: no dentry is success, a deleted one is not.
FindDentry(t) ==
  LET n == Name(t)
      fetches == tree[n] = NoDentry /\ Fetches
      found == IF fetches THEN Fetched(FirstBlock \cup ({n} \cap DOMAIN OldFiles)) ELSE tree
  IN /\ At(t, "find")
     /\ tree' = found /\ inmem' = (inmem \/ fetches)
     /\ call' = [call EXCEPT ![t].ino = found[n].ino,
                             ![t].todo = IF found[n].flag = "None" THEN <<"forget", "delete">>
                                         ELSE IF Missing(found[n]) THEN <<"none">> ELSE Tail(@)]
     /\ UNCHANGED <<numberVars, ilocked, cacheVars, logVars, calls, nameVars>>

Mark(t) ==
  /\ At(t, "mark")
  /\ tree' = [tree EXCEPT ![Name(t)].flag = "Delden"]
  /\ NameFile(t, NoFile, TRUE)
  /\ UNCHANGED <<numberVars, inmem, ilocked, cacheVars, logVars, calls, stale, crashed>>

\* put_inode_bitmap: the number is free before its deletion is in the log.
FreeNumber(t) ==
  /\ At(t, "free")
  /\ T!put_inode_bitmap(call[t].ino) \/ T!PutDropped(call[t].ino)
  /\ Step(t)
  /\ UNCHANGED <<tree, inmem, ilocked, cacheVars, logVars, calls, nameVars>>

\* Mutated removal: the path stays in dlookup.
KeepPath(t) ==
  /\ \/ At(t, "uncache") /\ de_cache' \in Without(de_cache, Name(t)) /\ UNCHANGED dlookup
     \/ At(t, "forget") /\ UNCHANGED <<dlookup, de_cache>>
  /\ Step(t)
  /\ UNCHANGED <<numberVars, tree, inmem, ilocked, copies, deleting, logVars, calls, nameVars>>

\* de_cache_del and dlookup_del take out one entry, of two if there are two.
Uncache(t) ==
  /\ \/ /\ At(t, "uncache")
        /\ de_cache' \in Without(de_cache, Name(t)) /\ UNCHANGED dlookup
        /\ stale' = IF Len(de_cache[Name(t)]) > 1 THEN stale \cup {Name(t)} ELSE stale
     \/ /\ At(t, "forget")
        /\ dlookup' \in Without(dlookup, Name(t)) /\ UNCHANGED de_cache
        /\ stale' = IF Len(dlookup[Name(t)]) > 1 THEN stale \cup {Name(t)} ELSE stale
  /\ Step(t)
  /\ UNCHANGED <<numberVars, tree, inmem, ilocked, copies, deleting, logVars, calls, file,
                 crashed>>

LogDeleted(t) ==
  /\ At(t, "log deleted")
  /\ attr' = [attr EXCEPT ![call[t].ino] = "deleted"]
  /\ early' = IF call[t].ino \in live THEN early \cup {call[t].ino} ELSE early
  /\ Step(t)
  /\ UNCHANGED <<numberVars, tree, inmem, ilocked, cacheVars, disk, calls, nameVars>>

\* art_delete; it finds nothing: unlink returns -1.
Cut(t) ==
  /\ At(t, "cut")
  /\ tree' = [tree EXCEPT ![Name(t)] = NoDentry]
  /\ IF tree[Name(t)] = NoDentry THEN GoTo(t, <<"none">>) ELSE Step(t)
  /\ UNCHANGED <<numberVars, inmem, ilocked, cacheVars, logVars, calls, nameVars>>

\* Mutated log: only the attribute of the deleted file is logged.
LogNothing(t) ==
  /\ At(t, "log name")
  /\ Step(t)
  /\ UNCHANGED <<numberVars, tree, inmem, ilocked, cacheVars, logVars, calls, nameVars>>

LogRemoved(t) ==
  /\ At(t, "log name")
  /\ disk' = [disk EXCEPT ![Name(t)] = 0]
  /\ Step(t)
  /\ UNCHANGED <<numberVars, tree, inmem, ilocked, cacheVars, attr, early, calls, nameVars>>


\* The dentry goes back, as deleted.
PutBack(t) ==
  /\ At(t, "put back")
  /\ tree' = [tree EXCEPT ![Name(t)] = [ino |-> call[t].ino, flag |-> "Delden"]]
  /\ Step(t)
  /\ UNCHANGED <<numberVars, inmem, ilocked, cacheVars, logVars, calls, nameVars>>

dir_remove_entry(t) ==
  FindDentry(t) \/ Mark(t) \/ FreeNumber(t) \/ LogDeleted(t) \/ Cut(t) \/ LogRemoved(t) \/ PutBack(t)

\* idealloc: the inode is marked, and stays in icache.
idealloc(t) ==
  /\ At(t, "delete")
  /\ deleting' = deleting \cup {call[t].ip}
  /\ Fail(t)
  /\ UNCHANGED <<numberVars, tree, inmem, ilocked, dlookup, de_cache, copies, logVars, calls,
                 nameVars>>

-----------------------------------------------------------------------------
Calls(t) == \E n \in Names : CallCreate(t, n) \/ CallUnlink(t, n) \/ CallLookup(t, n)

Run(t) ==
  \/ userfs_open_file(t) \/ namei(t) \/ dir_lookup(t) \/ dir_remove_entry(t) \/ Uncache(t)
  \/ idealloc(t) \/ Return(t)

Next == \E t \in Threads : Calls(t) \/ Run(t)

Spec == Init /\ [][Next]_vars

-----------------------------------------------------------------------------
\* A number has an inode for every create, and one from the disk.
MaxCopies(i) == IF i \in OldInos THEN calls + 1 ELSE calls
Inodes == {ip \in Numbers \X (1 .. MaxCalls + 1) : ip[2] <= MaxCopies(ip[1])}

\* Types; no more inodes are added to icache than creates began.
TypeOK ==
  /\ T!TypeOK
  /\ \A n \in Names : tree[n].ino \in Numbers \cup {0}
       /\ tree[n].flag \in {"None", "Ondisk", "Addden", "Delden"}
  /\ inmem \in BOOLEAN /\ ilocked \in Threads \cup {Nobody}
  /\ \A n \in Names : Entries(dlookup, n) \cup Entries(de_cache, n) \subseteq Inodes
  /\ copies \in [Numbers -> Nat] /\ \A i \in Numbers : copies[i] <= MaxCopies(i)
  /\ deleting \subseteq Inodes
  /\ disk \in [Names -> Numbers \cup {0}] /\ attr \in [Numbers -> {"none", "kept", "deleted"}]
  /\ file \in [Names -> Inodes \cup {NoFile}]

(* A call that returns an inode returns one that was the inode of the file of *)
(* its name during the call, whichever of the caches, the tree and the disk   *)
(* it is in: never a deleted one, one of another file with the number, or a   *)
(* second one of the same file; a call that finds nothing met a time without  *)
(* a file; and dir_lookup is not given NULL by iget.  Excepted are the names  *)
(* that were cached by a call that met their removal, that were removed with  *)
(* two entries in a cache, or whose number had more than one inode in icache, *)
(* and NULL in a call that met the removal.                                   *)
ReturnsFile ==
  /\ \A t \in Threads : ~Idle(t) /\ Name(t) \notin stale =>
       /\ Head(call[t].todo) = "return" => call[t].ip \in call[t].seen
       /\ Head(call[t].todo) = "none" => NoFile \in call[t].seen
  /\ crashed # Nobody => call[crashed].late \/ Name(crashed) \in stale


(* Two files never have one number, though numbers are put back and taken     *)
(* again by other names while their unlink is still under way.                *)
NumbersApart ==
  \A m, n \in Names : file[m] # NoFile /\ file[n] # NoFile =>
    /\ file[m][1] \in live
    /\ m # n => file[m][1] # file[n][1]

(* What the log says of a name is what the directory says of it, and no older *)
(* entry of the log deletes a file that exists, except when its number was    *)
(* taken between put_inode_bitmap and the entry of the unlink that put it     *)
(* back.                                                                      *)
LogTrue ==
  \A n \in Names : Settled(n) =>
    /\ disk[n] = IF file[n] = NoFile THEN 0 ELSE file[n][1]
    /\ file[n] # NoFile /\ file[n][1] \notin early => attr[file[n][1]] = "kept"

(* A new file is made only where there is none: a dentry that is not found    *)
(* means that the file does not exist.                                        *)
CreatesMissing == [][\A n \in Names : file[n] # NoFile => file'[n] \in {file[n], NoFile}]_vars

(* The thread that has the lock of the directory still has to release it, and *)
(* does not wait for it before, on whichever way it leaves dir_lookup: no call *)
(* waits for ever.                                                            *)
LockReleased ==
  ilocked # Nobody => "iunlock" \in Steps(ilocked) /\ "ilock" \notin Steps(ilocked)
=============================================================================
