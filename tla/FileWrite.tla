------------------------------- MODULE FileWrite -------------------------------
(***************************************************************************)
(* The write path of filesystem/file.c, in the default build (without      *)
(* -DCONCURRENT): userfs_file_write cuts a write into pieces, and          *)
(* snfs_write places each piece on the NVM or on one of three SSDs, logs   *)
(* an extent for it and indexes it in the block tree of the inode.         *)
(*                                                                         *)
(* Lengths and addresses are in units, Block units to a 4K block and       *)
(* LBlock units to a 2M block; addresses wrap at AddrMod (2^64 bytes).     *)
(* Devices are numbered as in the code: 1 is the NVM, 2 to 4 the SSDs, and *)
(* devid is the number less one.  The files are created in this session    *)
(* and not yet digested by the kernel, so bmap finds nothing for them.     *)
(*                                                                         *)
(* A piece runs under ilock and is one step; the beginning and the end of  *)
(* userfs_file_write, which read and write inode->size without the lock,   *)
(* are steps of their own.                                                 *)
(***************************************************************************)
EXTENDS Integers, Sequences, FiniteSets

CONSTANTS Files, Writers,
          Target,        \* the file each writer has open
          Block, LBlock,
          NvmStart,      \* nvmstartblock, in units
          NvmSize,       \* NVMSIZE, in units
          SsdStart,      \* first free 2M block of the SSDs
          AddrMod,
          Space,         \* bound: units of a device that are looked at
          MaxSize,       \* bound: units of a file
          MaxWrites,     \* bound: writes to a file
          Grain,         \* offsets and sizes of the writes are its multiples
          Workload,      \* the kinds of calls the application makes
          Garbage        \* contents that are not data of any file

\* NVM chunks start at a 2M boundary: the kernel reserves whole ones.
ASSUME FileWriteAssumption ==
  /\ Target \in [Writers -> Files]
  /\ Block \in Nat \ {0} /\ LBlock \in Nat \ {0} /\ LBlock % Block = 0
  /\ NvmStart \in Nat /\ NvmStart % LBlock = 0 /\ NvmStart + LBlock <= NvmSize
  /\ NvmSize \in Nat /\ SsdStart \in Nat /\ AddrMod \in Nat \ {0}
  /\ Space \in Nat /\ MaxSize \in Nat /\ MaxWrites \in Nat /\ Grain \in Nat \ {0}
  /\ Workload \subseteq {"append", "overwrite", "extend", "mixed", "reopen"}

VARIABLES inode,           \* the fields of each inode the write path uses
          blktree,         \* its block tree, a set of nodes
          fd,              \* each writer in userfs_file_write
          nvm_block_addr,  \* next free NVM chunk, in units
          ssd_block_addr,  \* next free 2M block of each SSD, by devid
          media,           \* what each unit of each device holds
          extent,          \* where the log says each block of a file is
          latest,          \* history: the last write to each unit of a file
          wrapped,         \* history: the NVM allocator has started over
          panicked         \* the message of the panic that ended the program

vars == <<inode, blktree, fd, nvm_block_addr, ssd_block_addr, media, extent,
          latest, wrapped, panicked>>

Devices == 1..4
writethdnum == 4
Nowhere == <<0, 0>>
FileUnits == 0..MaxSize-1
FileBlocks == 0..(MaxSize \div Block)-1

\* ALIGN and ALIGN_FLOOR to a 4K block.
Floor(a) == a - (a % Block)
Ceil(a) == Floor(a + Block - 1)

-----------------------------------------------------------------------------
\* blktree.h: the nodes that contain an offset (they are disjoint).
block_search(tree, off) ==
  {n \in tree : n.fileoff <= off /\ off < n.fileoff + n.size}

\* A mutated block_insert that joins nodes whatever device they are on.
InsertIgnoresDevice(tree, b) ==
  LET joins == {n \in tree : /\ b.fileoff = n.fileoff + n.size
                             /\ (b.addr - n.addr) * Block = n.size}
  IN IF joins # {}
     THEN LET n == CHOOSE n \in joins : TRUE
          IN (tree \ {n}) \cup {[n EXCEPT !.size = @ + b.size]}
     ELSE tree \cup {b}

\* block_insert joins the new node to the one that ends where it starts, if the
\* device and the address continue too; a node with the same start stays.
block_insert(tree, b) ==
  LET joins == {n \in tree : /\ b.fileoff = n.fileoff + n.size
                             /\ n.devid = b.devid
                             /\ (b.addr - n.addr) * Block = n.size}
  IN IF joins # {}
     THEN LET n == CHOOSE n \in joins : TRUE
          IN (tree \ {n}) \cup {[n EXCEPT !.size = @ + b.size]}
     ELSE IF \E n \in tree : n.fileoff = b.fileoff THEN tree ELSE tree \cup {b}

\* insert_blktree overwrites the node that contains off, if there is one.
insert_blktree(tree, devid, addr, off, size) ==
  LET hit == block_search(tree, off)
      new == [devid |-> devid, fileoff |-> off, size |-> size,
              addr |-> addr \div Block]
  IN IF hit = {} THEN block_insert(tree, new)
     ELSE (tree \ {CHOOSE n \in hit : TRUE}) \cup {new}

-----------------------------------------------------------------------------
\* The state a piece works on: the inode `ip', its block tree, the allocators,
\* and what it writes, in order, each write followed by append_fsextent.
Context(f) ==
  [ip |-> inode[f], tree |-> blktree[f], nvm |-> nvm_block_addr,
   ssd |-> ssd_block_addr, wrapped |-> wrapped, puts |-> << >>, panic |-> ""]

\* userfs_write of n units at address `at' of device `dev' for the file from
\* off on; only the units from..to-1 are the caller's data.
Put(s, dev, at, off, n, from, to) ==
  [s EXCEPT !.puts = Append(@, [dev |-> dev, at |-> at, off |-> off, n |-> n,
                                from |-> from, to |-> to])]

Panic(s, msg) == [s EXCEPT !.panic = msg]

\* A mutated allocate_nvmblock that only compares the start of the chunk.
NvmChecksStart(s) == IF s.nvm <= NvmSize THEN s.nvm ELSE NvmStart

\* The allocators: the start of the chunk the device devid gives out ...
allocate_nvmblock(s) == IF s.nvm + LBlock <= NvmSize THEN s.nvm ELSE NvmStart
Chunk(s, d) == IF d = 0 THEN allocate_nvmblock(s) ELSE s.ssd[d] * LBlock

\* ... and the context once it has.  The inode moves on to the next device.
Allocated(s, d) ==
  LET t == [s EXCEPT !.ip.devid = d, !.ip.wrthdnum = d + 1]
  IN IF d = 0
     THEN [t EXCEPT !.nvm = allocate_nvmblock(s) + LBlock,
                    !.wrapped = @ \/ s.nvm + LBlock > NvmSize]
     ELSE [t EXCEPT !.ssd[d] = @ + 1]

\* A chunk that starts at `base' is used up at `off' (unsigned arithmetic), or
\* there has been none.
UsedUp(devid, off, base) ==
  \/ devid > 0 /\ off % LBlock = 0
  \/ devid = 0 /\ (off = 0 \/ (off - base) % AddrMod >= LBlock)

\* A mutated test that treats an NVM chunk as used up one block late.
AppendChunkLate(s) ==
  LET d == s.ip.wrthdnum % writethdnum
      a == Chunk(s, d)
      t == Allocated(s, d)
  IN IF \/ s.ip.devid > 0 /\ s.ip.ssdoff % LBlock = 0
        \/ s.ip.devid = 0 /\ (s.ip.ssdoff = 0 \/ s.ip.ssdoff - s.ip.usednvms > LBlock)
     THEN [t EXCEPT !.ip.ssdoff = a, !.ip.usednvms = IF d = 0 THEN a ELSE @]
     ELSE s

\* The chunk appends go to.
AppendChunk(s) ==
  LET d == s.ip.wrthdnum % writethdnum
      a == Chunk(s, d)
      t == Allocated(s, d)
  IN IF UsedUp(s.ip.devid, s.ip.ssdoff, s.ip.usednvms)
     THEN [t EXCEPT !.ip.ssdoff = a, !.ip.usednvms = IF d = 0 THEN a ELSE @]
     ELSE s

\* A mutated allocation for overwrites that does not look whether n units fit.
InplaceChunkUnchecked(s, n) ==
  LET d == s.ip.wrthdnum % writethdnum
      a == Chunk(s, d)
  IN IF UsedUp(s.ip.devid, s.ip.rwoff, s.ip.rwsoff)
     THEN [Allocated(s, d) EXCEPT !.ip.rwoff = a, !.ip.rwsoff = a]
     ELSE s

\* The chunk overwrites go to; aligned_write also asks that n units fit in it.
\* devid is the same field that AppendChunk uses.
InplaceChunk(s, n) ==
  LET d == s.ip.wrthdnum % writethdnum
      a == Chunk(s, d)
  IN IF \/ UsedUp(s.ip.devid, s.ip.rwoff, s.ip.rwsoff)
        \/ n > 0 /\ ((s.ip.rwoff - s.ip.rwsoff) % AddrMod) + n > LBlock
     THEN [Allocated(s, d) EXCEPT !.ip.rwoff = a, !.ip.rwsoff = a]
     ELSE s

\* A mutated append that does not advance ssdoff.
AppendKeepsOff(s, off, size, check, strict) ==
  LET t == AppendChunk(s)
      at == t.ip.ssdoff
      dev == t.ip.devid + 1
  IN IF (strict \/ t.ip.devid # 0) /\ at % LBlock # check % LBlock
     THEN Panic(t, "write addr error")
     ELSE [Put(t, dev, Floor(at), off, size, off, off + size)
             EXCEPT !.tree = insert_blktree(@, dev, at, off, size)]

\* The end of an append: the address within 2M is checked against that of
\* `check', except on the NVM when not strict; then data, extent and index, from
\* the start of the block of the device that ssdoff is in.
AppendPiece(s, off, size, check, strict) ==
  LET t == AppendChunk(s)
      at == t.ip.ssdoff
      dev == t.ip.devid + 1
  IN IF (strict \/ t.ip.devid # 0) /\ at % LBlock # check % LBlock
     THEN Panic(t, "write addr error")
     ELSE [Put(t, dev, Floor(at), off, size, off, off + size)
             EXCEPT !.ip.ssdoff = @ + size,
                    !.tree = insert_blktree(@, dev, at, off, size)]

-----------------------------------------------------------------------------
\* Part of one block, not from its start.  An append goes to the block the
\* tree gives, at addr + ((fileoff - off_aligned_4K) >> 12), and on an SSD the
\* rest of that block is written too (hdd_write_unaligned).  An overwrite
\* takes a block at rwoff, on device 1; what it should have read is Garbage.
unaligned_smallwrite(s, off, size) ==
  LET al == Floor(off)
      hit == block_search(s.tree, al)
      n == CHOOSE n \in hit : TRUE
      t == InplaceChunk(s, 0)
  IN IF hit = {} THEN Panic(s, "unaligned_smallwrite bug!!")
     ELSE IF off = s.ip.size
     THEN [Put(s, n.devid, n.addr * Block + (n.fileoff - al) + (off - al),
               off, IF n.devid > 1 THEN Block - (off - al) ELSE size,
               off, off + size)
             EXCEPT !.ip.ssdoff = @ + size,
                    !.tree = (@ \ {n}) \cup {[n EXCEPT !.size = @ + size]}]
     ELSE IF off < s.ip.size
     THEN [Put(t, 1, t.ip.rwoff, al, Block, off, off + size)
             EXCEPT !.ip.rwoff = @ + Block]
     ELSE Panic(s, "write not supported")

\* The front of one block.  An overwrite that reaches the end of its node
\* matches neither branch and writes nothing.
aligned_smallwrite(s, off, size) ==
  LET hit == block_search(s.tree, off)
      n == CHOOSE n \in hit : TRUE
      t == InplaceChunk(s, 0)
  IN IF off >= s.ip.size THEN AppendPiece(s, off, size, off, FALSE)
     ELSE IF hit = {} THEN Panic(s, "null block node")
     ELSE IF n.fileoff + n.size > off + size
     THEN [Put(t, 1, t.ip.rwoff, off, Block, off, off + size)
             EXCEPT !.ip.rwoff = @ + Block]
     ELSE s

\* Whole blocks inside one 2M block: an append, an overwrite, or an overwrite
\* of `inplace' units, on device 1, followed by an append.  Beyond the end of
\* the file nothing is written.
aligned_write(s, off, size) ==
  LET inplace == Ceil(s.ip.size) - off
      t == InplaceChunk(s, inplace)
      u == InplaceChunk(s, size)
  IN IF off = s.ip.size THEN AppendPiece(s, off, size, off, TRUE)
     ELSE IF off > s.ip.size THEN s
     ELSE IF Ceil(off + size) > Ceil(s.ip.size)
     THEN AppendPiece([Put(t, 1, t.ip.rwoff, off, inplace, off, off + inplace)
                         EXCEPT !.ip.rwoff = @ + inplace],
                      off + inplace, size - inplace, off, TRUE)
     ELSE [Put(u, u.ip.devid + 1, u.ip.rwoff, off, size, off, off + size)
             EXCEPT !.ip.rwoff = @ + size]

snfs_write(s, off, size) ==
  IF off % Block # 0
  THEN IF (off % Block) + size > Block THEN Panic(s, "write exist bug")
       ELSE unaligned_smallwrite(s, off, size)
  ELSE IF size < Block THEN aligned_smallwrite(s, off, size)
  ELSE aligned_write(s, off, size)

-----------------------------------------------------------------------------
\* userfs_file_write: the next piece of a write of `left' units at off: up to
\* the next 4K boundary, or whole blocks up to the next 2M boundary, or the
\* rest of the last block.
PieceSize(off, left) ==
  IF off % Block # 0
  THEN IF left < Block - (off % Block) THEN left ELSE Block - (off % Block)
  ELSE IF left < Block THEN left
  ELSE IF Floor(left) < LBlock - (off % LBlock) THEN Floor(left)
  ELSE LBlock - (off % LBlock)

\* The last of the writes of a piece to address a of device dev, if any.
LastPut(puts, dev, a) ==
  LET on == {i \in 1..Len(puts) : /\ puts[i].dev = dev
                                  /\ puts[i].at <= a /\ a < puts[i].at + puts[i].n}
  IN IF on = {} THEN 0 ELSE CHOOSE i \in on : \A j \in on : j <= i

\* userfs_write on the devices.
Written(f, ver, puts) ==
  [dev \in Devices |-> [a \in 0..Space-1 |->
     LET i == LastPut(puts, dev, a)
         u == puts[i].off + a - puts[i].at
     IN IF i = 0 THEN media[dev][a]
        ELSE IF puts[i].from <= u /\ u < puts[i].to THEN <<f, u, ver>>
        ELSE Garbage]]

\* append_fsextent for every write: ext_block, ext_len and ext_start.
Logged(f, puts) ==
  [extent EXCEPT ![f] = [b \in FileBlocks |->
     LET first(i) == puts[i].off \div Block
         over == {i \in 1..Len(puts) :
                    first(i) <= b /\ b < first(i) + (Ceil(puts[i].n) \div Block)}
         last == CHOOSE i \in over : \A j \in over : j <= i
     IN IF over = {} THEN extent[f][b]
        ELSE <<puts[last].dev, (puts[last].at \div Block) + (b - first(last))>>]]

-----------------------------------------------------------------------------
\* A file as userfs_open_file creates it.
Init ==
  /\ inode = [f \in Files |->
                [size |-> 0, devid |-> 0, wrthdnum |-> 0, ssdoff |-> 0,
                 usednvms |-> 0, rwoff |-> 0, rwsoff |-> 0, writes |-> 0]]
  /\ blktree = [f \in Files |-> {}]
  /\ fd = [w \in Writers |->
             [busy |-> FALSE, off |-> 0, left |-> 0, file_size |-> 0, ver |-> 0]]
  /\ nvm_block_addr = NvmStart
  /\ ssd_block_addr = [d \in 1..3 |-> SsdStart]
  /\ media = [dev \in Devices |-> [a \in 0..Space-1 |-> Garbage]]
  /\ extent = [f \in Files |-> [b \in FileBlocks |-> Nowhere]]
  /\ latest = [f \in Files |-> [u \in FileUnits |-> 0]]
  /\ wrapped = FALSE
  /\ panicked = ""

\* What kind of write it is, and whether the application makes such writes:
\* "mixed" allows a file that has been overwritten to grow.
Allowed(ip, off, n) ==
  /\ IF off = ip.size THEN "append" \in Workload
     ELSE IF off + n <= ip.size THEN "overwrite" \in Workload
     ELSE off < ip.size /\ "extend" \in Workload
  /\ off + n > ip.size /\ ip.rwoff # 0 => "mixed" \in Workload

\* userfs_file_write is called, with f->off where lseek or the last write left
\* it: the file size to come is computed from inode->size, without the lock.
BeginWrite(w, off, n) ==
  LET f == Target[w] ip == inode[f] IN
  /\ panicked = "" /\ ~fd[w].busy
  /\ off + n <= MaxSize /\ ip.writes < MaxWrites
  /\ Allowed(ip, off, n)
  /\ fd' = [fd EXCEPT ![w] =
              [busy |-> TRUE, off |-> off, left |-> n, ver |-> ip.writes + 1,
               file_size |-> IF off + n > ip.size THEN off + n ELSE ip.size]]
  /\ inode' = [inode EXCEPT ![f].writes = @ + 1]
  /\ UNCHANGED <<blktree, nvm_block_addr, ssd_block_addr, media, extent, latest,
                 wrapped, panicked>>

\* One piece under ilock, and the size it extends the file to.
WritePiece(w) ==
  LET f == Target[w]
      off == fd[w].off
      size == PieceSize(off, fd[w].left)
      s == snfs_write(Context(f), off, size)
  IN
  /\ panicked = "" /\ fd[w].busy /\ fd[w].left > 0
  /\ inode' = [inode EXCEPT ![f] =
        IF off + size > s.ip.size /\ s.panic = "" THEN [s.ip EXCEPT !.size = off + size]
        ELSE s.ip]
  /\ blktree' = [blktree EXCEPT ![f] = s.tree]
  /\ nvm_block_addr' = s.nvm /\ ssd_block_addr' = s.ssd /\ wrapped' = s.wrapped
  /\ media' = Written(f, fd[w].ver, s.puts)
  /\ extent' = Logged(f, s.puts)
  /\ panicked' = s.panic
  /\ latest' = [latest EXCEPT ![f] = [u \in FileUnits |->
                  IF off <= u /\ u < off + size THEN fd[w].ver ELSE @[u]]]
  /\ fd' = [fd EXCEPT ![w].off = off + size, ![w].left = @ - size]

\* A mutated end that stores where the write stopped as the size.
EndStoresOffset(w) ==
  /\ panicked = "" /\ fd[w].busy /\ fd[w].left = 0
  /\ inode' = [inode EXCEPT ![Target[w]].size = fd[w].off]
  /\ fd' = [fd EXCEPT ![w].busy = FALSE]
  /\ UNCHANGED <<blktree, nvm_block_addr, ssd_block_addr, media, extent, latest,
                 wrapped, panicked>>

\* userfs_file_write ends: the file size computed at its beginning is stored.
EndWrite(w) ==
  /\ panicked = "" /\ fd[w].busy /\ fd[w].left = 0
  /\ inode' = [inode EXCEPT ![Target[w]].size = fd[w].file_size]
  /\ fd' = [fd EXCEPT ![w].busy = FALSE]
  /\ UNCHANGED <<blktree, nvm_block_addr, ssd_block_addr, media, extent, latest,
                 wrapped, panicked>>

\* userfs_posix_open of a file that is in the inode cache: devid, which is
\* always less than writethdnum, is reset.
OpenAgain(f) ==
  /\ panicked = "" /\ "reopen" \in Workload
  /\ inode' = [inode EXCEPT ![f].devid = 0]
  /\ UNCHANGED <<blktree, fd, nvm_block_addr, ssd_block_addr, media, extent,
                 latest, wrapped, panicked>>

Next ==
  \/ \E w \in Writers :
       \/ \E i, k \in 0..(MaxSize \div Grain) :
            k > 0 /\ BeginWrite(w, i * Grain, k * Grain)
       \/ WritePiece(w) \/ EndWrite(w)
  \/ \E f \in Files : OpenAgain(f)

Spec == Init /\ [][Next]_vars

-----------------------------------------------------------------------------
\* Types of the fields that decide where data goes.
TypeOK ==
  /\ \A f \in Files :
       /\ inode[f].size \in 0..MaxSize
       /\ inode[f].devid \in 0..3 /\ inode[f].wrthdnum \in 0..4
       /\ inode[f].ssdoff \in Nat /\ inode[f].rwoff \in Nat
       /\ \A n \in blktree[f] :
            n.devid \in Devices /\ n.fileoff % Block = 0 /\ n.size > 0
       /\ extent[f] \in [FileBlocks -> (0..4) \X Int]
  /\ \A w \in Writers : fd[w].left >= 0 /\ fd[w].file_size \in 0..MaxSize
  /\ nvm_block_addr \in NvmStart..NvmSize
  /\ wrapped \in BOOLEAN

\* Data of the unit u of f is at address a of device dev.
Holds(f, u, dev, a) ==
  a \in 0..Space-1 /\ media[dev][a] = <<f, u, latest[f][u]>>

\* The kernel finds every unit of every file, as last written, where the
\* extents in the log say it is: no two writes were placed on top of one
\* another, whichever files and writers they came from.  (Once the NVM
\* allocator starts over it hands out blocks that are in use.)
LogReads ==
  ~wrapped =>
    \A f \in Files : \A u \in 0..inode[f].size-1 :
      LET e == extent[f][u \div Block]
      IN e # Nowhere /\ Holds(f, u, e[1], e[2] * Block + (u % Block))

\* file.c:1088, "in-place updates must keep the index in blktree correct":
\* what a reader finds through the block tree is what was last written.
TreeReads ==
  ~wrapped =>
    \A f \in Files : \A u \in 0..inode[f].size-1 :
      \E n \in block_search(blktree[f], u) :
        Holds(f, u, n.devid, n.addr * Block + (u - n.fileoff))

\* Nobody runs into a panic of the write path: the place of the next append
\* keeps step with the size of the file, from one 2M block to the next and
\* from one device to the next.
NoWritePanic == panicked = ""

\* Between two writes to it, a file is exactly as long as what has been
\* written, although the end of userfs_file_write stores a size computed at
\* its beginning (one writer for a file).
SizeIsExtent ==
  \A w \in Writers :
    LET f == Target[w]
    IN ~fd[w].busy /\ panicked = "" =>
         \A u \in FileUnits : u < inode[f].size <=> latest[f][u] # 0
=============================================================================
