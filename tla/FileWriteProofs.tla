---------------------------- MODULE FileWriteProofs ----------------------------
(***************************************************************************)
(* Proofs about FileWrite, for any block sizes, devices and files.         *)
(*                                                                         *)
(* Whatever the application writes: types, and, for files with one writer, *)
(* that the size of a file is the extent of what was written to it.        *)
(*                                                                         *)
(* For files that grow by whole blocks: appends do not panic, and what was *)
(* written is found through the log and through the block tree.  The       *)
(* argument is that the rest of the chunk a file is filling is in nobody's *)
(* use: chunks are given out above everything that was given out before,   *)
(* to one file each, and are left only when the file's size has reached a  *)
(* 2M boundary.                                                            *)
(***************************************************************************)
EXTENDS FileWrite, TLAPS

USE SMTT(60), Zenon, SMTT(30)

-----------------------------------------------------------------------------
(* Rounding to blocks.                                                     *)

\* A remainder is less than the divisor, and taking it off leaves a multiple.
LEMMA Rounding ==
  ASSUME NEW a \in Nat, NEW b \in Nat \ {0}
  PROVE  /\ a % b \in 0 .. b - 1 /\ a % b <= a
         /\ (a - (a % b)) % b = 0
<1>1. a = b * (a \div b) + (a % b) /\ a \div b \in Nat /\ a % b \in 0 .. b - 1
  OBVIOUS
<1>2. b * (a \div b) \in Nat
  BY <1>1
<1>3. a - (a % b) = b * (a \div b) /\ a % b <= a
  BY <1>1, <1>2
<1>4. (b * (a \div b)) % b = 0
  OBVIOUS
<1> QED
  BY <1>1, <1>3, <1>4, Zenon

\* Multiples of b.
LEMMA Multiples ==
  ASSUME NEW a \in Int, NEW c \in Int, NEW b \in Nat \ {0}, a % b = 0, c % b = 0
  PROVE  /\ (a + c) % b = 0 /\ (a - c) % b = 0
         /\ a < c => a + b <= c
<1>1. a = b * (a \div b) /\ c = b * (c \div b) /\ a \div b \in Int /\ c \div b \in Int
  OBVIOUS
<1>2. ASSUME NEW q \in Int PROVE (b * q) % b = 0
  OBVIOUS
<1>3. a + c = b * (a \div b + c \div b) /\ a - c = b * (a \div b - c \div b)
  BY <1>1
<1>4. a < c => a \div b + 1 <= c \div b
  BY <1>1
<1>5. a < c => a + b <= c
  BY <1>1, <1>4
<1>6. (b * (a \div b + c \div b)) % b = 0 /\ (b * (a \div b - c \div b)) % b = 0
  <2>1. a \div b + c \div b \in Int /\ a \div b - c \div b \in Int
    BY <1>1
  <2> QED BY <2>1, <1>2, Zenon
<1> QED
  BY <1>3, <1>5, <1>6, Zenon

\* The same for blocks: sums of whole blocks ...
LEMMA MultiplesSum ==
  ASSUME NEW a \in Int, NEW c \in Int, a % Block = 0, c % Block = 0
  PROVE  (a + c) % Block = 0
BY Multiples, FileWriteAssumption, Zenon

\* ... differences ...
LEMMA MultiplesLess ==
  ASSUME NEW a \in Int, NEW c \in Int, a % Block = 0, c % Block = 0
  PROVE  (a - c) % Block = 0
BY Multiples, FileWriteAssumption, Zenon

\* ... and how far apart two of them are.
LEMMA MultiplesApart ==
  ASSUME NEW a \in Int, NEW c \in Int, a % Block = 0, c % Block = 0, a < c
  PROVE  a + Block <= c
BY Multiples, FileWriteAssumption, Zenon

\* An address as far into its 2M block as a multiple of a block is one too, and
\* is not rounded.
LEMMA SameInChunk ==
  ASSUME NEW a \in Nat, NEW c \in Nat, a % LBlock = c % LBlock, c % Block = 0
  PROVE  Floor(a) = a
<1>1. Block \in Nat \ {0} /\ LBlock \in Nat \ {0} /\ LBlock % Block = 0
  BY FileWriteAssumption, Zenon
<1>2. PICK m \in Nat : LBlock = Block * m
  <2>1. LBlock = Block * (LBlock \div Block) /\ LBlock \div Block \in Nat
    BY <1>1
  <2> QED BY <2>1, Zenon
<1>3. PICK i \in Int : a - c = LBlock * i
  <2>1. /\ a = LBlock * (a \div LBlock) + (a % LBlock) /\ a \div LBlock \in Int
        /\ c = LBlock * (c \div LBlock) + (c % LBlock) /\ c \div LBlock \in Int
        /\ a % LBlock \in Int
    BY <1>1
  <2>2. /\ a - c = LBlock * (a \div LBlock - c \div LBlock)
        /\ a \div LBlock - c \div LBlock \in Int
    BY <1>1, <2>1
  <2> QED BY <2>2, Zenon
<1>4. a - c = Block * (m * i) /\ m * i \in Int
  BY <1>1, <1>2, <1>3
<1>5. ASSUME NEW q \in Int PROVE (Block * q) % Block = 0
  BY <1>1
<1>6. (a - c) % Block = 0
  BY <1>4, <1>5, Zenon
<1>7. c \in Int /\ a - c \in Int /\ c + (a - c) = a
  OBVIOUS
<1>8. a % Block = 0
  BY <1>6, <1>7, MultiplesSum, Zenon
<1> QED
  BY <1>8 DEF Floor

-----------------------------------------------------------------------------
(* Types of what a piece works on.                                         *)

Ips == [size : Nat, devid : 0..3, wrthdnum : 0..4, ssdoff : Nat, usednvms : Nat,
        rwoff : Nat, rwsoff : Nat, writes : Nat]
Nodes == {n \in [devid : Devices, fileoff : Nat, size : Nat \ {0}, addr : Int] :
            n.fileoff % Block = 0}
Puts == [dev : Devices, at : Int, off : Nat, n : Nat, from : Nat, to : Nat]
Messages == {"", "write addr error", "unaligned_smallwrite bug!!", "write not supported",
             "null block node", "write exist bug"}
Contexts == [ip : Ips, tree : SUBSET Nodes, nvm : NvmStart..NvmSize,
             ssd : [1..3 -> Nat], wrapped : BOOLEAN, puts : Seq(Puts), panic : Messages]

\* A step of a piece never changes the size of the file.
KeepsSize(u, s) == u \in Contexts /\ u.ip.size = s.ip.size

\* A write of a piece changes neither the inode nor its block tree.
OnlyPuts(u, s) == u \in Contexts /\ u.ip = s.ip /\ u.tree = s.tree

\* The device a head's devid names.
LEMMA DeviceOf == \A i \in 0..3 : i + 1 \in Devices
BY DEF Devices

\* A natural number other than 0 is positive.
LEMMA Positive == \A n \in Nat : n # 0 => n > 0
OBVIOUS

\* The fields of a context.
LEMMA FieldsOf ==
  ASSUME NEW s \in Contexts
  PROVE  /\ s.ip \in Ips /\ s.tree \in SUBSET Nodes /\ s.nvm \in NvmStart..NvmSize
         /\ s.ssd \in [1..3 -> Nat] /\ s.wrapped \in BOOLEAN /\ s.puts \in Seq(Puts)
         /\ s.panic \in Messages
         /\ s.ip.size \in Nat /\ s.ip.devid \in 0..3 /\ s.ip.wrthdnum \in 0..4
         /\ s.ip.ssdoff \in Nat /\ s.ip.usednvms \in Nat /\ s.ip.rwoff \in Nat
         /\ s.ip.rwsoff \in Nat /\ s.ip.writes \in Nat
BY Zenon DEF Contexts, Ips

\* The device of the next chunk, what allocating it leaves, and where it starts.
LEMMA NextChunk ==
  \A s \in Contexts :
     LET d == s.ip.wrthdnum % writethdnum
     IN d \in 0..3 /\ KeepsSize(Allocated(s, d), s) /\ Chunk(s, d) \in Nat
\* The allocators give out addresses, and whole chunks of the NVM.
<1>ChunkType.
    ASSUME NEW s \in Contexts, NEW d \in 0..3
    PROVE  /\ allocate_nvmblock(s) \in NvmStart..(NvmSize - LBlock)
           /\ Chunk(s, d) \in Nat
  BY <1>ChunkType, FileWriteAssumption DEF Contexts, Chunk, allocate_nvmblock
\* Allocating a chunk leaves a context, of a file of the same size.
<1>AllocatedType.
    ASSUME NEW s \in Contexts, NEW d \in 0..3
    PROVE  KeepsSize(Allocated(s, d), s)
  <2> USE <1>AllocatedType
  <2> USE DEF KeepsSize
  <2> DEFINE t(v) == [s EXCEPT !.ip.devid = d, !.ip.wrthdnum = v]
  <2>1. \A v \in 0..4 : t(v) \in Contexts /\ t(v).ip.size = s.ip.size
    BY Zenon DEF Contexts, Ips
  <2>2. d + 1 \in 0..4
    OBVIOUS
  <2>3. t(d + 1) \in Contexts /\ t(d + 1).ip.size = s.ip.size
    BY <2>1, <2>2, Zenon
  <2>4. CASE d = 0
    <3>1. allocate_nvmblock(s) + LBlock \in NvmStart..NvmSize
      BY <1>ChunkType, FileWriteAssumption
    <3>2. \A u \in Contexts, a \in NvmStart..NvmSize, w \in BOOLEAN :
            LET v == [u EXCEPT !.nvm = a, !.wrapped = w] IN v \in Contexts /\ v.ip = u.ip
      BY Zenon DEF Contexts
    <3>3. (t(d + 1).wrapped \/ s.nvm + LBlock > NvmSize) \in BOOLEAN
      BY Zenon
    <3> HIDE DEF t
    <3>4. LET v == [t(d + 1) EXCEPT !.nvm = allocate_nvmblock(s) + LBlock,
                                    !.wrapped = @ \/ s.nvm + LBlock > NvmSize]
          IN v \in Contexts /\ v.ip = t(d + 1).ip
      BY <2>3, <3>1, <3>2, <3>3, Zenon
    <3> QED BY <2>3, <2>4, <3>4, Zenon DEF Allocated, t
  <2>5. CASE d # 0
    <3>1. \A x \in [1..3 -> Nat], i \in 1..3 : [x EXCEPT ![i] = @ + 1] \in [1..3 -> Nat]
      OBVIOUS
    <3>2. \A u \in Contexts, i \in 1..3 :
            LET v == [u EXCEPT !.ssd[i] = @ + 1] IN v \in Contexts /\ v.ip = u.ip
      BY <3>1, Zenon DEF Contexts
    <3> HIDE DEF t
    <3>3. d \in 1..3
      BY <2>5
    <3>4. LET v == [t(d + 1) EXCEPT !.ssd[d] = @ + 1] IN v \in Contexts /\ v.ip = t(d + 1).ip
      BY <2>3, <3>2, <3>3, Zenon
    <3> QED BY <2>3, <2>5, <3>4, Zenon DEF Allocated, t
  <2> QED BY <2>4, <2>5, Zenon
<1> SUFFICES ASSUME NEW s \in Contexts
             PROVE  LET d == s.ip.wrthdnum % writethdnum
                    IN d \in 0..3 /\ KeepsSize(Allocated(s, d), s) /\ Chunk(s, d) \in Nat
  BY Zenon
<1> DEFINE d == s.ip.wrthdnum % writethdnum
<1>1. d \in 0..3
  BY DEF Contexts, Ips, writethdnum
<1> HIDE DEF d
<1>2. KeepsSize(Allocated(s, d), s) /\ Chunk(s, d) \in Nat
  BY <1>1, <1>AllocatedType, <1>ChunkType, Zenon
<1> QED BY <1>1, <1>2, Zenon DEF d

\* So does finding the chunk for an append ...
LEMMA AppendChunkType == ASSUME NEW s \in Contexts PROVE KeepsSize(AppendChunk(s), s)
<1> USE DEF KeepsSize
<1> DEFINE d == s.ip.wrthdnum % writethdnum
           t == Allocated(s, d)
           a == Chunk(s, d)
<1>2. t \in Contexts /\ t.ip.size = s.ip.size /\ a \in Nat
  BY NextChunk, Zenon
<1> HIDE DEF d, t, a
<1>3. \A v \in Nat : LET u == [t EXCEPT !.ip.ssdoff = a, !.ip.usednvms = v]
                     IN u \in Contexts /\ u.ip.size = s.ip.size
  BY <1>2, Zenon DEF Contexts, Ips
<1>4. t.ip.usednvms \in Nat
  BY <1>2, FieldsOf, Zenon
<1> QED
  BY <1>2, <1>3, <1>4, Zenon DEF AppendChunk, d, t, a

\* Rounding up gives the least multiple that is not below.
LEMMA Ceiling ==
  ASSUME NEW a \in Nat
  PROVE  /\ Ceil(a) \in Nat /\ Ceil(a) % Block = 0 /\ a <= Ceil(a) /\ Ceil(a) < a + Block
         /\ a % Block = 0 => Ceil(a) = a
<1> DEFINE c == a + Block - 1
<1>1. c \in Nat /\ Block \in Nat \ {0}
  BY FileWriteAssumption
<1>2. c % Block \in 0 .. Block - 1 /\ c % Block <= c /\ (c - (c % Block)) % Block = 0
  BY <1>1, Rounding, Zenon
<1>3. Ceil(a) = c - (c % Block)
  BY Zenon DEF Ceil, Floor
<1>4. Ceil(a) \in Nat /\ Ceil(a) % Block = 0 /\ a <= Ceil(a) /\ Ceil(a) < a + Block
  BY <1>1, <1>2, <1>3
<1>5. a % Block = 0 => Ceil(a) = a
  <2> HIDE DEF c
  <2> SUFFICES ASSUME a % Block = 0, a < Ceil(a) PROVE FALSE
    BY <1>4
  <2>1. a \in Int /\ Ceil(a) \in Int /\ Ceil(a) % Block = 0
    BY <1>4
  <2>2. a + Block <= Ceil(a)
    BY <2>1, MultiplesApart, Zenon
  <2> QED BY <1>1, <1>4, <2>2
<1> QED BY <1>4, <1>5, Zenon

-----------------------------------------------------------------------------
(* Types and sizes, for every workload.                                    *)

Descriptors == [busy : BOOLEAN, off : Nat, left : Nat, file_size : 0..MaxSize, ver : Nat]
Places == (0..4) \X Int

Types ==
  /\ inode \in [Files -> Ips] /\ \A f \in Files : inode[f].size <= MaxSize
  /\ blktree \in [Files -> SUBSET Nodes]
  /\ fd \in [Writers -> Descriptors] /\ \A w \in Writers : fd[w].off + fd[w].left <= MaxSize
  /\ nvm_block_addr \in NvmStart..NvmSize /\ ssd_block_addr \in [1..3 -> Nat]
  /\ extent \in [Files -> [FileBlocks -> Places]]
  /\ latest \in [Files -> [FileUnits -> Nat]]
  /\ wrapped \in BOOLEAN /\ panicked \in Messages

\* A piece starts with a context.
LEMMA ContextType == ASSUME Types, NEW f \in Files PROVE Context(f) \in Contexts
<1>1. << >> \in Seq(Puts) /\ "" \in Messages
  BY DEF Messages
<1>2. /\ inode[f] \in Ips /\ blktree[f] \in SUBSET Nodes
      /\ nvm_block_addr \in NvmStart..NvmSize /\ ssd_block_addr \in [1..3 -> Nat]
      /\ wrapped \in BOOLEAN
  BY Zenon DEF Types
<1> QED
  BY <1>1, <1>2, Zenon DEF Context, Contexts

\* What one piece leaves of the state, with types; the size of the file is that
\* of the inode until the piece has been written.
LEMMA PieceTypes ==
  \A w \in Writers :
    /\ Types /\ fd[w].left > 0
    =>  LET f == Target[w]
            size == PieceSize(fd[w].off, fd[w].left)
            s == snfs_write(Context(f), fd[w].off, size)
        IN /\ f \in Files /\ size \in 1 .. fd[w].left
           /\ s \in Contexts /\ s.ip.size = inode[f].size
\* ... and the chunk for an overwrite.
<1>InplaceChunkType.
    ASSUME NEW s \in Contexts, NEW n \in Int PROVE KeepsSize(InplaceChunk(s, n), s)
  <2> USE <1>InplaceChunkType
  <2> USE DEF KeepsSize
  <2> DEFINE d == s.ip.wrthdnum % writethdnum
             t == Allocated(s, d)
             a == Chunk(s, d)
  <2>2. t \in Contexts /\ t.ip.size = s.ip.size /\ a \in Nat
    BY NextChunk, Zenon
  <2> HIDE DEF d, t, a
  <2>3. LET u == [t EXCEPT !.ip.rwoff = a, !.ip.rwsoff = a]
        IN u \in Contexts /\ u.ip.size = s.ip.size
    BY <2>2, Zenon DEF Contexts, Ips
  <2> QED
    BY <2>2, <2>3, Zenon DEF InplaceChunk, d, t, a
\* Writing to a device only adds to what has been written.
<1>PutType.
    ASSUME NEW s \in Contexts, NEW dev \in Devices, NEW at \in Int, NEW off \in Nat,
           NEW n \in Nat, NEW from \in Nat, NEW to \in Nat
    PROVE  OnlyPuts(Put(s, dev, at, off, n, from, to), s)
  <2> USE <1>PutType
  <2> DEFINE p == [dev |-> dev, at |-> at, off |-> off, n |-> n, from |-> from, to |-> to]
  <2>1. p \in Puts
    BY Zenon DEF Puts
  <2> HIDE DEF p
  <2>2. Append(s.puts, p) \in Seq(Puts)
    BY <2>1 DEF Contexts
  <2> QED
    BY <2>2, Zenon DEF Put, p, Contexts, OnlyPuts
\* A panic only records its message.
<1>PanicType.
    ASSUME NEW s \in Contexts, NEW msg \in Messages PROVE KeepsSize(Panic(s, msg), s)
  BY <1>PanicType, Zenon DEF Panic, Contexts, KeepsSize
\* The fields that a piece sets once it has been written.
<1>RwoffType.
    ASSUME NEW s \in Contexts, NEW n, s.ip.rwoff + n \in Nat
    PROVE  KeepsSize([s EXCEPT !.ip.rwoff = @ + n], s)
  <2> USE <1>RwoffType
  <2> DEFINE v == s.ip.rwoff + n
  <2>1. v \in Nat
    BY Zenon
  <2> HIDE DEF v
  <2>2. KeepsSize([s EXCEPT !.ip.rwoff = v], s)
    BY <2>1, Zenon DEF Contexts, Ips, KeepsSize
  <2> QED BY <2>2, Zenon DEF v
\* The end of an append moves ssdoff and replaces the block tree.
<1>AppendedType.
    ASSUME NEW s \in Contexts, NEW n, s.ip.ssdoff + n \in Nat, NEW tree \in SUBSET Nodes
    PROVE  KeepsSize([s EXCEPT !.ip.ssdoff = @ + n, !.tree = tree], s)
  <2> USE <1>AppendedType
  <2> DEFINE v == s.ip.ssdoff + n
  <2>1. v \in Nat
    BY Zenon
  <2> HIDE DEF v
  <2>2. KeepsSize([s EXCEPT !.ip.ssdoff = v, !.tree = tree], s)
    BY <2>1, Zenon DEF Contexts, Ips, KeepsSize
  <2> QED BY <2>2, Zenon DEF v
\* Indexing whole blocks adds nodes that start at a block boundary.
<1>InsertType.
    ASSUME NEW tree \in SUBSET Nodes, NEW devid \in Devices, NEW addr \in Int,
           NEW off \in Nat, off % Block = 0, NEW size \in Nat \ {0}
    PROVE  insert_blktree(tree, devid, addr, off, size) \in SUBSET Nodes
  <2> USE <1>InsertType
  <2> DEFINE b == [devid |-> devid, fileoff |-> off, size |-> size, addr |-> addr \div Block]
             hit == block_search(tree, off)
  <2>1. b \in Nodes
    BY FileWriteAssumption DEF Nodes
  <2>2. b.size = size
    BY Zenon
  <2> HIDE DEF b
  <2>3. block_insert(tree, b) \in SUBSET Nodes
    <3> DEFINE joins == {n \in tree : /\ b.fileoff = n.fileoff + n.size
                                     /\ n.devid = b.devid
                                     /\ (b.addr - n.addr) * Block = n.size}
               n == CHOOSE n \in joins : TRUE
    <3>1. CASE joins # {}
      <4>1. n \in joins /\ n \in Nodes
        BY <3>1, Zenon
      <4> DEFINE m == [n EXCEPT !.size = @ + b.size]
      <4>2. block_insert(tree, b) = (tree \ {n}) \cup {m}
        BY <3>1, Zenon DEF block_insert
      <4> HIDE DEF n, joins
      <4>3. m \in Nodes
        BY <4>1, <2>2 DEF Nodes
      <4> HIDE DEF m
      <4> QED
        BY <4>2, <4>3, Zenon
    <3>2. CASE joins = {}
      BY <3>2, <2>1, Zenon DEF block_insert
    <3> QED BY <3>1, <3>2, Zenon
  <2> QED BY <2>1, <2>3, Zenon DEF insert_blktree, b
\* An append leaves a context.
<1>AppendPieceType.
    ASSUME NEW s \in Contexts, NEW off \in Nat, off % Block = 0, NEW size \in Nat \ {0},
           NEW check \in Nat, NEW strict \in BOOLEAN
    PROVE  KeepsSize(AppendPiece(s, off, size, check, strict), s)
  <2> USE <1>AppendPieceType
  <2> DEFINE t == AppendChunk(s)
             at == t.ip.ssdoff
             dev == t.ip.devid + 1
             from == Floor(at)
             u == Put(t, dev, from, off, size, off, off + size)
  <2>1. KeepsSize(t, s) /\ t \in Contexts
    BY AppendChunkType, Zenon DEF KeepsSize
  <2> HIDE DEF t
  <2>2. at \in Nat /\ t.ip.devid \in 0..3 /\ t.tree \in SUBSET Nodes
    BY <2>1, FieldsOf, Zenon
  <2>3. /\ at \in Int /\ dev \in Devices /\ off + size \in Nat /\ size \in Nat
        /\ from \in Int
    <3>1. dev \in Devices /\ off + size \in Nat
      BY <2>2 DEF Devices
    <3> HIDE DEF at
    <3>2. from \in Int
      BY <2>2, FileWriteAssumption DEF Floor
    <3> QED BY <2>2, <3>1, <3>2
  <2> HIDE DEF at, dev, from
  <2>4. OnlyPuts(u, t)
    BY <2>1, <2>3, <1>PutType, Zenon
  <2>5. u \in Contexts /\ u.ip = t.ip /\ u.tree = t.tree
    BY <2>4, Zenon DEF OnlyPuts
  <2>6. insert_blktree(t.tree, dev, at, off, size) \in SUBSET Nodes
    BY <2>2, <2>3, <1>InsertType, Zenon
  <2>7. t.ip.ssdoff + size \in Nat
    BY <2>2 DEF at
  <2> HIDE DEF u
  <2>8. KeepsSize([u EXCEPT !.ip.ssdoff = @ + size,
                            !.tree = insert_blktree(t.tree, dev, at, off, size)], u)
    BY <2>5, <2>6, <2>7, <1>AppendedType, Zenon
  <2>9. KeepsSize([u EXCEPT !.ip.ssdoff = @ + size,
                            !.tree = insert_blktree(@, dev, at, off, size)], s)
    BY <2>1, <2>5, <2>8, Zenon DEF KeepsSize
  <2>10. KeepsSize(Panic(t, "write addr error"), s)
    <3>1. KeepsSize(Panic(t, "write addr error"), t)
      BY <2>1, <1>PanicType, Zenon DEF Messages
    <3> QED BY <2>1, <3>1, Zenon DEF KeepsSize
  <2> QED
    BY <2>9, <2>10, Zenon DEF AppendPiece, t, at, dev, from, u
\* A block of the chunk for overwrites is written.
<1>InplacePutType.
    ASSUME NEW s \in Contexts, NEW n \in Int, NEW dev \in Devices, NEW off \in Nat,
           NEW k \in Nat, NEW from \in Nat, NEW to \in Nat
    PROVE  LET t == InplaceChunk(s, n)
           IN KeepsSize([Put(t, dev, t.ip.rwoff, off, k, from, to) EXCEPT !.ip.rwoff = @ + k], s)
  <2> USE <1>InplacePutType
  <2> DEFINE t == InplaceChunk(s, n)
             at == t.ip.rwoff
             u == Put(t, dev, at, off, k, from, to)
  <2>1. KeepsSize(t, s) /\ t \in Contexts
    BY <1>InplaceChunkType, Zenon DEF KeepsSize
  <2> HIDE DEF t
  <2>2. at \in Nat
    BY <2>1, FieldsOf, Zenon
  <2>3. at \in Int /\ at + k \in Nat
    BY <2>2
  <2> HIDE DEF at
  <2>4. OnlyPuts(u, t)
    BY <2>1, <2>3, <1>PutType, Zenon
  <2>5. u \in Contexts /\ u.ip = t.ip
    BY <2>4, Zenon DEF OnlyPuts
  <2> HIDE DEF u
  <2>6. KeepsSize([u EXCEPT !.ip.rwoff = @ + k], u)
    BY <2>3, <2>5, <1>RwoffType, Zenon DEF at
  <2>7. KeepsSize([u EXCEPT !.ip.rwoff = @ + k], s)
    BY <2>1, <2>5, <2>6, Zenon DEF KeepsSize
  <2> QED
    BY <2>7, Zenon DEF t, at, u
\* unaligned_smallwrite leaves a context, on each of its paths.
<1>SmallUnalignedType.
    ASSUME NEW s \in Contexts, NEW off \in Nat, NEW size \in Nat \ {0}
    PROVE  KeepsSize(unaligned_smallwrite(s, off, size), s)
  <2> USE <1>SmallUnalignedType
  <2> DEFINE al == Floor(off)
             hit == block_search(s.tree, al)
             n == CHOOSE n \in hit : TRUE
             t == InplaceChunk(s, 0)
             k == IF n.devid > 1 THEN Block - (off - al) ELSE size
             at == n.addr * Block + (n.fileoff - al) + (off - al)
             dev == n.devid
             u == Put(s, dev, at, off, k, off, off + size)
             tree == (s.tree \ {n}) \cup {[n EXCEPT !.size = @ + size]}
  <2>1. al \in Nat /\ off - al \in 0 .. Block - 1 /\ off + size \in Nat /\ size \in Nat
    <3>1. off % Block \in 0 .. Block - 1 /\ off % Block <= off /\ Block \in Nat
      BY Rounding, FileWriteAssumption, Zenon
    <3> QED BY <3>1 DEF Floor
  <2> HIDE DEF al
  <2>2. KeepsSize([Put(t, 1, t.ip.rwoff, al, Block, off, off + size)
                     EXCEPT !.ip.rwoff = @ + Block], s)
    <3>1. 1 \in Devices /\ Block \in Nat /\ 0 \in Int
      BY FileWriteAssumption DEF Devices
    <3> QED BY <2>1, <3>1, <1>InplacePutType, Zenon
  <2>3. ASSUME hit # {}
        PROVE  KeepsSize([u EXCEPT !.ip.ssdoff = @ + size,
                                   !.tree = (@ \ {n}) \cup {[n EXCEPT !.size = @ + size]}], s)
    <3>1. n \in hit /\ n \in Nodes /\ hit \subseteq s.tree
      BY <2>3, Zenon DEF block_search, Contexts
    <3> HIDE DEF n, hit
    <3>2. n.devid \in Devices /\ n.fileoff \in Nat /\ n.addr \in Int
      BY <3>1, Zenon DEF Nodes
    <3>3. k \in Nat /\ at \in Int /\ dev \in Devices
      BY <2>1, <3>2, FileWriteAssumption DEF Devices
    <3> HIDE DEF k, at, dev
    <3>4. OnlyPuts(u, s)
      BY <2>1, <3>3, <1>PutType, Zenon
    <3>5. u \in Contexts /\ u.ip = s.ip /\ u.tree = s.tree
      BY <3>4, Zenon DEF OnlyPuts
    <3> HIDE DEF u
    <3>6. [n EXCEPT !.size = @ + size] \in Nodes
      BY <3>1 DEF Nodes
    <3>7. tree \in SUBSET Nodes
      BY <3>6, FieldsOf, Zenon
    <3>8. u.ip.ssdoff + size \in Nat
      <4>1. u.ip.ssdoff \in Nat
        BY <3>5, FieldsOf, Zenon
      <4> QED BY <4>1
    <3> HIDE DEF tree
    <3>9. KeepsSize([u EXCEPT !.ip.ssdoff = @ + size, !.tree = tree], u)
      BY <3>5, <3>7, <3>8, <1>AppendedType, Zenon
    <3> QED BY <3>5, <3>9, Zenon DEF KeepsSize, tree
  <2>4. /\ KeepsSize(Panic(s, "unaligned_smallwrite bug!!"), s)
        /\ KeepsSize(Panic(s, "write not supported"), s)
    BY <1>PanicType, Zenon DEF Messages
  <2> QED
    BY <2>2, <2>3, <2>4, Zenon DEF unaligned_smallwrite, al, hit, n, t, k, at, dev, u
\* So does aligned_smallwrite.
<1>SmallAlignedType.
    ASSUME NEW s \in Contexts, NEW off \in Nat, off % Block = 0, NEW size \in Nat \ {0}
    PROVE  KeepsSize(aligned_smallwrite(s, off, size), s)
  <2> USE <1>SmallAlignedType
  <2> DEFINE t == InplaceChunk(s, 0)
  <2>1. KeepsSize([Put(t, 1, t.ip.rwoff, off, Block, off, off + size)
                     EXCEPT !.ip.rwoff = @ + Block], s)
    <3>1. 1 \in Devices /\ Block \in Nat /\ 0 \in Int /\ off + size \in Nat
      BY FileWriteAssumption DEF Devices
    <3> QED BY <3>1, <1>InplacePutType, Zenon
  <2>2. KeepsSize(AppendPiece(s, off, size, off, FALSE), s)
    BY <1>AppendPieceType, Zenon
  <2>3. KeepsSize(Panic(s, "null block node"), s) /\ KeepsSize(s, s)
    BY <1>PanicType, Zenon DEF Messages, KeepsSize
  <2> QED
    BY <2>1, <2>2, <2>3, Zenon DEF aligned_smallwrite, t
\* So does aligned_write, given whole blocks.
<1>AlignedType.
    ASSUME NEW s \in Contexts, NEW off \in Nat, off % Block = 0,
           NEW size \in Nat \ {0}, size % Block = 0
    PROVE  KeepsSize(aligned_write(s, off, size), s)
  <2> USE <1>AlignedType
  <2> DEFINE inplace == Ceil(s.ip.size) - off
             t == InplaceChunk(s, inplace)
             u == InplaceChunk(s, size)
             p == [Put(t, 1, t.ip.rwoff, off, inplace, off, off + inplace)
                     EXCEPT !.ip.rwoff = @ + inplace]
  <2>0. s.ip.size \in Nat
    BY FieldsOf, Zenon
  <2>1. KeepsSize(AppendPiece(s, off, size, off, TRUE), s) /\ KeepsSize(s, s)
    <3>1. KeepsSize(AppendPiece(s, off, size, off, TRUE), s)
      BY <1>AppendPieceType, Zenon
    <3> QED BY <3>1, Zenon DEF KeepsSize
  <2>2. ASSUME off < s.ip.size, Ceil(off + size) > Ceil(s.ip.size)
        PROVE  KeepsSize(AppendPiece(p, off + inplace, size - inplace, off, TRUE), s)
    <3>1. /\ inplace \in Nat /\ inplace % Block = 0 /\ (off + inplace) % Block = 0
          /\ off + inplace \in Nat /\ size - inplace \in Nat \ {0}
      <4>1. Ceil(s.ip.size) \in Nat /\ Ceil(s.ip.size) % Block = 0 /\ s.ip.size <= Ceil(s.ip.size)
        BY <2>0, Ceiling, Zenon
      <4>2. Ceil(off + size) = off + size
        <5>1. off + size \in Nat /\ off \in Int /\ size \in Int
          OBVIOUS
        <5>2. (off + size) % Block = 0
          BY <5>1, MultiplesSum, Zenon
        <5> QED BY <5>1, <5>2, Ceiling, Zenon
      <4>3. (Ceil(s.ip.size) - off) % Block = 0
        <5>1. Ceil(s.ip.size) \in Int /\ off \in Int
          BY <4>1
        <5> QED BY <4>1, <5>1, MultiplesLess, Zenon
      <4> QED BY <2>0, <2>2, <4>1, <4>2, <4>3
    <3> HIDE DEF inplace
    <3>2. 1 \in Devices /\ inplace \in Int
      BY <3>1 DEF Devices
    <3>3. KeepsSize(p, s)
      BY <3>1, <3>2, <1>InplacePutType, Zenon
    <3>4. p \in Contexts
      BY <3>3, Zenon DEF KeepsSize
    <3> HIDE DEF p
    <3>5. KeepsSize(AppendPiece(p, off + inplace, size - inplace, off, TRUE), p)
      BY <3>1, <3>4, <1>AppendPieceType, Zenon
    <3> QED BY <3>3, <3>5, Zenon DEF KeepsSize
  <2>3. KeepsSize([Put(u, u.ip.devid + 1, u.ip.rwoff, off, size, off, off + size)
                     EXCEPT !.ip.rwoff = @ + size], s)
    <3> DEFINE dev == u.ip.devid + 1
    <3>1. size \in Int /\ size \in Nat /\ off + size \in Nat
      OBVIOUS
    <3>2. u \in Contexts
      BY <3>1, <1>InplaceChunkType, Zenon DEF KeepsSize
    <3> HIDE DEF u
    <3>3. u.ip.devid \in 0..3
      BY <3>2, FieldsOf, Zenon
    <3>4. dev \in Devices
      BY <3>3 DEF Devices
    <3> HIDE DEF dev
    <3>5. KeepsSize([Put(u, dev, u.ip.rwoff, off, size, off, off + size)
                       EXCEPT !.ip.rwoff = @ + size], s)
      BY <3>1, <3>4, <1>InplacePutType, Zenon DEF u
    <3> QED BY <3>5, Zenon DEF dev
  <2> HIDE DEF p
  <2>4. CASE off = s.ip.size
    BY <2>1, <2>4, Zenon DEF aligned_write
  <2>5. CASE off > s.ip.size
    BY <2>0, <2>1, <2>5, Zenon DEF aligned_write
  <2>6. CASE off < s.ip.size
    <3>0. off # s.ip.size /\ ~(off > s.ip.size)
      BY <2>0, <2>6
    <3>1. CASE Ceil(off + size) > Ceil(s.ip.size)
      <4>1. aligned_write(s, off, size) = AppendPiece(p, off + inplace, size - inplace, off, TRUE)
        BY <3>0, <3>1, Zenon DEF aligned_write, p
      <4> QED BY <2>2, <2>6, <3>1, <4>1, Zenon
    <3>2. CASE ~(Ceil(off + size) > Ceil(s.ip.size))
      <4>1. aligned_write(s, off, size)
              = [Put(u, u.ip.devid + 1, u.ip.rwoff, off, size, off, off + size)
                   EXCEPT !.ip.rwoff = @ + size]
        BY <3>0, <3>2, Zenon DEF aligned_write
      <4> QED BY <2>3, <4>1, Zenon
    <3> QED BY <3>1, <3>2, Zenon
  <2> QED
    BY <2>0, <2>4, <2>5, <2>6
\* So does snfs_write, given what userfs_file_write calls it with.
<1>SnfsWriteType.
    ASSUME NEW s \in Contexts, NEW off \in Nat, NEW size \in Nat \ {0},
           off % Block = 0 /\ size >= Block => size % Block = 0
    PROVE  KeepsSize(snfs_write(s, off, size), s)
  <2> USE <1>SnfsWriteType
  <2>1. CASE off % Block # 0
    <3>1. KeepsSize(Panic(s, "write exist bug"), s)
      BY <1>PanicType, Zenon DEF Messages
    <3> QED BY <2>1, <3>1, <1>SmallUnalignedType, Zenon DEF snfs_write
  <2>2. CASE off % Block = 0 /\ size < Block
    BY <2>2, <1>SmallAlignedType, Zenon DEF snfs_write
  <2>3. CASE off % Block = 0 /\ ~(size < Block)
    <3>1. size % Block = 0
      BY <2>3, FileWriteAssumption
    <3> QED BY <2>3, <3>1, <1>AlignedType, Zenon DEF snfs_write
  <2> QED
    BY <2>1, <2>2, <2>3, Zenon
\* A piece is not empty, is part of what is left, and is a part of one block or
\* whole blocks.
<1>PieceSizes.
    ASSUME NEW off \in Nat, NEW left \in Nat \ {0}
    PROVE  LET size == PieceSize(off, left) IN
           /\ size \in 1 .. left
           /\ off % Block = 0 /\ size >= Block => size % Block = 0
           /\ size <= LBlock
  <2> USE <1>PieceSizes
  <2> DEFINE size == PieceSize(off, left)
  <2>1. Block \in Nat \ {0} /\ LBlock \in Nat \ {0} /\ LBlock % Block = 0 /\ Block <= LBlock
    <3>1. Block \in Nat \ {0} /\ LBlock \in Nat \ {0} /\ LBlock % Block = 0 /\ 0 % Block = 0
      BY FileWriteAssumption
    <3>2. 0 + Block <= LBlock
      BY <3>1, MultiplesApart
    <3> QED BY <3>1, <3>2
  <2>2. /\ off % Block \in 0 .. Block - 1 /\ off % LBlock \in 0 .. LBlock - 1
        /\ left % Block \in 0 .. Block - 1 /\ left % Block <= left
        /\ (left - (left % Block)) % Block = 0
    BY <2>1, Rounding, Zenon
  <2>3. CASE off % Block # 0
    BY <2>1, <2>2, <2>3 DEF PieceSize
  <2>4. CASE off % Block = 0 /\ left < Block
    BY <2>1, <2>2, <2>4 DEF PieceSize
  <2>5. CASE off % Block = 0 /\ ~(left < Block) /\ Floor(left) < LBlock - (off % LBlock)
    <3>1. size = left - (left % Block)
      BY <2>5, Zenon DEF PieceSize, Floor
    <3> QED BY <2>1, <2>2, <2>5, <3>1 DEF Floor
  <2>6. CASE off % Block = 0 /\ ~(left < Block) /\ ~(Floor(left) < LBlock - (off % LBlock))
    <3>1. size = LBlock - (off % LBlock)
      BY <2>6, Zenon DEF PieceSize
    <3>2. (off % LBlock) % Block = 0
      <4> DEFINE q == off \div LBlock
                 r == LBlock \div Block
      <4>1. off = LBlock * q + (off % LBlock) /\ q \in Int /\ LBlock = Block * r /\ r \in Int
        BY <2>1
      <4>2. (Block * (r * q)) % Block = 0 /\ Block * (r * q) = LBlock * q /\ LBlock * q \in Int
        <5>1. \A i, j, k \in Int : i * (j * k) = (i * j) * k /\ j * k \in Int
          OBVIOUS
        <5>2. \A b \in Nat \ {0}, k \in Int : (b * k) % b = 0
          OBVIOUS
        <5>3. /\ r * q \in Int /\ r \in Int /\ q \in Int
              /\ Block \in Nat \ {0} /\ Block \in Int /\ LBlock \in Int
          BY <2>1, <4>1
        <5> HIDE DEF q, r
        <5>4. (Block * (r * q)) % Block = 0
          BY <5>2, <5>3, Zenon
        <5>5. Block * (r * q) = (Block * r) * q
          BY <5>1, <5>3, Zenon
        <5>6. LBlock * q \in Int
          BY <5>1, <5>3, Zenon
        <5>7. LBlock * q = (Block * r) * q
          BY <4>1, Zenon
        <5> QED BY <5>4, <5>5, <5>6, <5>7, Zenon
      <4>3. off % LBlock = off - LBlock * q /\ off \in Int
        BY <2>2, <4>1, <4>2
      <4>4. (off - LBlock * q) % Block = 0
        BY <2>6, <4>2, <4>3, MultiplesLess, Zenon
      <4> QED BY <4>3, <4>4, Zenon
    <3>3. (LBlock - (off % LBlock)) % Block = 0
      <4>1. LBlock \in Int /\ off % LBlock \in Int
        BY <2>1, <2>2
      <4> QED BY <2>1, <3>2, <4>1, MultiplesLess, Zenon
    <3> QED BY <2>1, <2>2, <2>6, <3>1, <3>3 DEF Floor
  <2> QED
    BY <2>3, <2>4, <2>5, <2>6, Zenon
<1> SUFFICES ASSUME Types, NEW w \in Writers, fd[w].left > 0
             PROVE  LET f == Target[w]
                        size == PieceSize(fd[w].off, fd[w].left)
                        s == snfs_write(Context(f), fd[w].off, size)
                    IN /\ f \in Files /\ size \in 1 .. fd[w].left
                       /\ s \in Contexts /\ s.ip.size = inode[f].size
  BY Zenon
<1> DEFINE f == Target[w]
           size == PieceSize(fd[w].off, fd[w].left)
           s == snfs_write(Context(f), fd[w].off, size)
<1>1. fd[w] \in Descriptors /\ f \in Files
  BY FileWriteAssumption, Zenon DEF Types
<1>2. fd[w].off \in Nat /\ fd[w].left \in Nat
  BY <1>1, Zenon DEF Descriptors
<1>3. size \in 1 .. fd[w].left /\ (fd[w].off % Block = 0 /\ size >= Block => size % Block = 0)
  <2>1. fd[w].left \in Nat \ {0}
    BY <1>2
  <2> QED BY <1>2, <2>1, <1>PieceSizes, Zenon
<1>4. size \in Nat \ {0}
  BY <1>2, <1>3
<1> HIDE DEF f, size
<1>5. Context(f) \in Contexts /\ Context(f).ip = inode[f]
  BY <1>1, ContextType, Zenon DEF Context
<1>6. KeepsSize(s, Context(f))
  BY <1>2, <1>3, <1>4, <1>5, <1>SnfsWriteType, Zenon
<1> QED
  BY <1>1, <1>3, <1>5, <1>6, Zenon DEF KeepsSize, f, size

-----------------------------------------------------------------------------
(* The size of a file that one writer at a time has open.                  *)

\* No two writers have a file open.
OneWriter == \A w, x \in Writers : Target[w] = Target[x] => w = x

Larger(a, b) == IF a > b THEN a ELSE b

\* Also in the middle of a write the size is the extent of what is written, and
\* the size to be stored is what it will be at the end.
Sizes ==
  panicked = "" =>
    \A w \in Writers :
      LET f == Target[w] IN
      /\ \A u \in FileUnits : u < inode[f].size <=> latest[f][u] # 0
      /\ fd[w].busy => /\ fd[w].off <= inode[f].size /\ fd[w].ver # 0
                       /\ fd[w].file_size = Larger(fd[w].off + fd[w].left, inode[f].size)

\* New files are empty.
LEMMA SizesInit == Init => Sizes
<1> SUFFICES ASSUME Init, NEW w \in Writers
             PROVE  /\ \A u \in FileUnits : u < inode[Target[w]].size <=> latest[Target[w]][u] # 0
                    /\ ~ fd[w].busy
  BY Zenon DEF Sizes
<1>1. Target[w] \in Files
  BY FileWriteAssumption, Zenon
<1>2. inode[Target[w]].size = 0 /\ \A u \in FileUnits : latest[Target[w]][u] = 0
  BY <1>1, Zenon DEF Init
<1>3. \A u \in FileUnits : ~ (u < 0)
  BY DEF FileUnits
<1>4. ~ fd[w].busy
  BY Zenon DEF Init
<1> QED
  BY <1>2, <1>3, <1>4, Zenon

\* Every step keeps the sizes right.
LEMMA SizesNext == ASSUME OneWriter PROVE Types /\ Sizes /\ [Next]_vars => Sizes'
\* A write starts inside the file or at its end.
<1>SizesBegin.
    ASSUME OneWriter, Types, Sizes, NEW w \in Writers, NEW off \in Nat, NEW n \in Nat,
           BeginWrite(w, off, n)
    PROVE  Sizes'
  <2> USE <1>SizesBegin
  <2> SUFFICES ASSUME NEW x \in Writers
               PROVE
        /\ \A u \in FileUnits : u < inode'[Target[x]].size <=> latest'[Target[x]][u] # 0
        /\ fd'[x].busy =>
             /\ fd'[x].off <= inode'[Target[x]].size /\ fd'[x].ver # 0
             /\ fd'[x].file_size = Larger(fd'[x].off + fd'[x].left, inode'[Target[x]].size)
    BY Zenon DEF Sizes
  <2> DEFINE f == Target[x]
  <2>1. f \in Files /\ inode \in [Files -> Ips] /\ inode[f] \in Ips /\ Target[w] \in Files
    BY FileWriteAssumption, Zenon DEF Types
  <2>2. latest' = latest /\ inode'[f].size = inode[f].size
    <3>1. latest' = latest /\ inode' = [inode EXCEPT ![Target[w]].writes = @ + 1]
      BY Zenon DEF BeginWrite
    <3>2. \A v : [inode[Target[w]] EXCEPT !.writes = v].size = inode[Target[w]].size
      BY <2>1, Zenon DEF Ips
    <3> QED BY <2>1, <3>1, <3>2, Zenon
  <2>3. panicked = ""
    BY Zenon DEF BeginWrite
  <2>4. \A u \in FileUnits : u < inode[f].size <=> latest[f][u] # 0
    BY <2>3, Zenon DEF Sizes
  <2>5. CASE x = w
    <3>1. inode[f].size \in Nat /\ inode[f].writes \in Nat
      BY <2>1, Zenon DEF Ips
    <3>2. /\ fd'[x].off = off /\ fd'[x].left = n /\ fd'[x].ver = inode[f].writes + 1
          /\ fd'[x].file_size = Larger(off + n, inode[f].size)
      BY <2>5, Zenon DEF BeginWrite, Types, Larger
    <3>3. off <= inode[f].size
      <4>1. Allowed(inode[f], off, n)
        BY <2>5, Zenon DEF BeginWrite
      <4>2. off = inode[f].size \/ off + n <= inode[f].size \/ off < inode[f].size
        BY <4>1, Zenon DEF Allowed
      <4> QED BY <3>1, <4>2
    <3>4. inode[f].writes + 1 # 0
      BY <3>1
    <3> QED BY <2>2, <2>4, <3>2, <3>3, <3>4, Zenon
  <2>6. CASE x # w
    <3>1. fd'[x] = fd[x]
      BY <2>6, Zenon DEF BeginWrite, Types
    <3>2. fd[x].busy => /\ fd[x].off <= inode[f].size /\ fd[x].ver # 0
                       /\ fd[x].file_size = Larger(fd[x].off + fd[x].left, inode[f].size)
      BY <2>3, Zenon DEF Sizes
    <3> QED BY <2>2, <2>4, <3>1, <3>2, Zenon
  <2> QED
    BY <2>5, <2>6, Zenon
\* Steps of a writer leave the file of another writer alone.
<1>Apart.
    ASSUME OneWriter, Types, Sizes, panicked = "", NEW w \in Writers, NEW x \in Writers, x # w,
           \A f \in Files : f # Target[w] => inode'[f] = inode[f] /\ latest'[f] = latest[f],
           fd'[x] = fd[x]
    PROVE
        /\ \A u \in FileUnits : u < inode'[Target[x]].size <=> latest'[Target[x]][u] # 0
        /\ fd'[x].busy =>
             /\ fd'[x].off <= inode'[Target[x]].size /\ fd'[x].ver # 0
             /\ fd'[x].file_size = Larger(fd'[x].off + fd'[x].left, inode'[Target[x]].size)
  <2> USE <1>Apart
  <2> DEFINE f == Target[x]
  <2>1. f # Target[w] /\ f \in Files
    BY FileWriteAssumption, Zenon DEF OneWriter
  <2>2. inode'[f] = inode[f] /\ latest'[f] = latest[f]
    BY <2>1, Zenon
  <2>3. \A u \in FileUnits : u < inode[f].size <=> latest[f][u] # 0
    BY Zenon DEF Sizes
  <2>4. fd[x].busy => /\ fd[x].off <= inode[f].size /\ fd[x].ver # 0
                     /\ fd[x].file_size = Larger(fd[x].off + fd[x].left, inode[f].size)
    BY Zenon DEF Sizes
  <2> QED
    BY <2>2, <2>3, <2>4, Zenon
\* The sizes before and after a piece of n of the l units at o, file size z.
<1>SizeSteps.
    ASSUME NEW o \in Nat, NEW z \in Nat, NEW l \in Nat, NEW n \in 1..l, o <= z
    PROVE  /\ o + n <= Larger(o + n, z)
           /\ Larger(o + l, z) = Larger((o + n) + (l - n), Larger(o + n, z))
           /\ \A u \in FileUnits : u < Larger(o + n, z) <=> (o <= u /\ u < o + n) \/ u < z
  <2> USE <1>SizeSteps
  <2>1. n \in Nat /\ n <= l /\ \A u \in FileUnits : u \in Nat
    BY FileWriteAssumption DEF FileUnits
  <2>2. CASE o + n > z
    <3>1. Larger(o + n, z) = o + n /\ Larger(o + l, z) = o + l
      BY <2>1, <2>2 DEF Larger
    <3>2. (o + n) + (l - n) = o + l
      BY <2>1
    <3>3. Larger(o + l, o + n) = o + l
      BY <2>1 DEF Larger
    <3>4. o + n <= o + n /\ \A u \in Nat : u < o + n <=> (o <= u /\ u < o + n) \/ u < z
      BY <2>1, <2>2
    <3> QED BY <2>1, <3>1, <3>2, <3>3, <3>4, Zenon
  <2>3. CASE ~ (o + n > z)
    <3>1. Larger(o + n, z) = z
      BY <2>1, <2>3, Zenon DEF Larger
    <3>2. (o + n) + (l - n) = o + l
      BY <2>1
    <3> QED BY <2>1, <2>3, <3>1, <3>2
  <2> QED
    BY <2>2, <2>3, Zenon
\* A piece extends the file as far as it writes.
<1>SizesPiece.
    ASSUME OneWriter, Types, Sizes, NEW w \in Writers, WritePiece(w)
    PROVE  Sizes'
  <2> USE <1>SizesPiece
  <2> SUFFICES ASSUME panicked' = "", NEW x \in Writers
               PROVE
        /\ \A u \in FileUnits : u < inode'[Target[x]].size <=> latest'[Target[x]][u] # 0
        /\ fd'[x].busy =>
             /\ fd'[x].off <= inode'[Target[x]].size /\ fd'[x].ver # 0
             /\ fd'[x].file_size = Larger(fd'[x].off + fd'[x].left, inode'[Target[x]].size)
    BY Zenon DEF Sizes
  <2> DEFINE f == Target[w]
             off == fd[w].off
             left == fd[w].left
             size == PieceSize(off, fd[w].left)
             s == snfs_write(Context(f), off, size)
             ip == IF off + size > s.ip.size /\ s.panic = "" THEN [s.ip EXCEPT !.size = off + size]
                   ELSE s.ip
  <2>1. fd[w].left > 0 /\ panicked = "" /\ fd[w].busy
    BY Zenon DEF WritePiece
  <2>2. f \in Files /\ size \in 1 .. left /\ s \in Contexts /\ s.ip.size = inode[f].size
    BY <2>1, PieceTypes, Zenon
  <2>3. /\ inode' = [inode EXCEPT ![f] = ip] /\ panicked' = s.panic
        /\ latest' = [latest EXCEPT ![f] = [u \in FileUnits |->
                        IF off <= u /\ u < off + size THEN fd[w].ver ELSE @[u]]]
        /\ fd' = [fd EXCEPT ![w].off = off + size, ![w].left = @ - size]
    BY Zenon DEF WritePiece
  <2>4. off \in Nat /\ left \in Nat /\ fd[w] \in Descriptors
    BY Zenon DEF Types, Descriptors
  <2>5. s.ip \in Ips /\ inode[f].size \in Nat
    BY <2>2, FieldsOf, Zenon
  <2>6. inode \in [Files -> Ips] /\ latest \in [Files -> [FileUnits -> Nat]]
        /\ fd \in [Writers -> Descriptors]
    BY Zenon DEF Types
  <2>7. /\ \A u \in FileUnits : u < inode[f].size <=> latest[f][u] # 0
        /\ off <= inode[f].size /\ fd[w].ver # 0
        /\ fd[w].file_size = Larger(off + left, inode[f].size)
    BY <2>1, Zenon DEF Sizes
  <2> HIDE DEF s, size, f, left
  <2>8. CASE x # w
    <3>1. \A g \in Files : g # f => inode'[g] = inode[g] /\ latest'[g] = latest[g]
      BY <2>3, <2>6, Zenon
    <3>2. fd'[x] = fd[x]
      BY <2>3, <2>6, <2>8, Zenon
    <3> QED BY <2>1, <2>8, <3>1, <3>2, <1>Apart, Zenon DEF f
  <2>9. CASE x = w
    <3>1. inode'[f].size = Larger(off + size, inode[f].size)
      <4> DEFINE v == off + size
      <4> HIDE DEF v
      <4>1. [s.ip EXCEPT !.size = v].size = v
        BY <2>5, Zenon DEF Ips
      <4>2. ip.size = IF v > inode[f].size THEN v ELSE inode[f].size
        BY <2>2, <2>3, <4>1, Zenon DEF v
      <4>3. inode'[f] = ip
        BY <2>2, <2>3, <2>6, Zenon
      <4> QED BY <4>2, <4>3, Zenon DEF v, Larger
    <3>2. \A u \in FileUnits :
            latest'[f][u] = IF off <= u /\ u < off + size THEN fd[w].ver ELSE latest[f][u]
      BY <2>2, <2>3, <2>6, Zenon
    <3>3. fd'[x].off = off + size /\ fd'[x].left = left - size /\ fd'[x].ver = fd[w].ver
          /\ fd'[x].file_size = fd[w].file_size
      BY <2>3, <2>4, <2>6, <2>9, Zenon DEF Descriptors, left
    <3> DEFINE z == inode[f].size
               o == fd[w].off
    <3>4. o \in Nat /\ z \in Nat /\ left \in Nat /\ size \in 1..left /\ o <= z
      BY <2>2, <2>4, <2>5, <2>7, Zenon
    <3> HIDE DEF z, o
    <3>5. /\ o + size <= Larger(o + size, z)
          /\ Larger(o + left, z) = Larger((o + size) + (left - size), Larger(o + size, z))
          /\ \A u \in FileUnits : u < Larger(o + size, z) <=> (o <= u /\ u < o + size) \/ u < z
      BY <3>4, <1>SizeSteps, Zenon
    <3>6. \A u \in FileUnits : u < Larger(o + size, z) <=> (o <= u /\ u < o + size) \/ u < z
      BY <3>5, Zenon
    <3>7. \A u \in FileUnits : u < inode'[f].size <=> latest'[f][u] # 0
      BY <2>7, <3>1, <3>2, <3>6, Zenon DEF o, z
    <3>8. fd'[x].off <= inode'[f].size
      BY <3>1, <3>3, <3>5, Zenon DEF o, z
    <3>9. fd'[x].file_size = Larger(fd'[x].off + fd'[x].left, inode'[f].size)
      BY <2>7, <3>1, <3>3, <3>5, Zenon DEF o, z
    <3> QED BY <2>7, <2>9, <3>3, <3>7, <3>8, <3>9, Zenon DEF f
  <2> QED
    BY <2>8, <2>9, Zenon
\* The size stored at the end is the size the pieces left.
<1>SizesEnd.
    ASSUME OneWriter, Types, Sizes, NEW w \in Writers, EndWrite(w)
    PROVE  Sizes'
  <2> USE <1>SizesEnd
  <2> SUFFICES ASSUME NEW x \in Writers
               PROVE
        /\ \A u \in FileUnits : u < inode'[Target[x]].size <=> latest'[Target[x]][u] # 0
        /\ fd'[x].busy =>
             /\ fd'[x].off <= inode'[Target[x]].size /\ fd'[x].ver # 0
             /\ fd'[x].file_size = Larger(fd'[x].off + fd'[x].left, inode'[Target[x]].size)
    BY Zenon DEF Sizes
  <2> DEFINE f == Target[w]
  <2>1. fd[w].left = 0 /\ panicked = "" /\ fd[w].busy /\ latest' = latest
        /\ inode' = [inode EXCEPT ![f].size = fd[w].file_size]
        /\ fd' = [fd EXCEPT ![w].busy = FALSE]
    BY Zenon DEF EndWrite
  <2>2. inode \in [Files -> Ips] /\ fd \in [Writers -> Descriptors] /\ f \in Files
        /\ inode[f] \in Ips /\ fd[w] \in Descriptors
    BY FileWriteAssumption, Zenon DEF Types
  <2>3. CASE x # w
    <3>1. \A g \in Files : g # f => inode'[g] = inode[g] /\ latest'[g] = latest[g]
      BY <2>1, <2>2, Zenon
    <3>2. fd'[x] = fd[x]
      BY <2>1, <2>2, <2>3, Zenon
    <3> QED BY <2>1, <2>3, <3>1, <3>2, <1>Apart, Zenon
  <2>4. CASE x = w
    <3>1. ~ fd'[x].busy
      BY <2>1, <2>2, <2>4, Zenon DEF Descriptors
    <3>2. inode'[f].size = fd[w].file_size
      BY <2>1, <2>2, Zenon DEF Ips
    <3>3. fd[w].off \in Nat /\ inode[f].size \in Nat
      BY <2>2, Zenon DEF Descriptors, Ips
    <3>4. fd[w].off <= inode[f].size /\ fd[w].file_size = Larger(fd[w].off + 0, inode[f].size)
      BY <2>1, Zenon DEF Sizes
    <3>5. fd[w].file_size = inode[f].size
      BY <3>3, <3>4 DEF Larger
    <3>6. \A u \in FileUnits : u < inode[f].size <=> latest[f][u] # 0
      BY <2>1, Zenon DEF Sizes
    <3> QED BY <2>1, <2>4, <3>1, <3>2, <3>5, <3>6, Zenon
  <2> QED
    BY <2>3, <2>4, Zenon
<1> SUFFICES ASSUME Types, Sizes, [Next]_vars PROVE Sizes'
  BY Zenon
<1>1. CASE UNCHANGED vars
  BY <1>1, Zenon DEF vars, Sizes
<1>2. ASSUME NEW w \in Writers, NEW i \in 0..(MaxSize \div Grain),
             NEW k \in 0..(MaxSize \div Grain), BeginWrite(w, i * Grain, k * Grain)
      PROVE  Sizes'
  <2>1. i \in Nat /\ k \in Nat /\ Grain \in Nat
    BY FileWriteAssumption
  <2>2. i * Grain \in Nat /\ k * Grain \in Nat
    BY <2>1
  <2> QED BY <1>2, <2>2, <1>SizesBegin, Zenon
<1>3. ASSUME NEW w \in Writers, WritePiece(w) \/ EndWrite(w) PROVE Sizes'
  BY <1>3, <1>SizesPiece, <1>SizesEnd, Zenon
<1>4. ASSUME NEW f \in Files, OpenAgain(f) PROVE Sizes'
  <2>1. \A g \in Files : inode'[g].size = inode[g].size
    BY <1>4, Zenon DEF OpenAgain, Types, Ips
  <2>2. latest' = latest /\ fd' = fd /\ panicked' = panicked
    BY <1>4, Zenon DEF OpenAgain
  <2>3. \A w \in Writers : Target[w] \in Files
    BY FileWriteAssumption, Zenon
  <2> QED BY <2>1, <2>2, <2>3, Zenon DEF Sizes
<1> QED
  BY <1>1, <1>2, <1>3, <1>4, Zenon DEF Next

-----------------------------------------------------------------------------
(* Files that only grow, by whole blocks.                                  *)

\* Every call appends whole blocks, a file has one writer, and a chunk is
\* smaller than what an address can hold.
AppendOnly ==
  /\ Workload = {"append"} /\ Grain % Block = 0 /\ OneWriter
  /\ LBlock < AddrMod

\* How much of its last chunk a file of z units has used, where that chunk
\* starts, and where the chunks of a device that are not given out yet do.
Fill(z) == IF z % LBlock = 0 THEN LBlock ELSE z % LBlock
Base(ip) == ip.ssdoff - Fill(ip.size)
Limit(nvm, ssd, dev) == IF dev = 1 THEN nvm ELSE ssd[dev - 1] * LBlock

\* The place of the next append keeps step with the size of the file.
Headed(ip) ==
  /\ ip.size % Block = 0
  /\ ip.size = 0 => ip.devid = 0 /\ ip.ssdoff = 0
  /\ ip.size > 0 => /\ Base(ip) \in Nat /\ Base(ip) % LBlock = 0
                    /\ ip.devid = 0 => ip.usednvms = Base(ip)

\* A writer appends whole blocks.
Appends(w) ==
  fd[w].busy => fd[w].off = inode[Target[w]].size /\ fd[w].left % Block = 0

\* Where the log says unit u of a file is, by the file's extents.
PlaceOf(ext, u) == <<ext[u \div Block][1], ext[u \div Block][2] * Block + (u % Block)>>

\* The block tree says the same.
Indexed(tree, ext, size) ==
  /\ \A n \in tree :
       /\ n.fileoff + n.size <= size
       /\ \A u \in n.fileoff .. (n.fileoff + n.size) - 1 :
            PlaceOf(ext, u) = <<n.devid, n.addr * Block + (u - n.fileoff)>>
  /\ \A u \in 0 .. size - 1 : block_search(tree, u) # {}

\* Address a of dev is below what the allocators give out next and not in the
\* part of a chunk that a file still has to fill.
InUse(ino, nvm, ssd, dev, a) ==
  /\ a \in Nat /\ a < Limit(nvm, ssd, dev)
  /\ \A g \in Files :
       ino[g].size > 0 /\ ino[g].devid + 1 = dev =>
         a < ino[g].ssdoff \/ Base(ino[g]) + LBlock <= a

Placed(f, u) ==
  LET p == PlaceOf(extent[f], u)
  IN /\ p[1] \in Devices
     /\ InUse(inode, nvm_block_addr, ssd_block_addr, p[1], p[2])
     /\ p[2] < Space => media[p[1]][p[2]] = <<f, u, latest[f][u]>>

\* Last chunks are given out, and to one file each.
ChunksApart ==
  /\ \A f \in Files :
       inode[f].size > 0 =>
         Base(inode[f]) + LBlock <= Limit(nvm_block_addr, ssd_block_addr, inode[f].devid + 1)
  /\ \A f, g \in Files :
       f # g /\ inode[f].size > 0 /\ inode[g].size > 0 /\ inode[f].devid = inode[g].devid =>
         Base(inode[f]) + LBlock <= Base(inode[g]) \/ Base(inode[g]) + LBlock <= Base(inode[f])

Growing ==
  /\ panicked = "" /\ nvm_block_addr % LBlock = 0
  /\ \A w \in Writers : Appends(w)
  /\ \A f \in Files : Headed(inode[f]) /\ Indexed(blktree[f], extent[f], inode[f].size)
  /\ ~wrapped => ChunksApart /\ \A f \in Files : \A u \in 0 .. inode[f].size - 1 : Placed(f, u)

\* What allocating a chunk of the device d leaves of the context s.
ChunkTaken(t, s, d) ==
  /\ t.ip.devid = d /\ t.tree = s.tree /\ t.puts = s.puts /\ t.panic = s.panic
  /\ d = 0 => /\ t.nvm = allocate_nvmblock(s) + LBlock /\ t.ssd = s.ssd
              /\ ~t.wrapped => ~s.wrapped /\ s.nvm + LBlock <= NvmSize
  /\ d # 0 => /\ t.nvm = s.nvm /\ t.ssd = [s.ssd EXCEPT ![d] = @ + 1]
              /\ t.wrapped = s.wrapped

\* An append that finds its chunk used up starts the next one at its beginning.
Opened(t, s) ==
  /\ t.ip.ssdoff = Chunk(s, t.ip.devid)
  /\ t.ip.devid = 0 => t.ip.usednvms = t.ip.ssdoff
  /\ ChunkTaken(t, s, t.ip.devid)

\* Remainders of an address r units into a 2M block.
LEMMA Residue ==
  ASSUME NEW b \in Nat, b % LBlock = 0, NEW r \in 0 .. LBlock - 1
  PROVE  (b + r) % LBlock = r
<1>1. LBlock \in Nat \ {0}
  BY FileWriteAssumption, Zenon
<1>2. b = LBlock * (b \div LBlock) /\ b \div LBlock \in Nat
  BY <1>1
<1>3. ASSUME NEW q \in Nat PROVE (LBlock * q + r) % LBlock = r
  BY <1>1
<1> QED
  BY <1>2, <1>3, Zenon

\* A piece that stays inside its 2M block fills the chunk that much more.
LEMMA FillGrows ==
  ASSUME NEW z \in Nat, NEW n \in Nat \ {0}, (z % LBlock) + n <= LBlock
  PROVE  Fill(z + n) = (z % LBlock) + n
<1> DEFINE r == z % LBlock
           b == z - r
<1>1. LBlock \in Nat \ {0}
  BY FileWriteAssumption, Zenon
<1>2. r \in 0 .. LBlock - 1 /\ r <= z /\ b % LBlock = 0
  BY <1>1, Rounding, Zenon
<1>3. b \in Nat /\ z + n = b + (r + n) /\ r + n \in Nat /\ r + n > 0
  BY <1>2
<1> HIDE DEF r, b
<1>4. CASE r + n = LBlock
  <2>1. (b + LBlock) % LBlock = 0
    <3>1. LBlock % LBlock = 0 /\ b \in Int /\ LBlock \in Int
      BY <1>1, <1>3
    <3> QED BY <1>1, <1>2, <3>1, Multiples, Zenon
  <2> QED BY <1>3, <1>4, <2>1, Zenon DEF Fill, r
<1>5. CASE r + n # LBlock
  <2>1. r + n \in 0 .. LBlock - 1
    BY <1>1, <1>3, <1>5 DEF r
  <2>2. (b + (r + n)) % LBlock = r + n
    BY <1>2, <1>3, <2>1, Residue, Zenon
  <2>3. (z + n) % LBlock = r + n
    BY <1>3, <2>2, Zenon
  <2> QED BY <1>3, <2>3 DEF Fill, r
<1> QED
  BY <1>4, <1>5, Zenon

\* A chunk in use is filled by at least one unit.
LEMMA FillRange ==
  ASSUME NEW z \in Nat
  PROVE  /\ Fill(z) \in 1 .. LBlock /\ z % LBlock \in 0 .. LBlock - 1
         /\ Fill(z) = LBlock <=> z % LBlock = 0
         /\ z % LBlock # 0 => Fill(z) = z % LBlock
<1>1. LBlock \in Nat \ {0}
  BY FileWriteAssumption, Zenon
<1>2. z % LBlock \in 0 .. LBlock - 1
  BY <1>1, Rounding, Zenon
<1> QED
  BY <1>1, <1>2 DEF Fill

\* Where an append of a file of s.ip.size units goes.
Continued(t, s) == s.ip.size % LBlock # 0 /\ t = s
Started(t, s) == s.ip.size % LBlock = 0 /\ Opened(t, s)
AppendAt(t, s) ==
  /\ Continued(t, s) \/ Started(t, s)
  /\ t.ip.ssdoff % LBlock = s.ip.size % LBlock
  /\ t.ip.ssdoff - (s.ip.size % LBlock) \in Nat
  /\ (t.ip.ssdoff - (s.ip.size % LBlock)) % LBlock = 0
  /\ t.ip.devid = 0 => t.ip.usednvms = t.ip.ssdoff - (s.ip.size % LBlock)
  /\ t.nvm % LBlock = 0 /\ t.tree = s.tree /\ t.puts = s.puts /\ t.panic = s.panic

\* The chunk an append goes to, and where in it.
LEMMA AppendPlace ==
  \A s \in Contexts :
    /\ Headed(s.ip) /\ s.nvm % LBlock = 0 /\ LBlock < AddrMod
    =>  AppendAt(AppendChunk(s), s)
\* Allocating a chunk.
<1>AllocatedFields.
    ASSUME NEW s \in Contexts, NEW d \in 0..3
    PROVE  ChunkTaken(Allocated(s, d), s, d)
  <2> USE <1>AllocatedFields
  <2> DEFINE t(v) == [s EXCEPT !.ip.devid = d, !.ip.wrthdnum = v]
  <2>1. \A v \in 0..4 : /\ t(v) \in Contexts /\ t(v).ip.devid = d /\ t(v).tree = s.tree
                        /\ t(v).puts = s.puts /\ t(v).panic = s.panic /\ t(v).nvm = s.nvm
                        /\ t(v).ssd = s.ssd /\ t(v).wrapped = s.wrapped
    BY Zenon DEF Contexts, Ips
  <2>2. d + 1 \in 0..4
    OBVIOUS
  <2> DEFINE x == t(d + 1)
  <2> HIDE DEF t
  <2>3. /\ x \in Contexts /\ x.ip.devid = d /\ x.tree = s.tree /\ x.puts = s.puts
        /\ x.panic = s.panic /\ x.nvm = s.nvm /\ x.ssd = s.ssd /\ x.wrapped = s.wrapped
    BY <2>1, <2>2, Zenon
  <2>4. Allocated(s, d) = IF d = 0
                          THEN [x EXCEPT !.nvm = allocate_nvmblock(s) + LBlock,
                                         !.wrapped = @ \/ s.nvm + LBlock > NvmSize]
                          ELSE [x EXCEPT !.ssd[d] = @ + 1]
    BY Zenon DEF Allocated, t
  <2> HIDE DEF x
  <2>5. s.nvm \in Int /\ LBlock \in Int /\ NvmSize \in Int /\ s.wrapped \in BOOLEAN
    BY FileWriteAssumption DEF Contexts
  <2>6. CASE d = 0
    <3>1. \A n, v : LET y == [x EXCEPT !.nvm = n, !.wrapped = v] IN
            /\ y.ip.devid = d /\ y.tree = s.tree /\ y.puts = s.puts /\ y.panic = s.panic
            /\ y.nvm = n /\ y.ssd = s.ssd /\ y.wrapped = v
      BY <2>3, Zenon DEF Contexts
    <3>2. ~ (x.wrapped \/ s.nvm + LBlock > NvmSize) => ~ s.wrapped /\ s.nvm + LBlock <= NvmSize
      <4>1. ~ (s.nvm + LBlock > NvmSize) => s.nvm + LBlock <= NvmSize
        BY <2>5
      <4> QED BY <2>3, <4>1, Zenon
    <3> DEFINE n == allocate_nvmblock(s) + LBlock
               v == x.wrapped \/ s.nvm + LBlock > NvmSize
               y == [x EXCEPT !.nvm = n, !.wrapped = v]
    <3>3. Allocated(s, d) = y
      BY <2>4, <2>6, Zenon
    <3>4. ~ v => ~ s.wrapped /\ s.nvm + LBlock <= NvmSize
      BY <3>2, Zenon
    <3> HIDE DEF n, v
    <3>5. /\ y.ip.devid = d /\ y.tree = s.tree /\ y.puts = s.puts /\ y.panic = s.panic
          /\ y.nvm = n /\ y.ssd = s.ssd /\ y.wrapped = v
      BY <3>1
    <3> HIDE DEF y
    <3>6. ChunkTaken(y, s, d)
      BY <2>6, <3>4, <3>5, Zenon DEF ChunkTaken, n
    <3> QED BY <3>3, <3>6, Zenon
  <2>7. CASE d # 0
    <3>1. \A n : LET y == [x EXCEPT !.ssd = n] IN
            /\ y.ip.devid = d /\ y.tree = s.tree /\ y.puts = s.puts /\ y.panic = s.panic
            /\ y.nvm = s.nvm /\ y.ssd = n /\ y.wrapped = s.wrapped
      BY <2>3, Zenon DEF Contexts
    <3>2. Allocated(s, d) = [x EXCEPT !.ssd = [s.ssd EXCEPT ![d] = @ + 1]]
      BY <2>3, <2>4, <2>7, Zenon
    <3> QED BY <2>7, <3>1, <3>2, Zenon DEF ChunkTaken
  <2> QED
    BY <2>6, <2>7, Zenon
\* That is what AppendChunk does when the chunk is used up.
<1>AppendChunkOpens.
    ASSUME NEW s \in Contexts, UsedUp(s.ip.devid, s.ip.ssdoff, s.ip.usednvms)
    PROVE  Opened(AppendChunk(s), s)
  <2> USE <1>AppendChunkOpens
  <2> DEFINE d == s.ip.wrthdnum % writethdnum
             t == Allocated(s, d)
             a == Chunk(s, d)
             v == IF d = 0 THEN a ELSE t.ip.usednvms
             u == [t EXCEPT !.ip.ssdoff = a, !.ip.usednvms = v]
  <2>1. d \in 0..3 /\ t \in Contexts
    BY NextChunk, Zenon DEF KeepsSize
  <2>2. AppendChunk(s) = u
    BY Zenon DEF AppendChunk
  <2> HIDE DEF d, t
  <2>3. ChunkTaken(t, s, d)
    BY <2>1, <1>AllocatedFields, Zenon DEF t
  <2>4. d = 0 => v = a
    BY Zenon
  <2> HIDE DEF a, v
  <2>5. /\ u.ip.ssdoff = a /\ u.ip.usednvms = v /\ u.ip.devid = t.ip.devid
        /\ u.tree = t.tree /\ u.puts = t.puts /\ u.panic = t.panic
        /\ u.nvm = t.nvm /\ u.ssd = t.ssd /\ u.wrapped = t.wrapped
    BY <2>1, Zenon DEF Contexts, Ips
  <2> HIDE DEF u
  <2>6. ChunkTaken(u, s, d) /\ u.ip.devid = d
    BY <2>3, <2>5, Zenon DEF ChunkTaken
  <2>7. u.ip.ssdoff = Chunk(s, u.ip.devid)
    BY <2>5, <2>6, Zenon DEF a
  <2>8. u.ip.devid = 0 => u.ip.usednvms = u.ip.ssdoff
    BY <2>4, <2>5, <2>6, Zenon
  <2> QED
    BY <2>2, <2>6, <2>7, <2>8, Zenon DEF Opened
\* The address of the next append within 2M is that of the end of the file.
<1>HeadResidue.
    ASSUME NEW ip \in Ips, Headed(ip)
    PROVE  ip.ssdoff % LBlock = ip.size % LBlock
  <2> USE <1>HeadResidue
  <2> DEFINE z == ip.size
             b == Base(ip)
  <2>1. z \in Nat /\ ip.ssdoff \in Nat /\ LBlock \in Nat \ {0}
    BY FileWriteAssumption, Zenon DEF Ips
  <2>2. CASE z = 0
    BY <2>2, Zenon DEF Headed
  <2>3. CASE z # 0
    <3>1. b \in Nat /\ b % LBlock = 0
      BY <2>1, <2>3 DEF Headed
    <3>2. /\ Fill(z) \in 1 .. LBlock /\ z % LBlock \in 0 .. LBlock - 1
          /\ Fill(z) = LBlock <=> z % LBlock = 0
          /\ z % LBlock # 0 => Fill(z) = z % LBlock
      BY <2>1, FillRange, Zenon
    <3>3. ip.ssdoff = b + Fill(z)
      BY <2>1, <3>2 DEF Base
    <3> HIDE DEF z, b
    <3>4. CASE z % LBlock = 0
      <4>1. (b + LBlock) % LBlock = 0
        <5>1. LBlock % LBlock = 0 /\ b \in Int /\ LBlock \in Int
          BY <2>1, <3>1
        <5> QED BY <2>1, <3>1, <5>1, Multiples, Zenon
      <4> QED BY <3>2, <3>3, <3>4, <4>1, Zenon DEF z
    <3>5. CASE z % LBlock # 0
      <4>1. (b + (z % LBlock)) % LBlock = z % LBlock
        BY <3>1, <3>2, Residue, Zenon
      <4> QED BY <3>2, <3>3, <3>5, <4>1, Zenon DEF z
    <3> QED BY <3>4, <3>5, Zenon
  <2> QED
    BY <2>2, <2>3, Zenon
\* A chunk is used up exactly when the file ends at a 2M boundary.
<1>UsedUpWhen.
    ASSUME NEW ip \in Ips, Headed(ip), LBlock < AddrMod
    PROVE  UsedUp(ip.devid, ip.ssdoff, ip.usednvms) <=> ip.size % LBlock = 0
  <2> USE <1>UsedUpWhen
  <2> DEFINE z == ip.size
  <2>1. z \in Nat /\ ip.ssdoff \in Nat /\ ip.devid \in 0..3 /\ ip.usednvms \in Nat
        /\ LBlock \in Nat \ {0} /\ AddrMod \in Nat \ {0}
    BY FileWriteAssumption, Zenon DEF Ips
  <2>2. CASE z = 0
    <3>1. 0 % LBlock = 0
      BY <2>1
    <3> QED BY <2>2, <3>1, Zenon DEF Headed, UsedUp
  <2>3. CASE z # 0 /\ ip.devid > 0
    <3>1. ~ (ip.devid = 0)
      BY <2>1, <2>3
    <3> QED BY <2>3, <3>1, <1>HeadResidue, Zenon DEF UsedUp
  <2>4. CASE z # 0 /\ ip.devid = 0
    <3>1. Base(ip) \in Nat /\ ip.usednvms = Base(ip)
      BY <2>1, <2>4 DEF Headed
    <3>2. /\ Fill(z) \in 1 .. LBlock /\ z % LBlock \in 0 .. LBlock - 1
          /\ Fill(z) = LBlock <=> z % LBlock = 0
      BY <2>1, FillRange, Zenon
    <3>3. ip.ssdoff - ip.usednvms = Fill(z)
      BY <2>1, <3>1, <3>2 DEF Base
    <3>4. ip.ssdoff # 0
      BY <2>1, <3>1, <3>2 DEF Base
    <3>5. Fill(z) % AddrMod = Fill(z)
      <4>1. ASSUME NEW v \in 1 .. LBlock PROVE v % AddrMod = v
        BY <2>1
      <4> QED BY <3>2, <4>1, Zenon
    <3>6. Fill(z) >= LBlock <=> Fill(z) = LBlock
      BY <2>1, <3>2
    <3>7. ~ (ip.devid > 0)
      BY <2>4
    <3> HIDE DEF z
    <3>8. (ip.ssdoff - ip.usednvms) % AddrMod >= LBlock <=> z % LBlock = 0
      BY <3>2, <3>3, <3>5, <3>6, Zenon
    <3> QED BY <2>4, <3>4, <3>7, <3>8, Zenon DEF UsedUp, z
  <2> QED
    BY <2>1, <2>2, <2>3, <2>4
\* A new chunk starts at a 2M boundary, and the allocators stay there.
<1>OpenedAligned.
    ASSUME NEW s \in Contexts, s.nvm % LBlock = 0, NEW t \in Contexts, Opened(t, s)
    PROVE  t.ip.ssdoff % LBlock = 0 /\ t.nvm % LBlock = 0
  <2> USE <1>OpenedAligned
  <2> DEFINE d == t.ip.devid
  <2>1. d \in 0..3 /\ s.nvm \in Int /\ s.ssd \in [1..3 -> Nat]
    BY FieldsOf
  <2>2. LBlock \in Nat \ {0} /\ NvmStart \in Int /\ NvmStart % LBlock = 0 /\ LBlock % LBlock = 0
        /\ LBlock \in Int
    BY FileWriteAssumption
  <2>3. allocate_nvmblock(s) \in Int /\ allocate_nvmblock(s) % LBlock = 0
    BY <2>1, <2>2, Zenon DEF allocate_nvmblock
  <2>4. (allocate_nvmblock(s) + LBlock) % LBlock = 0
    BY <2>2, <2>3, Multiples, Zenon
  <2>5. \A n \in Nat : (n * LBlock) % LBlock = 0
    BY <2>2
  <2>6. Chunk(s, d) % LBlock = 0
    <3>1. CASE d = 0
      BY <2>3, <3>1, Zenon DEF Chunk
    <3>2. CASE d # 0
      <4>1. s.ssd[d] \in Nat
        BY <2>1, <3>2
      <4> QED BY <2>5, <3>2, <4>1, Zenon DEF Chunk
    <3> QED BY <3>1, <3>2, Zenon
  <2> QED
    BY <2>4, <2>6, Zenon DEF Opened, ChunkTaken
<1> SUFFICES ASSUME NEW s \in Contexts, Headed(s.ip), s.nvm % LBlock = 0, LBlock < AddrMod
             PROVE  AppendAt(AppendChunk(s), s)
  BY Zenon
<1> DEFINE t == AppendChunk(s)
           z == s.ip.size
<1>1. s.ip \in Ips /\ z \in Nat /\ s.ip.ssdoff \in Nat /\ t \in Contexts
  BY FieldsOf, AppendChunkType, Zenon DEF KeepsSize
<1>2. UsedUp(s.ip.devid, s.ip.ssdoff, s.ip.usednvms) <=> z % LBlock = 0
  BY <1>1, <1>UsedUpWhen, Zenon
<1>3. t.ip.ssdoff \in Nat
  BY <1>1, FieldsOf, Zenon
<1>4. CASE z % LBlock = 0
  <2>1. Opened(t, s)
    BY <1>2, <1>4, <1>AppendChunkOpens, Zenon
  <2> HIDE DEF t
  <2>2. t.ip.ssdoff % LBlock = 0 /\ t.nvm % LBlock = 0
    BY <1>1, <2>1, <1>OpenedAligned, Zenon
  <2>3. t.ip.ssdoff - 0 = t.ip.ssdoff
    BY <1>3
  <2>4. /\ t.ip.ssdoff % LBlock = z % LBlock /\ t.ip.ssdoff - (z % LBlock) \in Nat
        /\ (t.ip.ssdoff - (z % LBlock)) % LBlock = 0
        /\ t.ip.devid = 0 => t.ip.usednvms = t.ip.ssdoff - (z % LBlock)
    BY <1>3, <1>4, <2>1, <2>2, <2>3, Zenon DEF Opened
  <2> QED BY <1>4, <2>1, <2>2, <2>4, Zenon DEF AppendAt, Started, Opened, ChunkTaken, t
<1>5. CASE z % LBlock # 0
  <2>1. t = s
    BY <1>2, <1>5, Zenon DEF AppendChunk
  <2>2. s.ip.ssdoff % LBlock = z % LBlock
    BY <1>1, <1>HeadResidue, Zenon
  <2>3. z # 0
    <3>1. 0 % LBlock = 0
      BY FileWriteAssumption
    <3> QED BY <1>5, <3>1, Zenon
  <2>4. z > 0
    BY <1>1, <2>3
  <2>5. Base(s.ip) \in Nat /\ Base(s.ip) % LBlock = 0
        /\ (s.ip.devid = 0 => s.ip.usednvms = Base(s.ip))
    BY <2>4, Zenon DEF Headed
  <2>6. Base(s.ip) = s.ip.ssdoff - (z % LBlock)
    BY <1>1, <1>5, FillRange, Zenon DEF Base
  <2> HIDE DEF t
  <2> QED BY <1>5, <2>1, <2>2, <2>5, <2>6, Zenon DEF AppendAt, Continued, t
<1> QED
  BY <1>4, <1>5, Zenon

\* A piece that is appended: it is put where the context t says.
PieceAppended(u, t, off, size) ==
  /\ u.ip.ssdoff = t.ip.ssdoff + size /\ u.ip.devid = t.ip.devid
  /\ u.ip.usednvms = t.ip.usednvms
  /\ u.puts = Append(t.puts, [dev |-> t.ip.devid + 1, at |-> t.ip.ssdoff, off |-> off,
                              n |-> size, from |-> off, to |-> off + size])
  /\ u.tree = insert_blktree(t.tree, t.ip.devid + 1, t.ip.ssdoff, off, size)
  /\ u.nvm = t.nvm /\ u.ssd = t.ssd /\ u.wrapped = t.wrapped /\ u.panic = t.panic

\* An append adds to the places of a file and moves none.
PlacesGrow(new, ext, dev, at, off, size) ==
  /\ \A u \in 0 .. off - 1 : PlaceOf(new, u) = PlaceOf(ext, u)
  /\ \A u \in off .. (off + size) - 1 : PlaceOf(new, u) = <<dev, at + (u - off)>>

LogGrows(new, f, dev, at, off, size) ==
  /\ PlacesGrow(new[f], extent[f], dev, at, off, size)
  /\ \A g \in Files : g # f => new[g] = extent[g]

\* The extent that is logged for an append.
LEMMA LoggedAppend ==
  \A f \in Files, dev \in Devices, at \in Nat, off \in Nat, size \in Nat \ {0} :
  \A from, to :
    /\ extent \in [Files -> [FileBlocks -> Places]] /\ at % Block = 0 /\ off % Block = 0
    /\ size % Block = 0 /\ off + size <= MaxSize
    =>  LogGrows(Logged(f, <<[dev |-> dev, at |-> at, off |-> off, n |-> size,
                              from |-> from, to |-> to]>>), f, dev, at, off, size)
\* Blocks of offsets in a file, and how addresses follow them.
<1>BlockOf.
    ASSUME NEW off \in Nat, off % Block = 0, NEW u \in Nat
    PROVE  /\ u \div Block \in Nat /\ u % Block \in 0 .. Block - 1
           /\ u < off <=> u \div Block < off \div Block
           /\ \A at \in Nat : at % Block = 0 =>
                ((at \div Block) + ((u \div Block) - (off \div Block))) * Block + (u % Block)
                  = at + (u - off)
  <2> USE <1>BlockOf
  <2> DEFINE q == u \div Block
             r == u % Block
             k == off \div Block
  <2>1. Block \in Nat \ {0}
    BY FileWriteAssumption, Zenon
  <2>2. u = Block * q + r /\ q \in Nat /\ r \in 0 .. Block - 1 /\ off = Block * k /\ k \in Nat
    BY <2>1
  <2> HIDE DEF q, r, k
  <2>3. u < off <=> q < k
    <3>1. q < k => Block * q + Block <= Block * k
      <4>1. q < k => q + 1 <= k
        BY <2>2
      <4>2. q + 1 <= k => Block * (q + 1) <= Block * k
        BY <2>1, <2>2
      <4>3. Block * (q + 1) = Block * q + Block
        BY <2>1, <2>2
      <4> QED BY <4>1, <4>2, <4>3, Zenon
    <3>2. k <= q => Block * k <= Block * q
      BY <2>1, <2>2
    <3>3. Block * q \in Nat /\ Block * k \in Nat
      BY <2>1, <2>2
    <3>4. q < k => u < off
      BY <2>1, <2>2, <3>1, <3>3
    <3>5. k <= q => off <= u
      BY <2>1, <2>2, <3>2, <3>3
    <3> QED BY <2>2, <3>4, <3>5
  <2>4. ASSUME NEW at \in Nat, at % Block = 0
        PROVE  ((at \div Block) + (q - k)) * Block + r = at + (u - off)
    <3> DEFINE m == at \div Block
    <3>1. at = Block * m /\ m \in Nat
      BY <2>1, <2>4
    <3> HIDE DEF m
    <3>2. (m + (q - k)) * Block = Block * m + Block * q - Block * k
      BY <2>1, <2>2, <3>1
    <3>3. Block * q \in Nat /\ Block * k \in Nat /\ Block * m \in Nat
      BY <2>1, <2>2, <3>1
    <3>4. (m + (q - k)) * Block + r = at + (u - off)
      BY <2>1, <2>2, <3>1, <3>2, <3>3
    <3> QED BY <3>4, Zenon DEF m
  <2> QED
    BY <2>2, <2>3, <2>4, Zenon DEF q, r, k
<1> SUFFICES ASSUME NEW f \in Files, extent \in [Files -> [FileBlocks -> Places]],
                    NEW dev \in Devices, NEW at \in Nat, at % Block = 0,
                    NEW off \in Nat, off % Block = 0, NEW size \in Nat \ {0}, size % Block = 0,
                    off + size <= MaxSize, NEW from, NEW to
             PROVE  LogGrows(Logged(f, <<[dev |-> dev, at |-> at, off |-> off, n |-> size,
                                          from |-> from, to |-> to]>>), f, dev, at, off, size)
  OBVIOUS
<1> DEFINE p == [dev |-> dev, at |-> at, off |-> off, n |-> size, from |-> from, to |-> to]
           puts == <<p>>
           first(i) == puts[i].off \div Block
           over(b) == {i \in 1..Len(puts) :
                         first(i) <= b /\ b < first(i) + (Ceil(puts[i].n) \div Block)}
           last(b) == CHOOSE i \in over(b) : \A j \in over(b) : j <= i
           k == off \div Block
           end == (off + size) \div Block
           ext == [b \in FileBlocks |->
                     IF over(b) = {} THEN extent[f][b]
                     ELSE <<puts[last(b)].dev, (puts[last(b)].at \div Block) + (b - first(last(b)))>>]
<1>1. Logged(f, puts) = [extent EXCEPT ![f] = ext]
  BY Zenon DEF Logged
<1>2. Block \in Nat \ {0} /\ off + size \in Nat /\ size \in Nat
  BY FileWriteAssumption
<1>3. (off + size) % Block = 0
  BY MultiplesSum
<1>4. k + (Ceil(size) \div Block) = end /\ k \in Nat /\ end \in Nat
  <2>1. Ceil(size) = size
    BY <1>2, Ceiling, Zenon
  <2>2. off = Block * k /\ size = Block * (size \div Block) /\ k \in Nat /\ size \div Block \in Nat
    BY <1>2
  <2>3. off + size = Block * (k + (size \div Block))
    BY <1>2, <2>2
  <2>4. \A m \in Nat : (Block * m) \div Block = m
    BY <1>2
  <2> HIDE DEF k
  <2>5. k + (size \div Block) \in Nat
    BY <2>2
  <2>6. end = k + (size \div Block)
    BY <2>3, <2>4, <2>5, Zenon
  <2> QED BY <2>1, <2>2, <2>5, <2>6, Zenon
<1>5. Len(puts) = 1 /\ puts[1] = p
  BY Zenon
<1>6. ASSUME NEW b \in FileBlocks
      PROVE  ext[b] = IF k <= b /\ b < end THEN <<dev, (at \div Block) + (b - k)>>
                      ELSE extent[f][b]
  <2>1. first(1) = k /\ Ceil(puts[1].n) = Ceil(size)
    BY <1>5, Zenon
  <2>2. over(b) = IF k <= b /\ b < end THEN {1} ELSE {}
    <3>1. 1..Len(puts) = {1}
      BY <1>5
    <3> HIDE DEF puts, k, end, first
    <3> QED BY <1>4, <2>1, <3>1, Zenon
  <2>3. CASE ~ (k <= b /\ b < end)
    <3> HIDE DEF over, k, end
    <3> QED BY <2>2, <2>3, Zenon
  <2>4. CASE k <= b /\ b < end
    <3> HIDE DEF over, k, end, puts, p
    <3>1. over(b) = {1}
      BY <2>2, <2>4, Zenon
    <3>2. last(b) = 1
      <4>1. \A i \in {1} : \A j \in {1} : j <= i
        OBVIOUS
      <4>2. \E i \in over(b) : \A j \in over(b) : j <= i
        BY <3>1, <4>1
      <4>3. last(b) \in over(b)
        BY <4>2, Zenon
      <4> QED BY <3>1, <4>3, Zenon
    <3> HIDE DEF last, first
    <3>3. ext[b] = <<puts[1].dev, (puts[1].at \div Block) + (b - first(1))>>
      BY <3>1, <3>2, Zenon
    <3>4. puts[1].dev = dev /\ puts[1].at = at
      BY <1>5 DEF p
    <3> QED BY <2>1, <2>4, <3>3, <3>4, Zenon
  <2> QED BY <2>3, <2>4, Zenon
<1> HIDE DEF ext, p
<1>7. \A u \in 0 .. (off + size) - 1 : u \in Nat /\ u \div Block \in FileBlocks
  <2> SUFFICES ASSUME NEW u \in 0 .. (off + size) - 1 PROVE u \in Nat /\ u \div Block \in FileBlocks
    BY Zenon
  <2>1. u \in Nat /\ u < off + size
    BY <1>2
  <2>2. u \div Block \in Nat /\ u \div Block < end
    BY <1>2, <1>3, <2>1, <1>BlockOf, Zenon
  <2>3. end <= MaxSize \div Block /\ MaxSize \div Block \in Nat
    <3>1. ASSUME NEW a \in Nat, NEW c \in Nat, a <= c PROVE a \div Block <= c \div Block
      BY <1>2, <3>1
    <3>2. MaxSize \in Nat /\ MaxSize \div Block \in Nat
      <4>1. MaxSize \in Nat
        BY FileWriteAssumption, Zenon
      <4> QED BY <1>2, <4>1
    <3> QED BY <1>2, <3>1, <3>2, Zenon
  <2> QED BY <1>4, <2>1, <2>2, <2>3 DEF FileBlocks
<1>8. ASSUME NEW u \in 0 .. off - 1 PROVE PlaceOf(ext, u) = PlaceOf(extent[f], u)
  <2>1. u \in 0 .. (off + size) - 1 /\ u < off
    BY <1>2
  <2>2. u \in Nat /\ u \div Block \in FileBlocks /\ u \div Block < k /\ u \div Block \in Nat
    BY <1>7, <2>1, <1>BlockOf, Zenon
  <2> HIDE DEF k, end
  <2>3. ~ (k <= u \div Block)
    BY <1>4, <2>2
  <2>4. ext[u \div Block] = extent[f][u \div Block]
    BY <1>6, <2>2, <2>3, Zenon
  <2> QED BY <2>4, Zenon DEF PlaceOf
<1>9. ASSUME NEW u \in off .. (off + size) - 1 PROVE PlaceOf(ext, u) = <<dev, at + (u - off)>>
  <2>1. u \in 0 .. (off + size) - 1 /\ ~ (u < off) /\ u < off + size
    BY <1>2
  <2>2. /\ u \in Nat /\ u \div Block \in FileBlocks /\ u \div Block \in Nat
        /\ k <= u \div Block
    <3>1. u \in Nat /\ u \div Block \in FileBlocks
      BY <1>7, <2>1, Zenon
    <3>2. u \div Block \in Nat /\ (u < off <=> u \div Block < k)
      BY <3>1, <1>BlockOf, Zenon
    <3> HIDE DEF k
    <3> QED BY <1>4, <2>1, <3>1, <3>2
  <2>3. u \div Block < end
    BY <1>2, <1>3, <2>1, <2>2, <1>BlockOf, Zenon
  <2>4. ext[u \div Block] = <<dev, (at \div Block) + ((u \div Block) - k)>>
    BY <1>6, <2>2, <2>3, Zenon
  <2>5. ((at \div Block) + ((u \div Block) - k)) * Block + (u % Block) = at + (u - off)
    BY <2>2, <1>BlockOf, Zenon
  <2> HIDE DEF k
  <2> QED BY <2>4, <2>5 DEF PlaceOf
<1>10. Logged(f, puts)[f] = ext /\ \A g \in Files : g # f => Logged(f, puts)[g] = extent[g]
  BY <1>1, Zenon
<1>11. PlacesGrow(ext, extent[f], dev, at, off, size)
  BY <1>8, <1>9, Zenon DEF PlacesGrow
<1> QED
  BY <1>10, <1>11, Zenon DEF p, LogGrows

\* Indexing an append: the node before it grows, or a node is added.
LEMMA TreeGrows ==
  ASSUME NEW tree \in SUBSET Nodes, NEW ext, NEW new, NEW dev \in Devices,
         NEW at \in Nat, at % Block = 0, NEW off \in Nat, NEW size \in Nat \ {0},
         Indexed(tree, ext, off), PlacesGrow(new, ext, dev, at, off, size)
  PROVE  Indexed(insert_blktree(tree, dev, at, off, size), new, off + size)
<1> DEFINE b == [devid |-> dev, fileoff |-> off, size |-> size, addr |-> at \div Block]
           joins == {n \in tree : /\ b.fileoff = n.fileoff + n.size
                                  /\ n.devid = b.devid
                                  /\ (b.addr - n.addr) * Block = n.size}
           n == CHOOSE n \in joins : TRUE
           long == [n EXCEPT !.size = @ + b.size]
           end(m) == m.fileoff + m.size
           Right(m) == \A u \in m.fileoff .. end(m) - 1 :
                         PlaceOf(new, u) = <<m.devid, m.addr * Block + (u - m.fileoff)>>
<1>1. Block \in Nat \ {0}
  BY FileWriteAssumption, Zenon
<1>2. ASSUME NEW m \in tree
      PROVE  /\ m.fileoff \in Nat /\ m.size \in Nat \ {0} /\ m.addr \in Int /\ m.devid \in Devices
             /\ end(m) <= off /\ Right(m)
  <2>1. m \in Nodes
    BY Zenon
  <2>2. m.fileoff \in Nat /\ m.size \in Nat \ {0} /\ m.addr \in Int /\ m.devid \in Devices
    BY <2>1, Zenon DEF Nodes
  <2>3. end(m) <= off
    BY Zenon DEF Indexed
  <2>4. ASSUME NEW u \in m.fileoff .. end(m) - 1
        PROVE  PlaceOf(new, u) = <<m.devid, m.addr * Block + (u - m.fileoff)>>
    <3>1. PlaceOf(ext, u) = <<m.devid, m.addr * Block + (u - m.fileoff)>>
      <4>1. u \in m.fileoff .. (m.fileoff + m.size) - 1
        BY <2>4, Zenon
      <4> QED BY <4>1, Zenon DEF Indexed
    <3>2. u \in 0 .. off - 1
      BY <2>2, <2>3
    <3> QED BY <3>1, <3>2, Zenon DEF PlacesGrow
  <2> QED BY <2>2, <2>3, <2>4, Zenon
<1>3. at \div Block \in Int /\ (at \div Block) * Block = at
  BY <1>1
<1>4. b.devid = dev /\ b.fileoff = off /\ b.size = size /\ b.addr = at \div Block
  BY Zenon
<1>5. Right(b) /\ end(b) = off + size
  <2>1. ASSUME NEW u \in off .. (off + size) - 1
        PROVE  PlaceOf(new, u) = <<dev, (at \div Block) * Block + (u - off)>>
    BY <1>3, Zenon DEF PlacesGrow
  <2> QED BY <1>4, <2>1, Zenon
<1> HIDE DEF b
<1>6. block_search(tree, off) = {}
  <2>1. ASSUME NEW m \in tree PROVE ~ (off < end(m))
    BY <1>2
  <2> QED BY <2>1, Zenon DEF block_search
<1>7. insert_blktree(tree, dev, at, off, size) = block_insert(tree, b)
  BY <1>6, Zenon DEF insert_blktree, b
<1>8. ~ \E m \in tree : m.fileoff = b.fileoff
  <2>1. ASSUME NEW m \in tree PROVE m.fileoff # off
    BY <1>2
  <2> QED BY <1>4, <2>1, Zenon
<1>9. CASE joins = {}
  <2>1. block_insert(tree, b) = tree \cup {b}
    BY <1>8, <1>9, Zenon DEF block_insert
  <2>2. \A m \in tree \cup {b} : end(m) <= off + size /\ Right(m)
    <3>1. \A m \in tree : end(m) <= off + size
      BY <1>2
    <3>2. end(b) <= off + size
      BY <1>5
    <3> QED BY <1>2, <1>5, <3>1, <3>2, Zenon
  <2>3. ASSUME NEW u \in 0 .. (off + size) - 1 PROVE block_search(tree \cup {b}, u) # {}
    <3>1. CASE u < off
      <4>1. u \in 0 .. off - 1
        BY <3>1
      <4> QED BY <4>1, Zenon DEF Indexed, block_search
    <3>2. CASE ~ (u < off)
      <4>1. b.fileoff <= u /\ u < b.fileoff + b.size
        BY <1>4, <3>2
      <4> QED BY <4>1, Zenon DEF block_search
    <3> QED BY <3>1, <3>2, Zenon
  <2>4. Indexed(tree \cup {b}, new, off + size)
    BY <2>2, <2>3, Zenon DEF Indexed
  <2> QED BY <1>7, <2>1, <2>4, Zenon
<1>10. CASE joins # {}
  <2>1. n \in joins
    BY <1>10, Zenon
  <2>2. block_insert(tree, b) = (tree \ {n}) \cup {long}
    BY <1>10, Zenon DEF block_insert
  <2>3. /\ n \in tree /\ off = n.fileoff + n.size /\ n.devid = dev
        /\ ((at \div Block) - n.addr) * Block = n.size
    BY <1>4, <2>1, Zenon
  <2> HIDE DEF joins, n
  <2>4. /\ n.fileoff \in Nat /\ n.size \in Nat \ {0} /\ n.addr \in Int /\ Right(n) /\ n \in Nodes
    BY <1>2, <2>3, Zenon
  <2>5. /\ long.fileoff = n.fileoff /\ long.devid = n.devid /\ long.addr = n.addr
        /\ long.size = n.size + size
    BY <1>4, <2>4, Zenon DEF Nodes
  <2>6. end(long) = off + size
    BY <2>3, <2>4, <2>5
  <2>7. at = n.addr * Block + n.size
    <3>1. ((at \div Block) - n.addr) * Block = (at \div Block) * Block - n.addr * Block
      BY <1>1, <1>3, <2>4
    <3>2. n.addr * Block \in Int
      BY <1>1, <2>4
    <3> QED BY <1>3, <2>3, <2>4, <3>1, <3>2
  <2> HIDE DEF long
  <2>8. Right(long)
    <3> SUFFICES ASSUME NEW u \in n.fileoff .. (off + size) - 1
                 PROVE  PlaceOf(new, u) = <<n.devid, n.addr * Block + (u - n.fileoff)>>
      BY <2>5, <2>6, Zenon
    <3>1. CASE u < off
      <4>1. u \in n.fileoff .. end(n) - 1
        BY <2>3, <2>4, <3>1
      <4> QED BY <2>4, <4>1, Zenon
    <3>2. CASE ~ (u < off)
      <4>1. u \in off .. (off + size) - 1
        BY <2>4, <3>2
      <4>2. PlaceOf(new, u) = <<dev, at + (u - off)>>
        BY <4>1, Zenon DEF PlacesGrow
      <4>3. n.addr * Block \in Int
        BY <1>1, <2>4
      <4>4. at + (u - off) = n.addr * Block + (u - n.fileoff)
        BY <2>3, <2>4, <2>7, <4>1, <4>3
      <4> QED BY <2>3, <4>2, <4>4, Zenon
    <3> QED BY <3>1, <3>2, Zenon
  <2>9. \A m \in (tree \ {n}) \cup {long} : end(m) <= off + size /\ Right(m)
    <3>1. \A m \in tree : end(m) <= off + size
      BY <1>2
    <3>2. end(long) <= off + size
      BY <2>6
    <3> QED BY <1>2, <2>8, <3>1, <3>2, Zenon
  <2>10. ASSUME NEW u \in 0 .. (off + size) - 1
         PROVE  block_search((tree \ {n}) \cup {long}, u) # {}
    <3>1. CASE u >= n.fileoff
      <4>1. long.fileoff <= u /\ u < long.fileoff + long.size
        BY <2>4, <2>5, <2>6, <3>1
      <4> QED BY <4>1, Zenon DEF block_search
    <3>2. CASE ~ (u >= n.fileoff)
      <4>1. u \in 0 .. off - 1
        BY <2>3, <2>4, <3>2
      <4>2. PICK m \in tree : m.fileoff <= u /\ u < m.fileoff + m.size
        BY <4>1, Zenon DEF Indexed, block_search
      <4>3. m # n
        BY <2>4, <3>2, <4>2, Zenon
      <4> QED BY <4>2, <4>3, Zenon DEF block_search
    <3> QED BY <3>1, <3>2, Zenon
  <2>11. Indexed((tree \ {n}) \cup {long}, new, off + size)
    BY <2>9, <2>10, Zenon DEF Indexed
  <2> QED BY <1>7, <2>2, <2>11, Zenon
<1> QED
  BY <1>9, <1>10, Zenon

\* The one write of an append.
OnePut(dev, at, off, size) ==
  [dev |-> dev, at |-> at, off |-> off, n |-> size, from |-> off, to |-> off + size]

\* What an append leaves at an address of a device.
HoldsPut(f, ver, dev, at, off, size, d, a) ==
  Written(f, ver, <<OnePut(dev, at, off, size)>>)[d][a]
    = IF d = dev /\ at <= a /\ a < at + size THEN <<f, off + (a - at), ver>>
      ELSE media[d][a]

\* Addresses in use before and after a step.
Was(e, a) == InUse(inode, nvm_block_addr, ssd_block_addr, e, a)
Now(e, a) == InUse(inode', nvm_block_addr', ssd_block_addr', e, a)

\* The rest of the chunk an append goes to holds nothing of any file and is in
\* no other file's chunk, and the chunk has been given out.
RoomIsFree(t, f) ==
  LET at == t.ip.ssdoff
      dev == t.ip.devid + 1
      base == at - (inode[f].size % LBlock)
  IN /\ ~wrapped
     /\ \A e \in Devices :
          Limit(nvm_block_addr, ssd_block_addr, e) <= Limit(t.nvm, t.ssd, e)
     /\ base + LBlock <= Limit(t.nvm, t.ssd, dev)
     /\ \A a \in Int : Was(dev, a) => a < at \/ base + LBlock <= a
     /\ \A g \in Files :
          g # f /\ inode[g].size > 0 /\ inode[g].devid + 1 = dev =>
            base + LBlock <= Base(inode[g]) \/ Base(inode[g]) + LBlock <= base

\* What a device has given out ends at an address.
LEMMA LimitType ==
  ASSUME NEW s \in Contexts, NEW e \in Devices
  PROVE  Limit(s.nvm, s.ssd, e) \in Nat
<1>1. s.nvm \in Nat /\ s.ssd \in [1..3 -> Nat] /\ LBlock \in Nat
  BY FieldsOf, FileWriteAssumption
<1>2. CASE e = 1
  BY <1>1, <1>2, Zenon DEF Limit
<1>3. CASE e # 1
  <2>1. e - 1 \in 1..3
    BY <1>3 DEF Devices
  <2>2. s.ssd[e - 1] \in Nat
    BY <1>1, <2>1, Zenon
  <2>3. s.ssd[e - 1] * LBlock \in Nat
    BY <1>1, <2>2
  <2> QED BY <1>3, <2>3, Zenon DEF Limit
<1> QED
  BY <1>2, <1>3, Zenon

\* The room an append goes to is free while the NVM allocator has not wrapped.
LEMMA RoomFree ==
  \A f \in Files :
    /\ Types /\ Growing /\ LBlock < AddrMod /\ ~ AppendChunk(Context(f)).wrapped
    =>  RoomIsFree(AppendChunk(Context(f)), f)
\* A chunk that is started lies just above what its device had given out.
<1>OpenedLimits.
    ASSUME NEW s \in Contexts, NEW t \in Contexts, Opened(t, s), ~t.wrapped
    PROVE  LET dev == t.ip.devid + 1 IN
           /\ ~s.wrapped /\ t.ip.ssdoff = Limit(s.nvm, s.ssd, dev)
           /\ Limit(t.nvm, t.ssd, dev) = t.ip.ssdoff + LBlock
           /\ \A e \in Devices : e # dev => Limit(t.nvm, t.ssd, e) = Limit(s.nvm, s.ssd, e)
  <2> USE <1>OpenedLimits
  <2> DEFINE d == t.ip.devid
             a == t.ip.ssdoff
  <2>1. d \in 0..3 /\ s.nvm \in Nat /\ s.ssd \in [1..3 -> Nat] /\ LBlock \in Nat
    BY FieldsOf, FileWriteAssumption
  <2>2. a = Chunk(s, d) /\ ChunkTaken(t, s, d)
    BY Zenon DEF Opened
  <2>3. CASE d = 0
    <3>1. /\ t.nvm = allocate_nvmblock(s) + LBlock /\ t.ssd = s.ssd
          /\ ~s.wrapped /\ s.nvm + LBlock <= NvmSize
      BY <2>2, <2>3, Zenon DEF ChunkTaken
    <3>2. allocate_nvmblock(s) = s.nvm
      BY <3>1, Zenon DEF allocate_nvmblock
    <3>3. d + 1 = 1 /\ a = s.nvm
      BY <2>2, <2>3, <3>2 DEF Chunk
    <3> QED BY <3>1, <3>2, <3>3, Zenon DEF Limit
  <2>4. CASE d # 0
    <3>1. t.nvm = s.nvm /\ t.ssd = [s.ssd EXCEPT ![d] = @ + 1] /\ t.wrapped = s.wrapped
      BY <2>2, <2>4, Zenon DEF ChunkTaken
    <3>2. d \in 1..3 /\ d + 1 # 1 /\ (d + 1) - 1 = d
      BY <2>1, <2>4
    <3>3. a = s.ssd[d] * LBlock
      BY <2>2, <2>4, Zenon DEF Chunk
    <3>4. t.ssd[d] = s.ssd[d] + 1 /\ s.ssd[d] \in Nat
      BY <2>1, <3>1, <3>2, Zenon
    <3>5. (s.ssd[d] + 1) * LBlock = s.ssd[d] * LBlock + LBlock
      BY <2>1, <3>4
    <3>6. Limit(s.nvm, s.ssd, d + 1) = a /\ Limit(t.nvm, t.ssd, d + 1) = a + LBlock
      BY <3>2, <3>3, <3>4, <3>5, Zenon DEF Limit
    <3>7. ASSUME NEW e \in Devices, e # d + 1
          PROVE  Limit(t.nvm, t.ssd, e) = Limit(s.nvm, s.ssd, e)
      <4>1. CASE e = 1
        BY <3>1, <4>1, Zenon DEF Limit
      <4>2. CASE e # 1
        <5>1. e - 1 \in 1..3 /\ e - 1 # d
          BY <2>1, <3>7, <4>2 DEF Devices
        <5>2. t.ssd[e - 1] = s.ssd[e - 1]
          BY <2>1, <3>1, <5>1, Zenon
        <5> QED BY <4>2, <5>2, Zenon DEF Limit
      <4> QED BY <4>1, <4>2, Zenon
    <3> QED BY <3>1, <3>6, <3>7, Zenon
  <2> QED
    BY <2>3, <2>4, Zenon
<1> SUFFICES ASSUME Types, Growing, LBlock < AddrMod, NEW f \in Files,
                    ~ AppendChunk(Context(f)).wrapped
             PROVE  RoomIsFree(AppendChunk(Context(f)), f)
  BY Zenon
<1> DEFINE s == Context(f)
           t == AppendChunk(s)
           z == inode[f].size
           at == t.ip.ssdoff
           dev == t.ip.devid + 1
           base == at - (z % LBlock)
<1>1. s \in Contexts /\ t \in Contexts
  BY ContextType, AppendChunkType, Zenon DEF KeepsSize
<1>2. /\ s.ip = inode[f] /\ s.nvm = nvm_block_addr /\ s.ssd = ssd_block_addr
      /\ s.wrapped = wrapped
  BY Zenon DEF Context
<1> HIDE DEF s
<1>3. AppendAt(t, s)
  <2>1. Headed(s.ip) /\ s.nvm % LBlock = 0
    BY <1>2, Zenon DEF Growing
  <2> QED BY <1>1, <2>1, AppendPlace, Zenon
<1> HIDE DEF t
<1>4. at \in Nat /\ t.ip.devid \in 0..3 /\ dev \in Devices /\ LBlock \in Nat \ {0} /\ z \in Nat
      /\ ~t.wrapped
  <2>1. at \in Nat /\ t.ip.devid \in 0..3 /\ s.ip.size \in Nat
    BY <1>1, FieldsOf, Zenon
  <2>2. dev \in Devices
    BY <2>1 DEF Devices
  <2> QED BY <1>2, <2>1, <2>2, FileWriteAssumption, Zenon DEF t, s
<1>5. CASE Started(t, s)
  <2>1. z % LBlock = 0 /\ Opened(t, s)
    BY <1>2, <1>5, Zenon DEF Started
  <2>2. /\ ~s.wrapped /\ at = Limit(s.nvm, s.ssd, dev)
        /\ Limit(t.nvm, t.ssd, dev) = at + LBlock
        /\ \A e \in Devices : e # dev => Limit(t.nvm, t.ssd, e) = Limit(s.nvm, s.ssd, e)
    BY <1>1, <1>4, <2>1, <1>OpenedLimits, Zenon
  <2>3. base = at
    BY <1>4, <2>1
  <2> HIDE DEF at, base, dev
  <2>4. ASSUME NEW e \in Devices
        PROVE  Limit(nvm_block_addr, ssd_block_addr, e) <= Limit(t.nvm, t.ssd, e)
    <3>1. Limit(s.nvm, s.ssd, e) \in Nat
      BY <1>1, LimitType, Zenon
    <3> QED BY <1>2, <1>4, <2>2, <3>1
  <2>5. base + LBlock <= Limit(t.nvm, t.ssd, dev)
    BY <1>4, <2>2, <2>3
  <2>6. ASSUME NEW a \in Int, Was(dev, a) PROVE a < at
    BY <1>2, <2>2, <2>6, Zenon DEF Was, InUse
  <2>7. ASSUME NEW g \in Files, inode[g].size > 0, inode[g].devid + 1 = dev
        PROVE  Base(inode[g]) + LBlock <= base
    <3>1. ChunksApart
      BY <1>2, <2>2, Zenon DEF Growing
    <3> QED BY <1>2, <2>2, <2>3, <2>7, <3>1, Zenon DEF ChunksApart
  <2> QED BY <1>2, <2>2, <2>4, <2>5, <2>6, <2>7, Zenon DEF RoomIsFree, at, dev, base, t, s
<1>6. CASE Continued(t, s)
  <2>1. z % LBlock # 0 /\ t = s
    BY <1>2, <1>6, Zenon DEF Continued
  <2>2. z > 0
    <3>1. 0 % LBlock = 0
      BY <1>4
    <3>2. z # 0
      BY <2>1, <3>1, Zenon
    <3> QED BY <1>4, <3>2, Positive, Zenon
  <2>3. at = inode[f].ssdoff /\ dev = inode[f].devid + 1 /\ Base(inode[f]) = base /\ ~wrapped
    <3>1. Fill(z) = z % LBlock
      BY <1>4, <2>1, FillRange, Zenon
    <3> QED BY <1>2, <1>4, <2>1, <3>1, Zenon DEF Base
  <2>4. ChunksApart
    BY <2>3, Zenon DEF Growing
  <2>5. t.nvm = nvm_block_addr /\ t.ssd = ssd_block_addr
    BY <1>2, <2>1, Zenon
  <2>6. \A e \in Devices : Limit(nvm_block_addr, ssd_block_addr, e) <= Limit(t.nvm, t.ssd, e)
    <3>1. \A e \in Devices : Limit(t.nvm, t.ssd, e) \in Nat
      BY <1>1, LimitType, Zenon
    <3> QED BY <2>5, <3>1
  <2> HIDE DEF at, base, dev, z
  <2>7. base + LBlock <= Limit(t.nvm, t.ssd, dev)
    BY <2>2, <2>3, <2>4, <2>5, Zenon DEF ChunksApart, z
  <2>8. ASSUME NEW a \in Int, Was(dev, a) PROVE a < at \/ base + LBlock <= a
    BY <2>2, <2>3, <2>8, Zenon DEF Was, InUse, z
  <2>9. ASSUME NEW g \in Files, g # f, inode[g].size > 0, inode[g].devid + 1 = dev
        PROVE  base + LBlock <= Base(inode[g]) \/ Base(inode[g]) + LBlock <= base
    <3>1. inode[g].devid = inode[f].devid
      <4>1. inode[g].devid \in Int /\ inode[f].devid \in Int
        BY DEF Types, Ips
      <4> QED BY <2>3, <2>9, <4>1
    <3> QED BY <2>2, <2>3, <2>4, <2>9, <3>1, Zenon DEF ChunksApart, z
  <2> QED BY <2>3, <2>6, <2>7, <2>8, <2>9, Zenon DEF RoomIsFree, at, dev, base, t, s, z
<1> QED
  BY <1>3, <1>5, <1>6, Zenon DEF AppendAt, t, s

\* What a piece at the end of a file does to the state, t being the context
\* once the chunk for it has been found.
AppendStep(w, size, t) ==
  LET f == Target[w]
      off == fd[w].off
      p == [dev |-> t.ip.devid + 1, at |-> t.ip.ssdoff, off |-> off, n |-> size,
            from |-> off, to |-> off + size]
  IN /\ fd[w].busy /\ off = inode[f].size /\ off % Block = 0 /\ off + size <= MaxSize
     /\ size % Block = 0 /\ (off % LBlock) + size <= LBlock
     /\ inode'[f].size = off + size /\ inode'[f].ssdoff = t.ip.ssdoff + size
     /\ inode'[f].devid = t.ip.devid /\ inode'[f].usednvms = t.ip.usednvms
     /\ \A g \in Files : g # f => inode'[g] = inode[g] /\ blktree'[g] = blktree[g]
     /\ blktree'[f] = insert_blktree(blktree[f], t.ip.devid + 1, t.ip.ssdoff, off, size)
     /\ nvm_block_addr' = t.nvm /\ ssd_block_addr' = t.ssd /\ wrapped' = t.wrapped
     /\ panicked' = "" /\ extent' = Logged(f, <<p>>) /\ media' = Written(f, fd[w].ver, <<p>>)
     /\ \A g \in Files : \A v \in FileUnits :
          latest'[g][v] = IF g = f /\ off <= v /\ v < off + size THEN fd[w].ver ELSE latest[g][v]
     /\ fd'[w].off = off + size /\ fd'[w].left = fd[w].left - size /\ fd[w].left % Block = 0
     /\ \A x \in Writers : x # w => fd'[x] = fd[x]

\* When files only grow by whole blocks, every piece is such an append.
LEMMA PieceAppends ==
  \A w \in Writers :
    /\ AppendOnly /\ Types /\ Growing /\ WritePiece(w)
    =>  LET t == AppendChunk(Context(Target[w])) IN
        /\ t \in Contexts /\ AppendAt(t, Context(Target[w]))
        /\ \E size \in Nat \ {0} : AppendStep(w, size, t)
\* An append does not panic, and puts the piece there.
<1>AppendPieceFields.
    ASSUME NEW s \in Contexts, Headed(s.ip), s.nvm % LBlock = 0, LBlock < AddrMod,
           NEW off, off = s.ip.size, NEW size \in Nat
    PROVE  PieceAppended(AppendPiece(s, off, size, off, TRUE), AppendChunk(s), off, size)
  <2> USE <1>AppendPieceFields
  <2> DEFINE t == AppendChunk(s)
             at == t.ip.ssdoff
             dev == t.ip.devid + 1
             p == [dev |-> dev, at |-> at, off |-> off, n |-> size, from |-> off, to |-> off + size]
             tree == insert_blktree(t.tree, dev, at, off, size)
             v == at + size
             u == [t EXCEPT !.puts = Append(t.puts, p), !.ip.ssdoff = v, !.tree = tree]
  <2>0. t \in Contexts /\ at % LBlock = off % LBlock
    BY AppendChunkType, AppendPlace, Zenon DEF KeepsSize, AppendAt
  <2>1. t \in Contexts /\ at % LBlock = off % LBlock /\ Floor(at) = at
    <3>1. at \in Nat /\ off \in Nat /\ off % Block = 0
      BY <2>0, FieldsOf, Zenon DEF Headed
    <3> QED BY <2>0, <3>1, SameInChunk, Zenon
  <2>2. AppendPiece(s, off, size, off, TRUE)
          = [Put(t, dev, at, off, size, off, off + size)
               EXCEPT !.ip.ssdoff = @ + size, !.tree = insert_blktree(@, dev, at, off, size)]
    BY <2>1, Zenon DEF AppendPiece
  <2> DEFINE y == Put(t, dev, at, off, size, off, off + size)
  <2> HIDE DEF t, dev, p
  <2>3. /\ y.ip = t.ip /\ y.tree = t.tree /\ y.puts = Append(t.puts, p) /\ y.nvm = t.nvm
        /\ y.ssd = t.ssd /\ y.wrapped = t.wrapped /\ y.panic = t.panic
        /\ DOMAIN y = DOMAIN t
    BY <2>1, Zenon DEF Put, Contexts, p
  <2> HIDE DEF y
  <2> DEFINE x == [y EXCEPT !.ip.ssdoff = v, !.tree = tree]
  <2>4. AppendPiece(s, off, size, off, TRUE) = x
    BY <2>2, <2>3, Zenon DEF y
  <2> HIDE DEF v, tree
  <2>5. /\ x.ip.ssdoff = v /\ x.ip.devid = t.ip.devid /\ x.ip.usednvms = t.ip.usednvms
        /\ x.tree = tree /\ x.puts = y.puts /\ x.nvm = y.nvm /\ x.ssd = y.ssd
        /\ x.wrapped = y.wrapped /\ x.panic = y.panic
    BY <2>1, <2>3, Zenon DEF Contexts, Ips
  <2> HIDE DEF x
  <2>6. PieceAppended(x, t, off, size)
    BY <2>3, <2>5, Zenon DEF PieceAppended, v, tree, p, dev
  <2> QED
    BY <2>4, <2>6, Zenon DEF t
\* Pieces of a write of whole blocks are whole blocks inside one 2M block.
<1>WholePieces.
    ASSUME NEW off \in Nat, off % Block = 0, NEW left \in Nat \ {0}, left % Block = 0
    PROVE  LET size == PieceSize(off, left) IN
           /\ size \in 1 .. left /\ size >= Block /\ size % Block = 0
           /\ (off % LBlock) + size <= LBlock
  <2> USE <1>WholePieces
  <2> DEFINE room == LBlock - (off % LBlock)
  <2>1. Block \in Nat \ {0} /\ LBlock \in Nat \ {0} /\ LBlock % Block = 0
    BY FileWriteAssumption, Zenon
  <2>2. left >= Block
    <3>1. 0 % Block = 0 /\ 0 < left /\ 0 \in Int /\ left \in Int
      BY <2>1
    <3>2. 0 + Block <= left
      BY <3>1, MultiplesApart, Zenon
    <3> QED BY <2>1, <3>2
  <2>3. Floor(left) = left
    BY <2>1 DEF Floor
  <2>4. PieceSize(off, left) = IF left < room THEN left ELSE room
    BY <2>1, <2>2, <2>3 DEF PieceSize
  <2>5. off % LBlock \in 0 .. LBlock - 1 /\ (off - (off % LBlock)) % LBlock = 0
    BY <2>1, Rounding, Zenon
  <2>6. room % Block = 0
    <3> DEFINE r == off % LBlock
               q == (off - r) \div LBlock
               k == LBlock \div Block
    <3>1. off - r = LBlock * q /\ q \in Int /\ LBlock = Block * k /\ k \in Int /\ r \in Int
      BY <2>1, <2>5
    <3>2. off - r = Block * (k * q) /\ k * q \in Int
      BY <2>1, <3>1
    <3> HIDE DEF q, k
    <3>3. \A m \in Int : (Block * m) % Block = 0
      BY <2>1
    <3>4. (off - r) % Block = 0 /\ off - r \in Int
      BY <3>1, <3>2, <3>3
    <3> HIDE DEF r
    <3>5. (off - (off - r)) % Block = 0
      <4>1. off \in Int
        OBVIOUS
      <4> QED BY <3>4, <4>1, MultiplesLess, Zenon
    <3>6. off - (off - r) = r
      BY <3>1
    <3>7. r % Block = 0
      BY <3>5, <3>6, Zenon
    <3>8. (LBlock - r) % Block = 0
      <4>1. LBlock \in Int
        BY <2>1
      <4> QED BY <2>1, <3>1, <3>7, <4>1, MultiplesLess, Zenon
    <3> QED BY <3>8, Zenon DEF r
  <2>7. room \in 1 .. LBlock
    BY <2>1, <2>5
  <2>8. room >= Block
    <3>1. 0 % Block = 0 /\ 0 < room /\ 0 \in Int /\ room \in Int
      BY <2>1, <2>7
    <3> HIDE DEF room
    <3>2. 0 + Block <= room
      BY <2>6, <3>1, MultiplesApart, Zenon
    <3> QED BY <2>1, <3>2
  <2>9. (off % LBlock) + room = LBlock
    BY <2>1, <2>5
  <2>10. off % LBlock \in Nat /\ room \in Nat
    BY <2>1, <2>5, <2>7
  <2> HIDE DEF room
  <2>11. CASE left < room
    BY <2>1, <2>2, <2>4, <2>9, <2>10, <2>11
  <2>12. CASE ~ (left < room)
    BY <2>1, <2>4, <2>6, <2>7, <2>8, <2>9, <2>10, <2>12
  <2> QED
    BY <2>11, <2>12, Zenon
\* Such a piece at the end of the file is an append.
<1>PieceIsAppend.
    ASSUME NEW s, NEW off \in Nat, off % Block = 0, off = s.ip.size, NEW size \in Nat, size >= Block
    PROVE  snfs_write(s, off, size) = AppendPiece(s, off, size, off, TRUE)
  <2> USE <1>PieceIsAppend
  <2>1. ~ (off % Block # 0) /\ ~ (size < Block)
    BY FileWriteAssumption
  <2>2. snfs_write(s, off, size) = aligned_write(s, off, size)
    BY <2>1, Zenon DEF snfs_write
  <2> QED
    BY <2>2, Zenon DEF aligned_write
<1> SUFFICES ASSUME AppendOnly, Types, Growing, NEW w \in Writers, WritePiece(w)
             PROVE  LET t == AppendChunk(Context(Target[w])) IN
                    /\ t \in Contexts /\ AppendAt(t, Context(Target[w]))
                    /\ \E size \in Nat \ {0} : AppendStep(w, size, t)
  BY Zenon
<1> DEFINE f == Target[w]
           off == fd[w].off
           left == fd[w].left
           size == PieceSize(off, left)
           s == Context(f)
           t == AppendChunk(s)
           u == snfs_write(s, off, size)
           p == [dev |-> t.ip.devid + 1, at |-> t.ip.ssdoff, off |-> off, n |-> size,
                 from |-> off, to |-> off + size]
<1>1. left > 0 /\ fd[w].busy
  BY Zenon DEF WritePiece
<1>2. f \in Files /\ size \in 1 .. left /\ u \in Contexts /\ u.ip.size = inode[f].size
  BY <1>1, PieceTypes, Zenon
<1>3. fd[w] \in Descriptors /\ off \in Nat /\ left \in Nat \ {0} /\ off + left <= MaxSize
  <2>1. fd[w] \in Descriptors /\ off + left <= MaxSize
    BY Zenon DEF Types
  <2> QED BY <1>1, <2>1 DEF Descriptors
<1>4. off = inode[f].size /\ left % Block = 0 /\ off % Block = 0
  <2>1. Appends(w) /\ Headed(inode[f])
    BY <1>2, Zenon DEF Growing
  <2>2. off = inode[f].size /\ left % Block = 0
    BY <1>1, <2>1, Zenon DEF Appends
  <2>3. inode[f].size % Block = 0
    BY <2>1, Zenon DEF Headed
  <2> QED BY <2>2, <2>3, Zenon
<1>5. size >= Block /\ size % Block = 0 /\ (off % LBlock) + size <= LBlock
  BY <1>3, <1>4, <1>WholePieces, Zenon
<1>6. s \in Contexts /\ s.ip = inode[f] /\ s.nvm = nvm_block_addr /\ s.puts = << >>
      /\ s.panic = "" /\ s.tree = blktree[f]
  BY <1>2, ContextType, Zenon DEF Context
<1>7. \A o \in Int, l \in Nat : \A n \in 1 .. l : n \in Nat \ {0} /\ (o + l <= MaxSize => o + n <= MaxSize)
  BY FileWriteAssumption
<1>8. /\ u.ip.size = off /\ inode' = [inode EXCEPT ![f] =
           IF off + size > u.ip.size /\ u.panic = "" THEN [u.ip EXCEPT !.size = off + size]
           ELSE u.ip]
      /\ blktree' = [blktree EXCEPT ![f] = u.tree]
      /\ nvm_block_addr' = u.nvm /\ ssd_block_addr' = u.ssd /\ wrapped' = u.wrapped
      /\ media' = Written(f, fd[w].ver, u.puts)
      /\ extent' = Logged(f, u.puts) /\ panicked' = u.panic
      /\ latest' = [latest EXCEPT ![f] = [v \in FileUnits |->
                      IF off <= v /\ v < off + size THEN fd[w].ver ELSE @[v]]]
      /\ fd' = [fd EXCEPT ![w].off = off + size, ![w].left = @ - size]
  BY <1>2, <1>4, Zenon DEF WritePiece
<1> HIDE DEF f, size, s
<1>9. size \in Nat \ {0} /\ off + size <= MaxSize
  <2>1. off \in Int /\ left \in Nat
    BY <1>3
  <2> HIDE DEF off, left
  <2> QED BY <1>2, <1>3, <1>7, <2>1, Zenon
<1>10. u = AppendPiece(s, off, size, off, TRUE)
  BY <1>3, <1>4, <1>5, <1>6, <1>9, <1>PieceIsAppend, Zenon
<1>11. Headed(s.ip) /\ s.nvm % LBlock = 0 /\ LBlock < AddrMod
  BY <1>2, <1>6, Zenon DEF Growing, AppendOnly
<1>12. t \in Contexts /\ AppendAt(t, s)
  BY <1>6, <1>11, AppendChunkType, AppendPlace, Zenon DEF KeepsSize
<1>13. PieceAppended(u, t, off, size)
  <2>1. size \in Nat /\ off = s.ip.size
    BY <1>4, <1>6, <1>9, Zenon
  <2>2. PieceAppended(AppendPiece(s, off, size, off, TRUE), t, off, size)
    BY <1>6, <1>11, <2>1, <1>AppendPieceFields, Zenon
  <2> QED BY <1>10, <2>2, Zenon
<1>14. t.puts = << >> /\ t.panic = "" /\ t.tree = blktree[f]
  BY <1>6, <1>12, Zenon DEF AppendAt
<1> HIDE DEF t, u
<1>15. /\ u.puts = <<p>> /\ u.panic = "" /\ u.nvm = t.nvm /\ u.ssd = t.ssd
       /\ u.wrapped = t.wrapped
       /\ u.tree = insert_blktree(blktree[f], t.ip.devid + 1, t.ip.ssdoff, off, size)
       /\ u.ip.ssdoff = t.ip.ssdoff + size /\ u.ip.devid = t.ip.devid
       /\ u.ip.usednvms = t.ip.usednvms
  <2>1. \A q : Append(<< >>, q) = <<q>>
    OBVIOUS
  <2> QED BY <1>13, <1>14, <2>1, Zenon DEF PieceAppended
<1> HIDE DEF p
<1>16. /\ inode'[f].size = off + size /\ inode'[f].ssdoff = t.ip.ssdoff + size
       /\ inode'[f].devid = t.ip.devid /\ inode'[f].usednvms = t.ip.usednvms
       /\ \A g \in Files : g # f => inode'[g] = inode[g]
  <2> DEFINE v == off + size
  <2>1. v > off
    BY <1>3, <1>9
  <2>2. inode' = [inode EXCEPT ![f] = [u.ip EXCEPT !.size = v]] /\ inode \in [Files -> Ips]
    BY <1>8, <1>15, <2>1, Zenon DEF Types
  <2> HIDE DEF v
  <2>3. u.ip \in Ips
    BY <1>2, FieldsOf, Zenon DEF u, s, f, size
  <2> DEFINE ip == [u.ip EXCEPT !.size = v]
  <2>4. ip.size = v /\ ip.ssdoff = u.ip.ssdoff /\ ip.devid = u.ip.devid /\ ip.usednvms = u.ip.usednvms
    BY <2>3, Zenon DEF Ips
  <2> HIDE DEF ip
  <2>5. inode'[f] = ip /\ \A g \in Files : g # f => inode'[g] = inode[g]
    BY <1>2, <2>2, Zenon DEF ip
  <2> QED BY <1>15, <2>4, <2>5, Zenon DEF v
<1>17. blktree'[f] = insert_blktree(blktree[f], t.ip.devid + 1, t.ip.ssdoff, off, size)
       /\ \A g \in Files : g # f => blktree'[g] = blktree[g]
  BY <1>2, <1>8, <1>15, Zenon DEF Types
<1>18. \A g \in Files : \A v \in FileUnits :
         latest'[g][v] = IF g = f /\ off <= v /\ v < off + size THEN fd[w].ver ELSE latest[g][v]
  <2>1. latest \in [Files -> [FileUnits -> Nat]]
    BY Zenon DEF Types
  <2> QED BY <1>2, <1>8, <2>1, Zenon
<1>19. fd'[w].off = off + size /\ fd'[w].left = left - size
       /\ \A x \in Writers : x # w => fd'[x] = fd[x]
  <2>1. fd \in [Writers -> Descriptors]
    BY Zenon DEF Types
  <2> QED BY <1>3, <1>8, <2>1, Zenon DEF Descriptors
<1>20. AppendStep(w, size, t)
  <2>1. extent' = Logged(f, <<p>>) /\ media' = Written(f, fd[w].ver, <<p>>) /\ panicked' = ""
        /\ nvm_block_addr' = t.nvm /\ ssd_block_addr' = t.ssd /\ wrapped' = t.wrapped
    BY <1>8, <1>15, Zenon
  <2> QED BY <1>1, <1>4, <1>5, <1>9, <1>16, <1>17, <1>18, <1>19, <2>1, Zenon
          DEF AppendStep, f, p
<1> QED
  BY <1>9, <1>12, <1>20, Zenon DEF t, s, f

\* The append of size bytes at the placement tip takes the inode old to new
\* without leaving the chunk that tip is in.
ChunkKept(old, new, tip, size) ==
  /\ (old.size % LBlock) \in 0 .. LBlock - 1 /\ (old.size % LBlock) + size <= LBlock
  /\ tip.ssdoff - (old.size % LBlock) \in Nat
  /\ tip.ssdoff \in Nat /\ tip.devid \in 0..3 /\ old.size \in Nat
  /\ Base(new) = tip.ssdoff - (old.size % LBlock) /\ Headed(new)

\* The chunk of a file after an append is the one that was appended to.
LEMMA HeadGrows ==
  ASSUME AppendOnly, Types, Growing, NEW w \in Writers, NEW size \in Nat \ {0},
         NEW t \in Contexts, AppendAt(t, Context(Target[w])), AppendStep(w, size, t)
  PROVE  ChunkKept(inode[Target[w]], inode'[Target[w]], t.ip, size)
<1> DEFINE f == Target[w]
           z == inode[f].size
           r == z % LBlock
           at == t.ip.ssdoff
<1>1. f \in Files /\ inode[f] \in Ips /\ LBlock \in Nat \ {0}
  BY FileWriteAssumption, Zenon DEF Types
<1>2. z \in Nat /\ at \in Nat /\ t.ip.devid \in 0..3
  BY <1>1, FieldsOf, Zenon DEF Ips
<1>3. Context(f).ip = inode[f]
  BY Zenon DEF Context
<1>4. /\ at - r \in Nat /\ (at - r) % LBlock = 0
      /\ t.ip.devid = 0 => t.ip.usednvms = at - r
  BY <1>3, Zenon DEF AppendAt
<1>5. /\ r + size <= LBlock /\ inode'[f].size = z + size /\ inode'[f].ssdoff = at + size
      /\ inode'[f].devid = t.ip.devid /\ inode'[f].usednvms = t.ip.usednvms
      /\ z % Block = 0 /\ size % Block = 0
  BY Zenon DEF AppendStep
<1>6. r \in 0 .. LBlock - 1
  BY <1>1, <1>2, Rounding, Zenon
<1>7. Fill(z + size) = r + size
  BY <1>2, <1>5, FillGrows, Zenon
<1> HIDE DEF z, at, f
<1>8. (z + size) % Block = 0 /\ z + size > 0
  <2>1. z \in Int /\ size \in Int /\ z + size > 0
    BY <1>2
  <2> QED BY <1>5, <2>1, MultiplesSum, Zenon
<1> HIDE DEF r
<1>9. Base(inode'[f]) = at - r
  <2>1. (at + size) - (r + size) = at - r
    BY <1>2, <1>6
  <2> QED BY <1>5, <1>7, <2>1, Zenon DEF Base
<1>10. Headed(inode'[f])
  <2>1. z + size # 0
    BY <1>2
  <2> QED BY <1>4, <1>5, <1>8, <1>9, <2>1, Zenon DEF Headed
<1> QED
  BY <1>2, <1>4, <1>5, <1>6, <1>9, <1>10, Zenon DEF z, r, at, f, ChunkKept

\* The chunks stay apart.
LEMMA ChunksGrow ==
  ASSUME AppendOnly, Types, Growing, NEW w \in Writers, NEW size \in Nat \ {0},
         NEW t \in Contexts, AppendAt(t, Context(Target[w])), AppendStep(w, size, t),
         RoomIsFree(t, Target[w])
  PROVE  ChunksApart'
<1> DEFINE f == Target[w]
           base == t.ip.ssdoff - (inode[f].size % LBlock)
           L(e) == Limit(nvm_block_addr, ssd_block_addr, e)
           M(e) == Limit(t.nvm, t.ssd, e)
<1>1. base \in Nat /\ Base(inode'[f]) = base /\ f \in Files /\ LBlock \in Nat
  <2>1. ChunkKept(inode[Target[w]], inode'[Target[w]], t.ip, size)
    BY HeadGrows, Zenon
  <2>2. Target[w] \in Files /\ LBlock \in Nat
    BY FileWriteAssumption, Zenon
  <2> QED BY <2>1, <2>2, Zenon DEF ChunkKept
<1>2. /\ ~wrapped /\ \A e \in Devices : L(e) <= M(e)
      /\ base + LBlock <= M(t.ip.devid + 1)
      /\ \A g \in Files : g # f /\ inode[g].size > 0 /\ inode[g].devid + 1 = t.ip.devid + 1 =>
            base + LBlock <= Base(inode[g]) \/ Base(inode[g]) + LBlock <= base
  BY Zenon DEF RoomIsFree
<1>3. ChunksApart
  BY <1>2, Zenon DEF Growing
<1>4. /\ nvm_block_addr' = t.nvm /\ ssd_block_addr' = t.ssd /\ inode'[f].devid = t.ip.devid
      /\ \A g \in Files : g # f => inode'[g] = inode[g]
  BY Zenon DEF AppendStep
<1>5. \A e \in Devices : L(e) \in Nat /\ M(e) \in Nat
  <2>1. Context(f) \in Contexts /\ Context(f).nvm = nvm_block_addr /\ Context(f).ssd = ssd_block_addr
    BY <1>1, ContextType, Zenon DEF Context
  <2>2. \A e \in Devices : Limit(Context(f).nvm, Context(f).ssd, e) \in Nat
    BY <2>1, LimitType, Zenon
  <2>3. \A e \in Devices : M(e) \in Nat
    BY LimitType, Zenon
  <2> QED BY <2>1, <2>2, <2>3, Zenon
<1> HIDE DEF f, base, L, M
<1>6. ASSUME NEW g \in Files, inode'[g].size > 0
      PROVE  Base(inode'[g]) + LBlock <= M(inode'[g].devid + 1)
  <2>1. CASE g = f
    BY <1>1, <1>2, <1>4, <2>1, Zenon
  <2>2. CASE g # f
    <3>1. Base(inode[g]) + LBlock <= L(inode[g].devid + 1)
      BY <1>3, <1>4, <1>6, <2>2, Zenon DEF ChunksApart, L
    <3>2. inode[g] \in Ips
      BY Zenon DEF Types
    <3>3. inode[g].devid \in 0..3 /\ inode[g].size \in Nat /\ inode[g].ssdoff \in Nat
      BY <3>2, Zenon DEF Ips
    <3>4. inode[g].devid + 1 \in Devices
      BY <3>3, DeviceOf, Zenon
    <3>5. Base(inode[g]) \in Int
      BY <3>3, FillRange DEF Base
    <3>6. Base(inode[g]) + LBlock <= M(inode[g].devid + 1)
      BY <1>1, <1>2, <1>5, <3>1, <3>4, <3>5
    <3> QED BY <1>4, <2>2, <3>6, Zenon
  <2> QED BY <2>1, <2>2, Zenon
<1>7. ASSUME NEW g \in Files, NEW h \in Files, g # h, inode'[g].size > 0, inode'[h].size > 0,
             inode'[g].devid = inode'[h].devid
      PROVE  \/ Base(inode'[g]) + LBlock <= Base(inode'[h])
             \/ Base(inode'[h]) + LBlock <= Base(inode'[g])
  <2>1. CASE g = f
    BY <1>1, <1>2, <1>4, <1>7, <2>1, Zenon
  <2>2. CASE h = f
    BY <1>1, <1>2, <1>4, <1>7, <2>2, Zenon
  <2>3. CASE g # f /\ h # f
    BY <1>3, <1>4, <1>7, <2>3, Zenon DEF ChunksApart
  <2> QED BY <2>1, <2>2, <2>3, Zenon
<1> QED
  BY <1>4, <1>6, <1>7, Zenon DEF ChunksApart, M

\* Addresses with equal places in their 2M blocks are equally aligned.
LEMMA SameAlignment ==
  ASSUME NEW a \in Nat, NEW c \in Nat, a % LBlock = c % LBlock, c % Block = 0
  PROVE  a % Block = 0
<1> DEFINE r == c % LBlock
           k == LBlock \div Block
           x == a \div LBlock
           y == c \div LBlock
<1>1. Block \in Nat \ {0} /\ LBlock \in Nat \ {0} /\ LBlock % Block = 0
  BY FileWriteAssumption, Zenon
<1>2. LBlock = Block * k /\ k \in Int
  BY <1>1
<1>3. a = LBlock * x + r /\ c = LBlock * y + r /\ x \in Int /\ y \in Int /\ r \in Int
  BY <1>1
<1> HIDE DEF x, y, r, k
<1>4. a - c = LBlock * (x - y)
  <2>1. LBlock * x \in Int /\ LBlock * y \in Int /\ LBlock * (x - y) = LBlock * x - LBlock * y
    BY <1>1, <1>3
  <2> QED BY <1>3, <2>1
<1>5. LBlock * (x - y) = Block * (k * (x - y)) /\ k * (x - y) \in Int
  BY <1>1, <1>2, <1>3
<1>6. \A m \in Int : (Block * m) % Block = 0
  BY <1>1
<1>7. (a - c) % Block = 0 /\ a - c \in Int
  BY <1>4, <1>5, <1>6
<1>8. ((a - c) + c) % Block = 0
  <2>1. c \in Int
    OBVIOUS
  <2> HIDE DEF r
  <2> QED BY <1>7, <2>1, MultiplesSum, Zenon
<1> QED
  BY <1>8

\* What an append at off leaves: the newest versions of its units, their bytes on
\* the device, and addresses in use that are not its own.
Stored(f, ver, dev, at, off, size) ==
  /\ \A h \in Files : \A v \in FileUnits :
       latest'[h][v] = IF h = f /\ off <= v /\ v < off + size THEN ver ELSE latest[h][v]
  /\ \A e \in Devices : \A a \in Nat :
       a < Space =>
         media'[e][a] = IF e = dev /\ at <= a /\ a < at + size THEN <<f, off + (a - at), ver>>
                        ELSE media[e][a]

UseKept(dev, at, size) ==
  \A e \in Devices : \A a \in Int :
    /\ Was(e, a) => ~ (e = dev /\ at <= a /\ a < at + size) /\ Now(e, a)
    /\ (e = dev /\ at <= a /\ a < at + size) => Now(e, a)

\* After an append every unit is where the log says.
LEMMA PlacedGrows ==
  \A w \in Writers, size \in Nat \ {0}, t \in Contexts, g \in Files :
  \A u \in 0 .. inode'[g].size - 1 :
    /\ AppendOnly /\ Types /\ Growing /\ AppendAt(t, Context(Target[w]))
    /\ AppendStep(w, size, t) /\ RoomIsFree(t, Target[w])
    /\ LogGrows(extent', Target[w], t.ip.devid + 1, t.ip.ssdoff, inode[Target[w]].size, size)
    =>  Placed(g, u)'
\* Two facts about numbers.
<1>Back. \A x, l \in Nat : \A y \in 0 .. l - 1 : (x - y) + y = x
  OBVIOUS
<1>Within. \A a, c \in Int : \A b, o, l \in Nat :
             b <= a /\ a < b + l /\ (b + l <= c \/ c + l <= b) /\ c <= o => a < o \/ c + l <= a
  OBVIOUS
\* Addresses in use stay in use, and are not those of the append; those of the
\* append come to be in use.
<1>UseGrows.
    ASSUME AppendOnly, Types, Growing, NEW w \in Writers, NEW size \in Nat \ {0},
           NEW t \in Contexts, AppendAt(t, Context(Target[w])), AppendStep(w, size, t),
           RoomIsFree(t, Target[w]), NEW e \in Devices, NEW a \in Int
    PROVE  LET at == t.ip.ssdoff
               new == e = t.ip.devid + 1 /\ at <= a /\ a < at + size
           IN /\ Was(e, a) => ~new /\ Now(e, a)
              /\ new => Now(e, a)
  <2> USE <1>UseGrows
  <2> DEFINE f == Target[w]
             at == t.ip.ssdoff
             dev == t.ip.devid + 1
             r == inode[f].size % LBlock
             base == at - r
             L(x) == Limit(nvm_block_addr, ssd_block_addr, x)
             M(x) == Limit(t.nvm, t.ssd, x)
             new == e = dev /\ at <= a /\ a < at + size
             Off(g) == inode[g].size > 0 /\ inode[g].devid + 1 = e =>
                         a < inode[g].ssdoff \/ Base(inode[g]) + LBlock <= a
  <2>1. /\ base \in Nat /\ Base(inode'[f]) = base /\ f \in Files /\ LBlock \in Nat
        /\ at \in Nat /\ r \in 0 .. LBlock - 1 /\ r + size <= LBlock
    <3>1. ChunkKept(inode[Target[w]], inode'[Target[w]], t.ip, size)
      BY HeadGrows, Zenon
    <3>2. Target[w] \in Files /\ LBlock \in Nat
      BY FileWriteAssumption, Zenon
    <3> QED BY <3>1, <3>2, Zenon DEF ChunkKept
  <2>2. /\ ~wrapped /\ \A x \in Devices : L(x) <= M(x)
        /\ base + LBlock <= M(dev)
        /\ Was(dev, a) => a < at \/ base + LBlock <= a
        /\ \A g \in Files : g # f /\ inode[g].size > 0 /\ inode[g].devid + 1 = dev =>
              base + LBlock <= Base(inode[g]) \/ Base(inode[g]) + LBlock <= base
    BY Zenon DEF RoomIsFree
  <2>4. /\ nvm_block_addr' = t.nvm /\ ssd_block_addr' = t.ssd /\ inode'[f].devid = t.ip.devid
        /\ inode'[f].ssdoff = at + size /\ \A g \in Files : g # f => inode'[g] = inode[g]
    BY Zenon DEF AppendStep
  <2>5. L(e) \in Nat /\ M(e) \in Nat
    <3>1. Context(f) \in Contexts /\ Context(f).nvm = nvm_block_addr /\ Context(f).ssd = ssd_block_addr
      BY <2>1, ContextType, Zenon DEF Context
    <3>2. Limit(Context(f).nvm, Context(f).ssd, e) \in Nat
      BY <3>1, LimitType, Zenon
    <3>3. M(e) \in Nat
      BY LimitType, Zenon
    <3> QED BY <3>1, <3>2, <3>3, Zenon
  <2>6. Was(e, a) <=> a \in Nat /\ a < L(e) /\ \A g \in Files : Off(g)
    BY Zenon DEF Was, InUse
  <2>7. a \in Nat /\ a < M(e) /\ (\A g \in Files : Off(g)') => Now(e, a)
    BY <2>4, Zenon DEF Now, InUse
  <2>8. base + r = at
    BY <2>1, <1>Back, Zenon
  <2> HIDE DEF L, M, base, r
  <2>9. ASSUME Was(e, a) PROVE ~new /\ Now(e, a)
    <3>1. ~new
      <4>1. e = dev => a < at \/ base + LBlock <= a
        BY <2>2, <2>9, Zenon
      <4>2. at + size <= base + LBlock
        BY <2>1, <2>8
      <4> HIDE DEF at
      <4> QED BY <2>1, <4>1, <4>2
    <3>2. a \in Nat /\ a < M(e)
      BY <2>2, <2>5, <2>6, <2>9
    <3>3. ASSUME NEW g \in Files PROVE Off(g)'
      <4>1. CASE g # f
        <5>1. inode'[g] = inode[g]
          BY <2>4, <4>1, Zenon
        <5>2. Off(g)
          BY <2>6, <2>9, Zenon
        <5> QED BY <5>1, <5>2, Zenon
      <4>2. CASE g = f
        <5>1. e = dev => a < at \/ base + LBlock <= a
          BY <2>2, <2>9, Zenon
        <5>2. a < at => a < at + size
          BY <2>1
        <5> QED BY <2>1, <2>4, <4>2, <5>1, <5>2, Zenon
      <4> QED BY <4>1, <4>2, Zenon
    <3> QED BY <2>7, <3>1, <3>2, <3>3, Zenon
  <2>10. ASSUME new PROVE Now(e, a)
    <3>1. base <= a /\ a < base + LBlock /\ a \in Nat
      BY <2>1, <2>8, <2>10
    <3>2. a < M(e)
      <4>1. M(e) = M(dev)
        BY <2>10, Zenon
      <4> HIDE DEF dev
      <4> QED BY <2>1, <2>2, <2>5, <3>1, <4>1
    <3>3. ASSUME NEW g \in Files PROVE Off(g)'
      <4>1. CASE g # f
        <5> SUFFICES ASSUME inode[g].size > 0, inode[g].devid + 1 = e
                     PROVE  a < inode[g].ssdoff \/ Base(inode[g]) + LBlock <= a
          BY <2>4, <4>1, Zenon
        <5>1. base + LBlock <= Base(inode[g]) \/ Base(inode[g]) + LBlock <= base
          BY <2>2, <2>10, <4>1, Zenon
        <5>2. inode[g] \in Ips
          BY Zenon DEF Types
        <5>3. inode[g].size \in Nat /\ inode[g].ssdoff \in Nat
          BY <5>2, Zenon DEF Ips
        <5>4. Base(inode[g]) \in Int /\ Base(inode[g]) <= inode[g].ssdoff
          BY <5>3, FillRange DEF Base
        <5> QED BY <2>1, <3>1, <5>1, <5>3, <5>4, <1>Within, Zenon
      <4>2. CASE g = f
        BY <2>4, <2>10, <4>2, Zenon
      <4> QED BY <4>1, <4>2, Zenon
    <3> QED BY <2>7, <3>1, <3>2, <3>3, Zenon
  <2> QED
    BY <2>9, <2>10, Zenon
\* A unit of the append is where the log says.
<1>PlacedNew.
    ASSUME NEW f \in Files, NEW ver, NEW dev \in Devices, NEW at \in Nat, NEW off \in Nat,
           NEW size \in Nat, NEW u \in Nat, off <= u, u < off + size, u \in FileUnits,
           Stored(f, ver, dev, at, off, size), UseKept(dev, at, size),
           LogGrows(extent', f, dev, at, off, size)
    PROVE  Placed(f, u)'
  <2> USE <1>PlacedNew
  <2>1. PICK a \in Nat : a = at + (u - off)
    OBVIOUS
  <2>2. at <= a /\ a < at + size /\ off + (a - at) = u /\ a \in Int
    BY <2>1
  <2>3. PlaceOf(extent'[f], u) = <<dev, a>>
    <3>1. u \in off .. (off + size) - 1
      OBVIOUS
    <3> QED BY <2>1, <3>1, Zenon DEF LogGrows, PlacesGrow
  <2>4. Now(dev, a)
    BY <2>2, Zenon DEF UseKept
  <2>5. latest'[f][u] = ver
    BY Zenon DEF Stored
  <2>6. a < Space => media'[dev][a] = <<f, u, ver>>
    BY <2>2, Zenon DEF Stored
  <2>7. PlaceOf(extent'[f], u)[1] = dev /\ PlaceOf(extent'[f], u)[2] = a
    BY <2>3
  <2> QED
    BY <2>4, <2>5, <2>6, <2>7, Zenon DEF Placed, Now
\* A unit that the append does not write stays where the log says.
<1>PlacedOld.
    ASSUME NEW f \in Files, NEW ver, NEW dev \in Devices, NEW at \in Nat, NEW off \in Nat,
           NEW size \in Nat, NEW g \in Files, NEW u \in Nat, g = f => u < off, u \in FileUnits,
           Stored(f, ver, dev, at, off, size), UseKept(dev, at, size),
           LogGrows(extent', f, dev, at, off, size), Placed(g, u)
    PROVE  Placed(g, u)'
  <2> USE <1>PlacedOld
  <2>1. PlaceOf(extent'[g], u) = PlaceOf(extent[g], u)
    <3>1. CASE g # f
      BY <3>1, Zenon DEF LogGrows
    <3>2. CASE g = f
      <4>1. u \in 0 .. off - 1
        BY <3>2
      <4> QED BY <3>2, <4>1, Zenon DEF LogGrows, PlacesGrow
    <3> QED BY <3>1, <3>2, Zenon
  <2> DEFINE e == PlaceOf(extent[g], u)[1]
             a == PlaceOf(extent[g], u)[2]
  <2>2. e \in Devices /\ Was(e, a) /\ (a < Space => media[e][a] = <<g, u, latest[g][u]>>)
    BY Zenon DEF Placed, Was
  <2>3. PlaceOf(extent'[g], u)[1] = e /\ PlaceOf(extent'[g], u)[2] = a
    BY <2>1, Zenon
  <2> HIDE DEF e, a
  <2>4. a \in Nat /\ a \in Int
    <3>1. a \in Nat
      BY <2>2, Zenon DEF Was, InUse
    <3> QED BY <3>1
  <2>5. ~ (e = dev /\ at <= a /\ a < at + size) /\ Now(e, a)
    BY <2>2, <2>4, Zenon DEF UseKept
  <2>6. latest'[g][u] = latest[g][u]
    <3>1. ~ (g = f /\ off <= u)
      OBVIOUS
    <3> QED BY <3>1, Zenon DEF Stored
  <2>7. a < Space => media'[e][a] = <<g, u, latest'[g][u]>>
    BY <2>2, <2>4, <2>5, <2>6, Zenon DEF Stored
  <2> QED
    BY <2>2, <2>3, <2>5, <2>7, Zenon DEF Placed, Now
\* What the devices hold after an append.
<1>WrittenAppend.
    ASSUME NEW f, NEW ver, NEW dev, NEW at \in Nat, NEW off \in Nat, NEW size \in Nat,
           NEW d \in Devices, NEW a \in 0 .. Space - 1
    PROVE  HoldsPut(f, ver, dev, at, off, size, d, a)
  <2> USE <1>WrittenAppend
  <2> DEFINE p == OnePut(dev, at, off, size)
             puts == <<p>>
             on == {i \in 1..Len(puts) : /\ puts[i].dev = d
                                         /\ puts[i].at <= a /\ a < puts[i].at + puts[i].n}
             i == LastPut(puts, d, a)
             u == puts[i].off + a - puts[i].at
             hit == d = dev /\ at <= a /\ a < at + size
  <2>1. Written(f, ver, puts)[d][a] = IF i = 0 THEN media[d][a]
          ELSE IF puts[i].from <= u /\ u < puts[i].to THEN <<f, u, ver>>
          ELSE Garbage
    BY Zenon DEF Written
  <2>2. /\ Len(puts) = 1 /\ puts[1].dev = dev /\ puts[1].at = at /\ puts[1].n = size
        /\ puts[1].off = off /\ puts[1].from = off /\ puts[1].to = off + size
    BY Zenon DEF OnePut
  <2>3. on = IF hit THEN {1} ELSE {}
    <3>1. 1..Len(puts) = {1}
      BY <2>2
    <3> HIDE DEF puts
    <3> QED BY <2>2, <3>1, Zenon
  <2>4. i = IF on = {} THEN 0 ELSE CHOOSE k \in on : \A j \in on : j <= k
    BY Zenon DEF LastPut
  <2> HIDE DEF puts, on, i
  <2>5. CASE ~ hit
    <3>1. i = 0
      BY <2>3, <2>4, <2>5, Zenon
    <3> QED BY <2>1, <2>5, <3>1, Zenon DEF puts, HoldsPut
  <2>6. CASE hit
    <3>1. on = {1}
      BY <2>3, <2>6, Zenon
    <3>2. i = 1
      <4>1. \A k \in {1} : \A j \in {1} : j <= k
        OBVIOUS
      <4>2. \E k \in on : \A j \in on : j <= k
        BY <3>1, <4>1, Zenon
      <4>3. (CHOOSE k \in on : \A j \in on : j <= k) \in on
        BY <4>2, Zenon
      <4> QED BY <2>4, <3>1, <4>3
    <3>3. u = off + (a - at)
      BY <2>2, <3>2, Zenon
    <3>4. off <= off + (a - at) /\ off + (a - at) < off + size
      BY <2>6, FileWriteAssumption
    <3> HIDE DEF u
    <3>5. Written(f, ver, puts)[d][a] = <<f, u, ver>>
      <4>1. i # 0
        BY <3>2
      <4>2. puts[i].from <= u /\ u < puts[i].to
        BY <2>2, <3>2, <3>3, <3>4, Zenon
      <4> QED BY <2>1, <4>1, <4>2, Zenon
    <3> QED BY <2>6, <3>3, <3>5, Zenon DEF puts, HoldsPut
  <2> QED
    BY <2>5, <2>6, Zenon
\* An append stores its units.
<1>StoredGrows.
    ASSUME AppendOnly, Types, Growing, NEW w \in Writers, NEW size \in Nat \ {0},
           NEW t \in Contexts, AppendAt(t, Context(Target[w])), AppendStep(w, size, t)
    PROVE  Stored(Target[w], fd[w].ver, t.ip.devid + 1, t.ip.ssdoff, inode[Target[w]].size, size)
  <2> USE <1>StoredGrows
  <2> DEFINE f == Target[w]
             off == inode[f].size
             at == t.ip.ssdoff
             dev == t.ip.devid + 1
             ver == fd[w].ver
             p == OnePut(dev, at, off, size)
  <2>1. f \in Files /\ off \in Nat /\ at \in Nat
    <3>1. ChunkKept(inode[f], inode'[f], t.ip, size)
      BY HeadGrows, Zenon
    <3>2. f \in Files
      BY FileWriteAssumption, Zenon
    <3> QED BY <3>1, <3>2, Zenon DEF ChunkKept
  <2>2. fd[w].off = off
    BY Zenon DEF AppendStep
  <2>3. /\ media' = Written(f, ver, <<[dev |-> dev, at |-> at, off |-> off, n |-> size,
                                       from |-> off, to |-> off + size]>>)
        /\ \A h \in Files : \A v \in FileUnits :
             latest'[h][v] = IF h = f /\ off <= v /\ v < off + size THEN ver ELSE latest[h][v]
    <3> DEFINE o == fd[w].off
    <3>1. /\ media' = Written(f, ver, <<[dev |-> dev, at |-> at, off |-> o, n |-> size,
                                         from |-> o, to |-> o + size]>>)
          /\ \A h \in Files : \A v \in FileUnits :
               latest'[h][v] = IF h = f /\ o <= v /\ v < o + size THEN ver ELSE latest[h][v]
      BY Zenon DEF AppendStep
    <3>2. o = off
      BY <2>2, Zenon
    <3> HIDE DEF o, f, dev, at, ver, off
    <3> QED BY <3>1, <3>2, Zenon
  <2>4. media' = Written(f, ver, <<p>>)
    BY <2>3, Zenon DEF OnePut
  <2> HIDE DEF f, off, at, dev, ver
  <2>5. size \in Nat
    BY Zenon
  <2> HIDE DEF p
  <2>6. ASSUME NEW e \in Devices, NEW a \in Nat, a < Space
        PROVE  media'[e][a] = IF e = dev /\ at <= a /\ a < at + size THEN <<f, off + (a - at), ver>>
                              ELSE media[e][a]
    <3>1. a \in 0 .. Space - 1
      BY <2>6, FileWriteAssumption
    <3>2. HoldsPut(f, ver, dev, at, off, size, e, a)
      BY <2>1, <2>5, <3>1, <1>WrittenAppend, Zenon
    <3> QED BY <2>4, <3>2, Zenon DEF HoldsPut, p
  <2> QED
    BY <2>3, <2>6, Zenon DEF Stored, f, off, at, dev, ver
<1> SUFFICES ASSUME AppendOnly, Types, Growing, NEW w \in Writers, NEW size \in Nat \ {0},
                    NEW t \in Contexts, AppendAt(t, Context(Target[w])), AppendStep(w, size, t),
                    RoomIsFree(t, Target[w]), NEW g \in Files, NEW u \in 0 .. inode'[g].size - 1,
                    LogGrows(extent', Target[w], t.ip.devid + 1, t.ip.ssdoff, inode[Target[w]].size, size)
             PROVE  Placed(g, u)'
  OBVIOUS
<1> DEFINE f == Target[w]
           off == inode[f].size
           at == t.ip.ssdoff
           dev == t.ip.devid + 1
           ver == fd[w].ver
<1>1. /\ f \in Files /\ off \in Nat /\ at \in Nat /\ t.ip.devid \in 0..3 /\ ~wrapped
  <2>1. ChunkKept(inode[f], inode'[f], t.ip, size)
    BY HeadGrows, Zenon
  <2>2. f \in Files /\ ~wrapped
    BY FileWriteAssumption, Zenon DEF RoomIsFree
  <2> QED BY <2>1, <2>2, Zenon DEF ChunkKept
<1>2. dev \in Devices
  BY <1>1, DeviceOf, Zenon
<1>3. Stored(f, ver, dev, at, off, size)
  BY <1>StoredGrows, Zenon
<1>4. UseKept(dev, at, size)
  BY <1>UseGrows, Zenon DEF UseKept
<1>5. /\ inode'[f].size = off + size /\ off + size <= MaxSize
      /\ \A h \in Files : h # f => inode'[h] = inode[h]
  <2>1. /\ inode'[f].size = fd[w].off + size /\ fd[w].off + size <= MaxSize /\ fd[w].off = off
        /\ \A h \in Files : h # f => inode'[h] = inode[h]
    BY Zenon DEF AppendStep
  <2> QED BY <2>1, Zenon
<1>6. LogGrows(extent', f, dev, at, off, size) /\ size \in Nat
  BY Zenon
<1>7. u \in Nat /\ u <= inode'[g].size - 1
  OBVIOUS
<1>8. inode[g].size \in Nat /\ inode[g].size <= MaxSize /\ MaxSize \in Nat
  <2>1. inode[g] \in Ips /\ inode[g].size <= MaxSize
    BY Zenon DEF Types
  <2> QED BY <2>1, FileWriteAssumption, Zenon DEF Ips
<1> HIDE DEF f, off, at, dev, ver
<1>9. CASE g = f /\ off <= u
  <2>1. u < off + size /\ u \in FileUnits
    <3>1. u <= (off + size) - 1 /\ off + size <= MaxSize
      BY <1>5, <1>7, <1>9, Zenon
    <3> QED BY <1>1, <1>6, <1>7, <1>8, <3>1 DEF FileUnits
  <2> QED BY <1>1, <1>2, <1>3, <1>4, <1>6, <1>7, <1>9, <2>1, <1>PlacedNew, Zenon
<1>10. CASE g # f \/ ~ (off <= u)
  <2>1. u \in 0 .. inode[g].size - 1 /\ (g = f => u < off)
    <3>1. CASE g # f
      <4>1. inode'[g] = inode[g]
        BY <1>5, <3>1, Zenon
      <4> QED BY <1>7, <1>8, <3>1, <4>1, Zenon
    <3>2. CASE g = f
      <4>1. ~ (off <= u) /\ inode[g].size = off
        BY <1>10, <3>2, Zenon DEF off
      <4> QED BY <1>1, <1>7, <4>1
    <3> QED BY <3>1, <3>2, Zenon
  <2>2. Placed(g, u)
    BY <1>1, <2>1, Zenon DEF Growing
  <2>3. u \in FileUnits
    BY <1>7, <1>8, <2>1 DEF FileUnits
  <2> QED BY <1>1, <1>2, <1>3, <1>4, <1>6, <1>7, <2>1, <2>2, <2>3, <1>PlacedOld, Zenon
<1> QED
  BY <1>9, <1>10, Zenon

\* A piece keeps everything in its place.
LEMMA GrowPiece ==
  ASSUME AppendOnly, Types, Growing, NEW w \in Writers, WritePiece(w)
  PROVE  Growing'
<1> DEFINE f == Target[w]
           off == inode[f].size
           t == AppendChunk(Context(f))
           at == t.ip.ssdoff
           dev == t.ip.devid + 1
<1>1. t \in Contexts /\ AppendAt(t, Context(f)) /\ \E n \in Nat \ {0} : AppendStep(w, n, t)
  BY PieceAppends, Zenon
<1>2. PICK size \in Nat \ {0} : AppendStep(w, size, t)
  BY <1>1, Zenon
<1>3. LBlock < AddrMod /\ OneWriter /\ f \in Files /\ Context(f).ip = inode[f]
  BY FileWriteAssumption, Zenon DEF AppendOnly, Context
<1>4. ~ t.wrapped => RoomIsFree(t, f)
  BY <1>3, RoomFree, Zenon
<1> HIDE DEF t
<1>5. /\ at \in Nat /\ t.ip.devid \in 0..3 /\ off \in Nat /\ Headed(inode'[f])
  <2>1. ChunkKept(inode[f], inode'[f], t.ip, size)
    BY <1>1, <1>2, HeadGrows, Zenon
  <2> QED BY <2>1, Zenon DEF ChunkKept
<1>6. dev \in Devices /\ at % LBlock = off % LBlock /\ t.nvm % LBlock = 0
  <2>1. at % LBlock = off % LBlock /\ t.nvm % LBlock = 0
    BY <1>1, <1>3, Zenon DEF AppendAt
  <2> QED BY <1>5, <2>1, DeviceOf, Zenon
<1>7. /\ fd[w].busy /\ fd[w].off = off /\ off % Block = 0 /\ off + size <= MaxSize
      /\ size % Block = 0 /\ inode'[f].size = off + size
      /\ \A g \in Files : g # f => inode'[g] = inode[g] /\ blktree'[g] = blktree[g]
      /\ blktree'[f] = insert_blktree(blktree[f], dev, at, off, size)
      /\ nvm_block_addr' = t.nvm /\ wrapped' = t.wrapped /\ panicked' = ""
      /\ extent' = Logged(f, <<[dev |-> dev, at |-> at, off |-> off, n |-> size,
                                from |-> off, to |-> off + size]>>)
      /\ fd'[w].off = off + size /\ fd'[w].left = fd[w].left - size /\ fd[w].left % Block = 0
      /\ \A x \in Writers : x # w => fd'[x] = fd[x]
  BY <1>2, Zenon DEF AppendStep
<1>8. at % Block = 0
  BY <1>5, <1>6, <1>7, SameAlignment, Zenon
<1>9. extent \in [Files -> [FileBlocks -> Places]] /\ blktree[f] \in SUBSET Nodes
      /\ fd[w].left \in Int
  <2>1. fd[w] \in Descriptors
    BY Zenon DEF Types
  <2>2. \A d \in Descriptors : d.left \in Int
    BY DEF Descriptors
  <2> QED BY <1>3, <2>1, <2>2, Zenon DEF Types
<1> HIDE DEF f, off, at, dev
<1>10. /\ PlacesGrow(extent'[f], extent[f], dev, at, off, size)
       /\ \A g \in Files : g # f => extent'[g] = extent[g]
       /\ LogGrows(extent', f, dev, at, off, size)
  <2> DEFINE to == off + size
             p == [dev |-> dev, at |-> at, off |-> off, n |-> size, from |-> off, to |-> to]
  <2>2. extent' = Logged(f, <<p>>)
    BY <1>7, Zenon
  <2>3. off % Block = 0 /\ size % Block = 0 /\ off + size <= MaxSize
    BY <1>7, Zenon
  <2> HIDE DEF to
  <2>1. LogGrows(Logged(f, <<p>>), f, dev, at, off, size)
    BY <1>3, <1>5, <1>6, <1>8, <1>9, <2>3, LoggedAppend, Zenon
  <2> HIDE DEF p
  <2> QED BY <2>1, <2>2, Zenon DEF LogGrows
<1>11. ASSUME NEW x \in Writers PROVE Appends(x)'
  <2>1. CASE x = w
    <3>1. size \in Int
      OBVIOUS
    <3>2. (fd[w].left - size) % Block = 0
      BY <1>7, <1>9, <3>1, MultiplesLess, Zenon
    <3> QED BY <1>7, <2>1, <3>2, Zenon DEF Appends, f
  <2>2. CASE x # w
    <3>1. Target[x] # f /\ Target[x] \in Files
      BY <1>3, <2>2, FileWriteAssumption, Zenon DEF OneWriter, f
    <3>2. inode'[Target[x]] = inode[Target[x]] /\ fd'[x] = fd[x]
      BY <1>7, <2>2, <3>1, Zenon
    <3>3. Appends(x)
      BY Zenon DEF Growing
    <3> QED BY <3>2, <3>3, Zenon DEF Appends
  <2> QED BY <2>1, <2>2, Zenon
<1>12. ASSUME NEW g \in Files
       PROVE  Headed(inode'[g]) /\ Indexed(blktree'[g], extent'[g], inode'[g].size)
  <2>1. Headed(inode[g]) /\ Indexed(blktree[g], extent[g], inode[g].size)
    BY Zenon DEF Growing
  <2>2. CASE g # f
    BY <1>7, <1>10, <2>1, <2>2, Zenon
  <2>3. CASE g = f
    <3>1. Indexed(blktree[f], extent[f], off)
      BY <2>1, <2>3, Zenon DEF off
    <3>2. Indexed(insert_blktree(blktree[f], dev, at, off, size), extent'[f], off + size)
      BY <1>5, <1>6, <1>8, <1>9, <1>10, <3>1, TreeGrows, Zenon
    <3> QED BY <1>5, <1>7, <2>3, <3>2, Zenon
  <2> QED BY <2>2, <2>3, Zenon
<1>13. ASSUME ~ wrapped'
       PROVE  ChunksApart' /\ \A g \in Files : \A u \in 0 .. inode'[g].size - 1 : Placed(g, u)'
  <2>1. RoomIsFree(t, f)
    BY <1>4, <1>7, <1>13, Zenon
  <2>2. ChunksApart'
    BY <1>1, <1>2, <2>1, ChunksGrow, Zenon DEF f
  <2>3. ASSUME NEW g \in Files, NEW u \in 0 .. inode'[g].size - 1 PROVE Placed(g, u)'
    BY <1>1, <1>2, <1>10, <2>1, <2>3, PlacedGrows, Zenon DEF f, at, dev, off
  <2> QED BY <2>2, <2>3, Zenon
<1> QED
  BY <1>6, <1>7, <1>11, <1>12, <1>13, Zenon DEF Growing

\* New files have nothing out of place.
LEMMA GrowInit == ASSUME AppendOnly PROVE Init => Growing
<1> SUFFICES ASSUME Init PROVE Growing
  BY Zenon
<1>1. panicked = "" /\ nvm_block_addr % LBlock = 0
  BY FileWriteAssumption, Zenon DEF Init
<1>2. ASSUME NEW f \in Files
      PROVE  inode[f].size = 0 /\ inode[f].devid = 0 /\ inode[f].ssdoff = 0 /\ blktree[f] = {}
  BY Zenon DEF Init
<1>3. \A w \in Writers : Appends(w)
  BY Zenon DEF Init, Appends
<1>4. 0 % Block = 0 /\ 0 .. 0 - 1 = {} /\ ~ (0 > 0)
  BY FileWriteAssumption
<1>5. ASSUME NEW f \in Files PROVE Headed(inode[f]) /\ Indexed(blktree[f], extent[f], inode[f].size)
  BY <1>2, <1>4, Zenon DEF Headed, Indexed
<1>6. ChunksApart
  BY <1>2, <1>4, Zenon DEF ChunksApart
<1>7. \A f \in Files : \A u \in 0 .. inode[f].size - 1 : Placed(f, u)
  BY <1>2, <1>4, Zenon
<1> QED
  BY <1>1, <1>3, <1>5, <1>6, <1>7, Zenon DEF Growing

\* Every step keeps everything in its place.
LEMMA GrowNext ==
  ASSUME AppendOnly PROVE Types /\ Sizes /\ Growing /\ [Next]_vars => Growing'
\* Steps that move no data keep everything in its place.
<1>GrowQuietly.
    ASSUME Growing,
           \A f \in Files : /\ inode'[f].size = inode[f].size /\ inode'[f].devid = inode[f].devid
                            /\ inode'[f].ssdoff = inode[f].ssdoff
                            /\ inode'[f].usednvms = inode[f].usednvms,
           UNCHANGED <<blktree, nvm_block_addr, ssd_block_addr, media, extent, latest, wrapped,
                       panicked>>,
           \A w \in Writers : Appends(w)'
    PROVE  Growing'
  <2> USE <1>GrowQuietly
  <2>1. \A f \in Files : Base(inode'[f]) = Base(inode[f]) /\ (Headed(inode[f]) => Headed(inode'[f]))
    BY Zenon DEF Base, Headed
  <2>2. ChunksApart => ChunksApart'
    BY <2>1, Zenon DEF ChunksApart
  <2>3. ASSUME NEW f \in Files, NEW u, Placed(f, u) PROVE Placed(f, u)'
    <3>1. \A e, a : Was(e, a) => Now(e, a)
      BY <2>1, Zenon DEF Was, Now, InUse
    <3> DEFINE e == PlaceOf(extent[f], u)[1]
               a == PlaceOf(extent[f], u)[2]
    <3>2. e \in Devices /\ Was(e, a) /\ (a < Space => media[e][a] = <<f, u, latest[f][u]>>)
      BY <2>3, Zenon DEF Placed, Was
    <3>3. Now(e, a)
      BY <3>1, <3>2, Zenon
    <3> QED BY <3>2, <3>3, Zenon DEF Placed, Now
  <2> QED
    BY <2>1, <2>2, <2>3, Zenon DEF Growing
\* The start of an append moves nothing.
<1>GrowBegin.
    ASSUME AppendOnly, Types, Growing, NEW w \in Writers, NEW i \in Nat, NEW k \in Nat,
           BeginWrite(w, i * Grain, k * Grain)
    PROVE  Growing'
  <2> USE <1>GrowBegin
  <2> DEFINE f == Target[w]
             off == i * Grain
             n == k * Grain
  <2>1. f \in Files /\ inode \in [Files -> Ips] /\ fd \in [Writers -> Descriptors]
    BY FileWriteAssumption, Zenon DEF Types
  <2>2. /\ inode' = [inode EXCEPT ![f].writes = @ + 1] /\ Allowed(inode[f], off, n)
        /\ fd' = [fd EXCEPT ![w] =
                [busy |-> TRUE, off |-> off, left |-> n, ver |-> inode[f].writes + 1,
                 file_size |-> IF off + n > inode[f].size THEN off + n ELSE inode[f].size]]
        /\ UNCHANGED <<blktree, nvm_block_addr, ssd_block_addr, media, extent, latest, wrapped,
                       panicked>>
    BY Zenon DEF BeginWrite
  <2>3. n % Block = 0
    <3>1. Grain \in Nat /\ Grain % Block = 0 /\ Block \in Nat \ {0}
      BY FileWriteAssumption, Zenon DEF AppendOnly
    <3>2. Grain = Block * (Grain \div Block) /\ Grain \div Block \in Int
      BY <3>1
    <3>3. n = Block * (k * (Grain \div Block)) /\ k * (Grain \div Block) \in Int
      BY <3>1, <3>2
    <3>4. \A m \in Int : (Block * m) % Block = 0
      BY <3>1
    <3> QED BY <3>3, <3>4, Zenon
  <2>4. off = inode[f].size
    <3>1. "overwrite" \notin Workload /\ "extend" \notin Workload
      BY Zenon DEF AppendOnly
    <3> QED BY <2>2, <3>1, Zenon DEF Allowed
  <2> HIDE DEF off, n
  <2>5. ASSUME NEW g \in Files
        PROVE  /\ inode'[g].size = inode[g].size /\ inode'[g].devid = inode[g].devid
               /\ inode'[g].ssdoff = inode[g].ssdoff /\ inode'[g].usednvms = inode[g].usednvms
    <3>1. \A ip \in Ips : \A v : LET x == [ip EXCEPT !.writes = v] IN
            x.size = ip.size /\ x.devid = ip.devid /\ x.ssdoff = ip.ssdoff /\ x.usednvms = ip.usednvms
      BY Zenon DEF Ips
    <3> QED BY <2>1, <2>2, <3>1
  <2>6. ASSUME NEW x \in Writers PROVE Appends(x)'
    <3>1. Appends(x)
      BY Zenon DEF Growing
    <3>2. Target[x] \in Files
      BY FileWriteAssumption, Zenon
    <3>3. inode'[Target[x]].size = inode[Target[x]].size
      BY <2>5, <3>2, Zenon
    <3>4. CASE x # w
      <4>1. fd'[x] = fd[x]
        BY <2>1, <2>2, <3>4, Zenon
      <4> QED BY <3>1, <3>3, <4>1, Zenon DEF Appends
    <3>5. CASE x = w
      <4>1. fd'[x].off = off /\ fd'[x].left = n
        BY <2>1, <2>2, <3>5, Zenon
      <4> QED BY <2>3, <2>4, <3>3, <3>5, <4>1, Zenon DEF Appends
    <3> QED BY <3>4, <3>5, Zenon
  <2> QED
    BY <2>2, <2>5, <2>6, <1>GrowQuietly, Zenon
\* Neither does its end, which stores the size the file has.
<1>GrowEnd.
    ASSUME AppendOnly, Types, Sizes, Growing, NEW w \in Writers, EndWrite(w)
    PROVE  Growing'
  <2> USE <1>GrowEnd
  <2> DEFINE f == Target[w]
  <2>1. f \in Files /\ inode \in [Files -> Ips] /\ fd \in [Writers -> Descriptors]
        /\ inode[f] \in Ips /\ fd[w] \in Descriptors
    BY FileWriteAssumption, Zenon DEF Types
  <2>2. /\ panicked = "" /\ fd[w].left = 0 /\ fd[w].busy
        /\ inode' = [inode EXCEPT ![f].size = fd[w].file_size]
        /\ fd' = [fd EXCEPT ![w].busy = FALSE]
        /\ UNCHANGED <<blktree, nvm_block_addr, ssd_block_addr, media, extent, latest, wrapped,
                       panicked>>
    BY Zenon DEF EndWrite
  <2>3. fd[w].file_size = inode[f].size
    <3>1. fd[w].off \in Nat /\ inode[f].size \in Nat
      BY <2>1, Zenon DEF Descriptors, Ips
    <3>2. fd[w].off <= inode[f].size /\ fd[w].file_size = Larger(fd[w].off + 0, inode[f].size)
      BY <2>2, Zenon DEF Sizes
    <3> QED BY <3>1, <3>2 DEF Larger
  <2>4. ASSUME NEW g \in Files
        PROVE  /\ inode'[g].size = inode[g].size /\ inode'[g].devid = inode[g].devid
               /\ inode'[g].ssdoff = inode[g].ssdoff /\ inode'[g].usednvms = inode[g].usednvms
    <3>1. \A ip \in Ips : [ip EXCEPT !.size = ip.size] = ip
      BY Zenon DEF Ips
    <3> QED BY <2>1, <2>2, <2>3, <3>1, Zenon
  <2>5. ASSUME NEW x \in Writers PROVE Appends(x)'
    <3>1. Appends(x)
      BY Zenon DEF Growing
    <3>2. inode'[Target[x]].size = inode[Target[x]].size
      BY <2>4, FileWriteAssumption, Zenon
    <3>3. fd'[x].busy => fd'[x] = fd[x]
      BY <2>1, <2>2, Zenon DEF Descriptors
    <3> QED BY <3>1, <3>2, <3>3, Zenon DEF Appends
  <2> QED
    BY <2>2, <2>4, <2>5, <1>GrowQuietly, Zenon
<1> SUFFICES ASSUME Types, Sizes, Growing, [Next]_vars PROVE Growing'
  BY Zenon
<1>1. CASE UNCHANGED vars
  <2>1. UNCHANGED <<blktree, nvm_block_addr, ssd_block_addr, media, extent, latest, wrapped,
                    panicked>> /\ inode' = inode /\ fd' = fd
    BY <1>1, Zenon DEF vars
  <2>2. \A w \in Writers : Appends(w)'
    BY <2>1, Zenon DEF Growing, Appends
  <2> QED BY <2>1, <2>2, <1>GrowQuietly, Zenon
<1>2. ASSUME NEW w \in Writers, NEW i \in 0..(MaxSize \div Grain),
             NEW k \in 0..(MaxSize \div Grain), BeginWrite(w, i * Grain, k * Grain)
      PROVE  Growing'
  <2>1. i \in Nat /\ k \in Nat
    BY FileWriteAssumption
  <2> QED BY <1>2, <2>1, <1>GrowBegin, Zenon
<1>3. ASSUME NEW w \in Writers, WritePiece(w) \/ EndWrite(w) PROVE Growing'
  BY <1>3, GrowPiece, <1>GrowEnd, Zenon
<1>4. ASSUME NEW f \in Files, OpenAgain(f) PROVE FALSE
  BY <1>4, Zenon DEF OpenAgain, AppendOnly
<1> QED
  BY <1>1, <1>2, <1>3, <1>4, Zenon DEF Next

-----------------------------------------------------------------------------
(* Types, and the theorems.                                                *)

INSTANCE WellFoundedInduction

\* New files have these types.
LEMMA TypesInit == Init => Types
<1> SUFFICES ASSUME Init PROVE Types
  BY Zenon
<1>1. /\ 0 \in 0..3 /\ 0 \in 0..4 /\ 0 \in Nat /\ 0 \in 0..MaxSize /\ 0 + 0 <= MaxSize
      /\ NvmStart \in NvmStart..NvmSize /\ SsdStart \in Nat /\ Nowhere \in Places
      /\ "" \in Messages
  BY FileWriteAssumption DEF Places, Nowhere, Messages
<1>2. inode \in [Files -> Ips] /\ \A f \in Files : inode[f].size <= MaxSize
  <2> DEFINE ip == [size |-> 0, devid |-> 0, wrthdnum |-> 0, ssdoff |-> 0,
                    usednvms |-> 0, rwoff |-> 0, rwsoff |-> 0, writes |-> 0]
  <2>1. ip \in Ips /\ ip.size = 0
    BY <1>1, Zenon DEF Ips
  <2>2. inode = [f \in Files |-> ip]
    BY Zenon DEF Init
  <2> HIDE DEF ip
  <2>3. 0 <= MaxSize
    BY FileWriteAssumption
  <2> QED BY <2>1, <2>2, <2>3, Zenon
<1>3. fd \in [Writers -> Descriptors] /\ \A w \in Writers : fd[w].off + fd[w].left <= MaxSize
  BY <1>1, Zenon DEF Init, Descriptors
<1>4. extent \in [Files -> [FileBlocks -> Places]] /\ latest \in [Files -> [FileUnits -> Nat]]
  BY <1>1, Zenon DEF Init
<1> QED
  BY <1>1, <1>2, <1>3, <1>4, Zenon DEF Init, Types

\* So does every step.
LEMMA TypesNext == Types /\ [Next]_vars => Types'
\* Of the writes of a piece that cover a block there is a last one.
<1>Greatest.
    ASSUME NEW n \in Nat, NEW S \in SUBSET (1..n), S # {}
    PROVE  \E i \in S : \A j \in S : j <= i
  <2> USE <1>Greatest
  <2> DEFINE T == {n - x : x \in S}
  <2>1. T \subseteq Nat /\ T # {}
    <3>1. \A x \in S : n - x \in Nat
      OBVIOUS
    <3> QED BY <3>1, Zenon
  <2>2. \E x \in T : \A y \in T : ~ (<<y, x>> \in OpToRel(<, Nat))
    <3> HIDE DEF T
    <3> QED BY <2>1, NatLessThanWellFounded, WFMin, Zenon
  <2>3. \A x, y \in Nat : y < x => <<y, x>> \in OpToRel(<, Nat)
    BY Zenon DEF OpToRel
  <2>4. PICK x \in S : \A y \in S : ~ (<<n - y, n - x>> \in OpToRel(<, Nat))
    BY <2>2, Zenon
  <2>5. \A y \in S : ~ (n - y < n - x)
    <3> TAKE y \in S
    <3>1. n - y \in Nat /\ n - x \in Nat
      OBVIOUS
    <3> QED BY <2>3, <2>4, <3>1, Zenon
  <2> QED
    BY <2>5
\* The extents logged for a piece are places.
<1>LoggedType.
    ASSUME Types, NEW f \in Files, NEW puts \in Seq(Puts)
    PROVE  Logged(f, puts) \in [Files -> [FileBlocks -> Places]]
  <2> USE <1>LoggedType
  <2> DEFINE first(i) == puts[i].off \div Block
             over(b) == {i \in 1..Len(puts) :
                           first(i) <= b /\ b < first(i) + (Ceil(puts[i].n) \div Block)}
             last(b) == CHOOSE i \in over(b) : \A j \in over(b) : j <= i
             new == [b \in FileBlocks |->
                       IF over(b) = {} THEN extent[f][b]
                       ELSE <<puts[last(b)].dev, (puts[last(b)].at \div Block) + (b - first(last(b)))>>]
  <2>1. extent \in [Files -> [FileBlocks -> Places]]
    BY Zenon DEF Types
  <2>2. ASSUME NEW b \in FileBlocks, over(b) # {}
        PROVE  <<puts[last(b)].dev, (puts[last(b)].at \div Block) + (b - first(last(b)))>> \in Places
    <3>1. Len(puts) \in Nat /\ over(b) \in SUBSET (1..Len(puts))
      OBVIOUS
    <3> HIDE DEF over
    <3>2. last(b) \in 1..Len(puts)
      BY <2>2, <3>1, <1>Greatest, Zenon
    <3> HIDE DEF last
    <3>3. puts[last(b)] \in Puts
      BY <3>2
    <3>4. puts[last(b)].dev \in 1..4 /\ puts[last(b)].at \in Int /\ puts[last(b)].off \in Nat
      BY <3>3, Zenon DEF Puts, Devices
    <3>5. puts[last(b)].dev \in 0..4 /\ puts[last(b)].at \div Block \in Int
          /\ first(last(b)) \in Int /\ b \in Int
      BY <3>4, FileWriteAssumption DEF FileBlocks
    <3> HIDE DEF first
    <3>6. (puts[last(b)].at \div Block) + (b - first(last(b))) \in Int
      BY <3>5
    <3> QED BY <3>5, <3>6, Zenon DEF Places
  <2> HIDE DEF over, last, first
  <2>3. new \in [FileBlocks -> Places]
    BY <2>1, <2>2, Zenon
  <2>4. Logged(f, puts) = [extent EXCEPT ![f] = new]
    BY Zenon DEF Logged, over, last, first
  <2> HIDE DEF new
  <2> QED
    BY <2>1, <2>3, <2>4, Zenon
\* The start of userfs_file_write keeps the types.
<1>TypesBegin.
    ASSUME Types, NEW w \in Writers, NEW i \in 0..(MaxSize \div Grain),
           NEW k \in 0..(MaxSize \div Grain), BeginWrite(w, i * Grain, k * Grain)
    PROVE  Types'
  <2> USE <1>TypesBegin
  <2> DEFINE f == Target[w]
             off == i * Grain
             n == k * Grain
             to == IF off + n > inode[f].size THEN off + n ELSE inode[f].size
             d == [busy |-> TRUE, off |-> off, left |-> n, ver |-> inode[f].writes + 1,
                   file_size |-> to]
  <2>1. off \in Nat /\ n \in Nat
    <3>1. i \in Nat /\ k \in Nat /\ Grain \in Nat
      BY FileWriteAssumption
    <3> QED BY <3>1
  <2>2. f \in Files /\ inode[f] \in Ips /\ inode[f].size <= MaxSize
    BY FileWriteAssumption, Zenon DEF Types
  <2>3. inode[f].size \in Nat /\ inode[f].writes \in Nat
    BY <2>2, Zenon DEF Ips
  <2>4. off + n <= MaxSize /\ fd' = [fd EXCEPT ![w] = d]
        /\ inode' = [inode EXCEPT ![f].writes = @ + 1]
    BY Zenon DEF BeginWrite
  <2> HIDE DEF off, n, f
  <2>5. to \in 0..MaxSize /\ inode[f].writes + 1 \in Nat
    BY <2>1, <2>2, <2>3, <2>4, FileWriteAssumption
  <2> HIDE DEF to
  <2>6. d \in Descriptors /\ d.off + d.left <= MaxSize
    BY <2>1, <2>4, <2>5, Zenon DEF Descriptors
  <2> HIDE DEF d
  <2>7. fd' \in [Writers -> Descriptors] /\ \A x \in Writers : fd'[x].off + fd'[x].left <= MaxSize
    BY <2>4, <2>6, Zenon DEF Types
  <2>8. inode' \in [Files -> Ips] /\ \A g \in Files : inode'[g].size <= MaxSize
    <3> DEFINE v == inode[f].writes + 1
               ip == [inode[f] EXCEPT !.writes = v]
    <3>1. inode' = [inode EXCEPT ![f] = ip]
      BY <2>4, Zenon
    <3> HIDE DEF v
    <3>2. v \in Nat
      BY <2>5, Zenon DEF v
    <3>3. ip \in Ips /\ ip.size = inode[f].size
      BY <2>2, <3>2, Zenon DEF Ips
    <3> HIDE DEF ip
    <3> QED BY <2>2, <3>1, <3>3, Zenon DEF Types
  <2> QED
    BY <2>7, <2>8, Zenon DEF Types, BeginWrite
\* So does a piece.
<1>TypesPiece.
    ASSUME Types, NEW w \in Writers, WritePiece(w) PROVE Types'
  <2> USE <1>TypesPiece
  <2> DEFINE f == Target[w]
             off == fd[w].off
             size == PieceSize(off, fd[w].left)
             s == snfs_write(Context(f), off, size)
             ip == IF off + size > s.ip.size /\ s.panic = "" THEN [s.ip EXCEPT !.size = off + size]
                   ELSE s.ip
  <2>1. fd[w].left > 0
    BY Zenon DEF WritePiece
  <2>2. f \in Files /\ size \in 1 .. fd[w].left /\ s \in Contexts /\ s.ip.size = inode[f].size
    BY <2>1, PieceTypes, Zenon
  <2>3. /\ inode' = [inode EXCEPT ![f] = ip] /\ blktree' = [blktree EXCEPT ![f] = s.tree]
        /\ nvm_block_addr' = s.nvm /\ ssd_block_addr' = s.ssd /\ wrapped' = s.wrapped
        /\ extent' = Logged(f, s.puts) /\ panicked' = s.panic
        /\ latest' = [latest EXCEPT ![f] = [u \in FileUnits |->
                        IF off <= u /\ u < off + size THEN fd[w].ver ELSE @[u]]]
        /\ fd' = [fd EXCEPT ![w].off = off + size, ![w].left = @ - size]
    BY Zenon DEF WritePiece
  <2>4. off \in Nat /\ fd[w].left \in Nat /\ fd[w].ver \in Nat /\ off + fd[w].left <= MaxSize
        /\ fd[w] \in Descriptors
    <3>1. fd[w] \in Descriptors /\ fd[w].off + fd[w].left <= MaxSize
      BY Zenon DEF Types
    <3> QED BY <3>1, Zenon DEF Descriptors
  <2>5. inode[f].size <= MaxSize
    BY <2>2, Zenon DEF Types
  <2> HIDE DEF s, size, f, off
  <2>6. size \in Nat /\ off + size \in Nat /\ off + size <= MaxSize /\ fd[w].left - size \in Nat
        /\ (off + size) + (fd[w].left - size) <= MaxSize
    <3>1. ASSUME NEW l \in Nat, NEW o \in Nat, NEW n \in 1..l, o + l <= MaxSize
          PROVE  n \in Nat /\ o + n \in Nat /\ o + n <= MaxSize /\ l - n \in Nat
                 /\ (o + n) + (l - n) <= MaxSize
      BY <3>1, FileWriteAssumption
    <3> QED BY <2>2, <2>4, <3>1, Zenon
  <2>7. s.ip \in Ips /\ s.tree \in SUBSET Nodes /\ s.nvm \in NvmStart..NvmSize
        /\ s.ssd \in [1..3 -> Nat] /\ s.wrapped \in BOOLEAN /\ s.puts \in Seq(Puts)
        /\ s.panic \in Messages
    BY <2>2, FieldsOf, Zenon
  <2>8. ip \in Ips /\ ip.size <= MaxSize
    <3> DEFINE v == off + size
    <3>1. v \in Nat /\ v <= MaxSize
      BY <2>6, Zenon
    <3> HIDE DEF v
    <3>2. [s.ip EXCEPT !.size = v] \in Ips /\ [s.ip EXCEPT !.size = v].size = v
      BY <2>7, <3>1, Zenon DEF Ips
    <3>3. ip = [s.ip EXCEPT !.size = v] \/ ip = s.ip
      BY Zenon DEF v
    <3> QED BY <2>2, <2>5, <2>7, <3>1, <3>2, <3>3, Zenon
  <2> HIDE DEF ip
  <2>9. inode' \in [Files -> Ips] /\ \A g \in Files : inode'[g].size <= MaxSize
    BY <2>2, <2>3, <2>8, Zenon DEF Types
  <2>10. blktree' \in [Files -> SUBSET Nodes]
    BY <2>2, <2>3, <2>7, Zenon DEF Types
  <2>11. extent' \in [Files -> [FileBlocks -> Places]]
    BY <2>2, <2>3, <2>7, <1>LoggedType, Zenon
  <2>12. latest' \in [Files -> [FileUnits -> Nat]]
    BY <2>2, <2>3, <2>4, Zenon DEF Types
  <2>13. fd' \in [Writers -> Descriptors] /\ \A x \in Writers : fd'[x].off + fd'[x].left <= MaxSize
    <3> DEFINE v == off + size
               r == fd[w].left - size
               d == [fd[w] EXCEPT !.off = v, !.left = r]
    <3>1. fd' = [fd EXCEPT ![w] = d]
      BY <2>3, Zenon
    <3>2. v \in Nat /\ r \in Nat /\ v + r <= MaxSize
      BY <2>6, Zenon
    <3> HIDE DEF v, r
    <3>3. d \in Descriptors /\ d.off + d.left <= MaxSize
      BY <2>4, <3>2, Zenon DEF Descriptors
    <3> HIDE DEF d
    <3> QED BY <3>1, <3>3, Zenon DEF Types
  <2> QED
    BY <2>3, <2>7, <2>9, <2>10, <2>11, <2>12, <2>13, Zenon DEF Types
\* So does the end of userfs_file_write.
<1>TypesEnd.
    ASSUME Types, NEW w \in Writers, EndWrite(w) PROVE Types'
  <2> USE <1>TypesEnd
  <2> DEFINE f == Target[w]
             d == [fd[w] EXCEPT !.busy = FALSE]
             ip == [inode[f] EXCEPT !.size = fd[w].file_size]
  <2>1. fd[w] \in Descriptors /\ fd[w].off + fd[w].left <= MaxSize /\ f \in Files /\ inode[f] \in Ips
    BY FileWriteAssumption, Zenon DEF Types
  <2>2. d \in Descriptors /\ d.off + d.left <= MaxSize
    BY <2>1, Zenon DEF Descriptors
  <2>3. ip \in Ips /\ ip.size <= MaxSize
    <3>1. fd[w].file_size \in Nat /\ fd[w].file_size <= MaxSize
      BY <2>1 DEF Descriptors
    <3> QED BY <2>1, <3>1, Zenon DEF Ips
  <2>4. inode' = [inode EXCEPT ![f] = ip] /\ fd' = [fd EXCEPT ![w] = d]
    BY Zenon DEF EndWrite
  <2> HIDE DEF f, d, ip
  <2>5. inode' \in [Files -> Ips] /\ \A g \in Files : inode'[g].size <= MaxSize
    BY <2>1, <2>3, <2>4, Zenon DEF Types
  <2>6. fd' \in [Writers -> Descriptors] /\ \A x \in Writers : fd'[x].off + fd'[x].left <= MaxSize
    BY <2>2, <2>4, Zenon DEF Types
  <2> QED
    BY <2>5, <2>6, Zenon DEF EndWrite, Types
\* So does opening a file again.
<1>TypesReopen.
    ASSUME Types, NEW f \in Files, OpenAgain(f) PROVE Types'
  <2> USE <1>TypesReopen
  <2> DEFINE ip == [inode[f] EXCEPT !.devid = 0]
  <2>1. ip \in Ips /\ ip.size = inode[f].size
    <3>1. inode[f] \in Ips /\ 0 \in 0..3
      BY DEF Types
    <3> QED BY <3>1, Zenon DEF Ips
  <2>2. inode' = [inode EXCEPT ![f] = ip]
    BY Zenon DEF OpenAgain
  <2> HIDE DEF ip
  <2> QED
    BY <2>1, <2>2, Zenon DEF OpenAgain, Types
<1> SUFFICES ASSUME Types, [Next]_vars PROVE Types'
  BY Zenon
<1>1. CASE UNCHANGED vars
  BY <1>1, Zenon DEF vars, Types
<1>2. ASSUME NEW w \in Writers, NEW i \in 0..(MaxSize \div Grain),
             NEW k \in 0..(MaxSize \div Grain), BeginWrite(w, i * Grain, k * Grain)
      PROVE  Types'
  BY <1>2, <1>TypesBegin, Zenon
<1>3. ASSUME NEW w \in Writers, WritePiece(w) \/ EndWrite(w) PROVE Types'
  BY <1>3, <1>TypesPiece, <1>TypesEnd, Zenon
<1>4. ASSUME NEW f \in Files, OpenAgain(f) PROVE Types'
  BY <1>4, <1>TypesReopen, Zenon
<1> QED
  BY <1>1, <1>2, <1>3, <1>4, Zenon DEF Next

\* Types of what the write path keeps, whatever the application writes.
THEOREM FieldsTyped == Spec => []TypeOK
\* The types are those the runs check.
<1>TypesOK.
    Types => TypeOK
  <2> SUFFICES ASSUME Types PROVE TypeOK
    BY Zenon
  <2>1. ASSUME NEW f \in Files
        PROVE  /\ inode[f].size \in 0..MaxSize
               /\ inode[f].devid \in 0..3 /\ inode[f].wrthdnum \in 0..4
               /\ inode[f].ssdoff \in Nat /\ inode[f].rwoff \in Nat
               /\ \A n \in blktree[f] :
                    n.devid \in Devices /\ n.fileoff % Block = 0 /\ n.size > 0
               /\ extent[f] \in [FileBlocks -> (0..4) \X Int]
    <3>1. inode[f] \in Ips /\ inode[f].size <= MaxSize
      BY Zenon DEF Types
    <3>2. /\ inode[f].size \in Nat /\ inode[f].devid \in 0..3 /\ inode[f].wrthdnum \in 0..4
          /\ inode[f].ssdoff \in Nat /\ inode[f].rwoff \in Nat
      BY <3>1, Zenon DEF Ips
    <3>3. inode[f].size \in 0..MaxSize
      BY <3>1, <3>2, FileWriteAssumption
    <3>4. \A n \in blktree[f] : n \in Nodes
      BY Zenon DEF Types
    <3>5. \A n \in Nodes : n.devid \in Devices /\ n.fileoff % Block = 0 /\ n.size > 0
      BY DEF Nodes
    <3>6. extent[f] \in [FileBlocks -> (0..4) \X Int]
      BY Zenon DEF Types, Places
    <3> QED BY <3>2, <3>3, <3>4, <3>5, <3>6, Zenon
  <2>2. ASSUME NEW w \in Writers PROVE fd[w].left >= 0 /\ fd[w].file_size \in 0..MaxSize
    <3>1. fd[w] \in Descriptors
      BY Zenon DEF Types
    <3> QED BY <3>1 DEF Descriptors
  <2> QED
    BY <2>1, <2>2, Zenon DEF Types, TypeOK
<1>1. Spec => []Types
  BY TypesInit, TypesNext, PTL DEF Spec
<1> QED
  BY <1>1, <1>TypesOK, PTL

\* Between two writes a file is exactly as long as what has been written, when
\* no two writers have it open: although userfs_file_write stores at its end the
\* size it computed at its beginning, whatever the writes and wherever they go.
THEOREM SizeKept == ASSUME OneWriter PROVE Spec => []SizeIsExtent
<1>1. Types /\ Sizes /\ [Next]_vars => (Types /\ Sizes)'
  BY TypesNext, SizesNext, Zenon
<1>2. Spec => [](Types /\ Sizes)
  BY TypesInit, SizesInit, <1>1, PTL DEF Spec
<1>3. Sizes => SizeIsExtent
  BY Zenon DEF Sizes, SizeIsExtent
<1> QED
  BY <1>2, <1>3, PTL

\* So everything is always in its place.
LEMMA GrowingAlways == ASSUME AppendOnly PROVE Spec => [](Types /\ Growing)
<1>1. OneWriter
  BY Zenon DEF AppendOnly
<1>2. Init => Types /\ Sizes /\ Growing
  BY TypesInit, SizesInit, GrowInit, Zenon
<1>3. (Types /\ Sizes /\ Growing) /\ [Next]_vars => (Types /\ Sizes /\ Growing)'
  BY <1>1, TypesNext, SizesNext, GrowNext, Zenon
<1> QED
  BY <1>2, <1>3, PTL DEF Spec

\* Appending whole blocks never ends in a panic: the address of the next append
\* within its 2M block keeps step with the size of the file, from chunk to chunk
\* and from device to device, also after the NVM allocator has started over.
THEOREM AppendsDoNotPanic == ASSUME AppendOnly PROVE Spec => []NoWritePanic
<1>1. Types /\ Growing => NoWritePanic
  BY Zenon DEF Growing, NoWritePanic
<1> QED
  BY <1>1, GrowingAlways, PTL

\* What the allocators have given out is inside the part of the devices that the
\* model looks at.
InSpace ==
  \A dev \in Devices : Limit(nvm_block_addr, ssd_block_addr, dev) <= Space

\* Files that grow by whole blocks are read back through the log as they were
\* written, however many files and writers share the devices, until the NVM
\* allocator starts over.
THEOREM AppendsLogged == ASSUME AppendOnly PROVE Spec => [](InSpace => LogReads)
<1>1. Types /\ Growing => (InSpace => LogReads)
  <2> SUFFICES ASSUME Types, Growing, InSpace, ~wrapped, NEW f \in Files,
                      NEW u \in 0 .. inode[f].size - 1
               PROVE  LET e == extent[f][u \div Block]
                      IN e # Nowhere /\ Holds(f, u, e[1], e[2] * Block + (u % Block))
    BY Zenon DEF LogReads
  <2> DEFINE e == extent[f][u \div Block]
             a == e[2] * Block + (u % Block)
  <2>1. Placed(f, u)
    BY Zenon DEF Growing
  <2>2. PlaceOf(extent[f], u)[1] = e[1] /\ PlaceOf(extent[f], u)[2] = a
    BY Zenon DEF PlaceOf
  <2> HIDE DEF e, a
  <2>3. e[1] \in Devices /\ Was(e[1], a) /\ (a < Space => media[e[1]][a] = <<f, u, latest[f][u]>>)
    BY <2>1, <2>2, Zenon DEF Placed, Was
  <2>4. a \in Nat /\ a < Limit(nvm_block_addr, ssd_block_addr, e[1])
    BY <2>3, Zenon DEF Was, InUse
  <2>5. Limit(nvm_block_addr, ssd_block_addr, e[1]) <= Space
    BY <2>3, Zenon DEF InSpace
  <2>6. Limit(nvm_block_addr, ssd_block_addr, e[1]) \in Nat
    <3>1. Context(f) \in Contexts
      BY ContextType, Zenon
    <3>2. Limit(Context(f).nvm, Context(f).ssd, e[1]) \in Nat
      BY <2>3, <3>1, LimitType, Zenon
    <3> QED BY <3>2, Zenon DEF Context
  <2>7. a < Space /\ a \in 0 .. Space - 1
    BY <2>4, <2>5, <2>6, FileWriteAssumption
  <2>8. e # Nowhere
    BY <2>3 DEF Nowhere, Devices
  <2> QED BY <2>3, <2>7, <2>8, Zenon DEF Holds, e, a
<1> QED
  BY <1>1, GrowingAlways, PTL

\* And so they are through the block tree, where a reader of the same program
\* looks: the nodes that block_insert joins and adds cover the file and agree
\* with the log.
THEOREM AppendsIndexed == ASSUME AppendOnly PROVE Spec => [](InSpace => TreeReads)
<1>1. Types /\ Growing => (InSpace => TreeReads)
  <2> SUFFICES ASSUME Types, Growing, InSpace, ~wrapped, NEW f \in Files,
                      NEW u \in 0 .. inode[f].size - 1
               PROVE  \E n \in block_search(blktree[f], u) :
                        Holds(f, u, n.devid, n.addr * Block + (u - n.fileoff))
    BY Zenon DEF TreeReads
  <2>1. Placed(f, u) /\ Indexed(blktree[f], extent[f], inode[f].size)
    BY Zenon DEF Growing
  <2>2. PICK n \in blktree[f] : n \in block_search(blktree[f], u)
    BY <2>1, Zenon DEF Indexed, block_search
  <2>3. n.fileoff <= u /\ u < n.fileoff + n.size
    BY <2>2, Zenon DEF block_search
  <2>4. n.fileoff \in Nat /\ n.size \in Nat
    <3>1. n \in Nodes
      BY Zenon DEF Types
    <3> QED BY <3>1, Zenon DEF Nodes
  <2>5. u \in n.fileoff .. (n.fileoff + n.size) - 1
    BY <2>3, <2>4
  <2> DEFINE e == n.devid
             a == n.addr * Block + (u - n.fileoff)
  <2>6. PlaceOf(extent[f], u) = <<e, a>>
    BY <2>1, <2>5, Zenon DEF Indexed
  <2> HIDE DEF e, a
  <2>7. PlaceOf(extent[f], u)[1] = e /\ PlaceOf(extent[f], u)[2] = a
    BY <2>6
  <2>8. e \in Devices /\ Was(e, a) /\ (a < Space => media[e][a] = <<f, u, latest[f][u]>>)
    BY <2>1, <2>7, Zenon DEF Placed, Was
  <2>9. a \in Nat /\ a < Limit(nvm_block_addr, ssd_block_addr, e)
    BY <2>8, Zenon DEF Was, InUse
  <2>10. Limit(nvm_block_addr, ssd_block_addr, e) <= Space
    BY <2>8, Zenon DEF InSpace
  <2>11. Limit(nvm_block_addr, ssd_block_addr, e) \in Nat
    <3>1. Context(f) \in Contexts
      BY ContextType, Zenon
    <3>2. Limit(Context(f).nvm, Context(f).ssd, e) \in Nat
      BY <2>8, <3>1, LimitType, Zenon
    <3> QED BY <3>2, Zenon DEF Context
  <2>12. a < Space /\ a \in 0 .. Space - 1
    BY <2>9, <2>10, <2>11, FileWriteAssumption
  <2> QED BY <2>2, <2>8, <2>12, Zenon DEF Holds, e, a
<1> QED
  BY <1>1, GrowingAlways, PTL
====
