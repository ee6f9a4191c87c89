-------------------------------- MODULE MetaLog --------------------------------
(***************************************************************************)
(* The metadata log: append_entry_log and append_addrinfo_log of           *)
(* filesystem/fs.h, synclog and shutdown_fs of filesystem/fs.c.  The log   *)
(* is a file mapped from NVM; every change of metadata appends an entry,   *)
(* and synclog or shutdown_fs tells the kernel to digest a range of it.    *)
(*                                                                         *)
(* Lengths are in units of 8 bytes; addresses are relative to logbase.     *)
(* append_entry_log runs under applog_lock, which synclog, shutdown_fs and *)
(* the first lines of append_addrinfo_log do not take: each access to what *)
(* they share is a step.  A write outside the mapping is undefined: it     *)
(* faults, or changes memory that is not the log.  Entries are numbered in *)
(* the order in which they are appended.                                   *)
(***************************************************************************)
EXTENDS Integers

CONSTANTS ExtentSize,    \* sizeof(struct fuckfs_extent), also of setattr_logentry
          DentrySize,    \* sizeof(struct fuckfs_dentry)
          AddrInfoSize,  \* sizeof(struct fuckfs_addr_info)
          LogBlock,      \* g_block_size_bytes, the size of a page
          LogSpace,      \* logspace, what loginit maps
          MaxEntries,    \* bound on the entries appended
          MaxSyncs       \* bound on the calls of synclog

ASSUME MetaLogAssumption ==
  /\ ExtentSize \in Nat \ {0} /\ AddrInfoSize \in Nat \ {0}
  /\ DentrySize \in Nat /\ ExtentSize <= DentrySize
  /\ LogBlock \in Nat /\ DentrySize <= LogBlock
  /\ LogSpace \in Nat \ {0} /\ LogSpace % LogBlock = 0
  /\ MaxEntries \in Nat /\ MaxSyncs \in Nat

VARIABLES logoffset, logstart,
          mapped,    \* the units of the log that are mapped are those below it
          count,     \* entries appended
          place,     \* where each of them is, and its offset from logstart
          whole,     \* entries that are in the log, byte for byte
          append,    \* the append that has applog_lock: its next step, the size
                     \* of the entry, logaddr, and whether it is at risk
          syncs,     \* calls of synclog
          sync, shut,    \* the next step of synclog and of shutdown_fs ...
          range,         \* ... the range each has given to the kernel ...
          offset,        \* ... and offset of append_addrinfo_log
          ended,     \* "no", or how the program has ended
          digested,  \* entries the kernel was told to digest, whole
          atRisk     \* history: entries that NothingElseLost excepts

vars == <<logoffset, logstart, mapped, count, place, whole, append, syncs, sync, shut,
          range, offset, ended, digested, atRisk>>

Entries == 1..count
Unset == [at |-> 0, off |-> 0, size |-> 0]
NoAppend == [step |-> "none", size |-> 0, at |-> 0, risk |-> FALSE]

\* The entries that have bytes among the `size' units at `at', where mapped.
Meet(at, size) ==
  {e \in Entries : /\ place[e].at < at + size /\ at < place[e].at + place[e].size
                   /\ place[e].at < mapped /\ at < mapped}

\* e lies between two addresses; in what would be given to the kernel now.
Within(e, from, to) == from <= place[e].at /\ place[e].at + place[e].size <= to
InRange(e) == Within(e, logstart, logstart + logoffset)

\* Entries that still wait to be digested.
Pending == Entries \ (digested \cup atRisk)

\* Bound: nothing begins after shutdown_fs has returned or the program ended.
Running == ended = "no" /\ shut # "done"

\* loginit
Init ==
  /\ logoffset = 0 /\ logstart = 0 /\ mapped = LogSpace
  /\ count = 0 /\ place = [e \in 1..MaxEntries |-> Unset] /\ whole = {}
  /\ append = NoAppend
  /\ syncs = 0 /\ sync = "none" /\ shut = "none"
  /\ range = [c \in {"sync", "shut"} |-> <<0, 0>>] /\ offset = 0
  /\ ended = "no" /\ digested = {} /\ atRisk = {}

-----------------------------------------------------------------------------
\* append_entry_log takes the lock.  The log starts over when not even a dentry
\* would fit; submit_log only prints, so what was not digested is given up.
Wraps == logoffset + DentrySize > LogSpace

\* Mutated beginning: the log starts over when not even an extent would fit.
BeginWrapsLate(size) ==
  LET late == logoffset + ExtentSize > LogSpace IN
  /\ Running /\ append.step = "none" /\ count < MaxEntries
  /\ logoffset' = IF late THEN 0 ELSE logoffset
  /\ atRisk' = atRisk \cup (IF late THEN Pending ELSE {})
  /\ append' = [step |-> "aim", size |-> size, at |-> 0,
                risk |-> sync # "none" \/ shut # "none"]
  /\ UNCHANGED <<logstart, mapped, count, place, whole, syncs, sync, shut, range, offset,
                 ended, digested>>

AppendBegin(size) ==
  /\ Running /\ append.step = "none" /\ count < MaxEntries
  /\ logoffset' = IF Wraps THEN 0 ELSE logoffset
  /\ atRisk' = atRisk \cup (IF Wraps THEN Pending ELSE {})
  /\ append' = [step |-> "aim", size |-> size, at |-> 0,
                risk |-> sync # "none" \/ shut # "none"]
  /\ UNCHANGED <<logstart, mapped, count, place, whole, syncs, sync, shut, range, offset,
                 ended, digested>>

\* logaddr is computed.  A dentry that would cross the end of a block goes to
\* the next one.
Crosses == append.size = DentrySize /\ (logoffset % LogBlock) + DentrySize > LogBlock
AppendAim ==
  /\ ended = "no" /\ append.step = "aim"
  /\ append' = [append EXCEPT !.at = logstart + logoffset,
                              !.step = IF Crosses THEN "pad" ELSE "copy"]
  /\ UNCHANGED <<logoffset, logstart, mapped, count, place, whole, syncs, sync, shut,
                 range, offset, ended, digested, atRisk>>

\* `size' units are written at `at': some entries are whole no more, and the
\* program may end if some of the units are not mapped.
Write(at, size, new) ==
  /\ whole' = (whole \ Meet(at, size)) \cup new
  /\ \/ UNCHANGED ended
     \/ at + size > mapped /\ ended' = "fault"

\* The rest of the block is filled with zeroes.
Padding == LogBlock - (logoffset % LogBlock)
AppendPad ==
  /\ ended = "no" /\ append.step = "pad"
  /\ Write(append.at, Padding, {})
  /\ logoffset' = logoffset + Padding
  /\ append' = [append EXCEPT !.step = "aim"]
  /\ UNCHANGED <<logstart, mapped, count, place, syncs, sync, shut, range, offset,
                 digested, atRisk>>

AppendCopy ==
  /\ ended = "no" /\ append.step = "copy"
  /\ Write(append.at, append.size,
           IF append.at + append.size <= mapped THEN {count + 1} ELSE {})
  /\ append' = [append EXCEPT !.step = "count",
                              !.risk = @ \/ append.at + append.size > mapped]
  /\ UNCHANGED <<logoffset, logstart, mapped, count, place, syncs, sync, shut, range,
                 offset, digested, atRisk>>

\* Mutated counting: a dentry is counted as an extent.
CountAsExtent ==
  /\ ended = "no" /\ append.step = "count"
  /\ count' = count + 1
  /\ place' = [place EXCEPT ![count + 1] =
                 [at |-> append.at, off |-> logoffset, size |-> append.size]]
  /\ logoffset' = logoffset + ExtentSize
  /\ atRisk' = atRisk \cup (IF append.risk THEN {count + 1} ELSE {})
  /\ append' = NoAppend
  /\ UNCHANGED <<logstart, mapped, whole, syncs, sync, shut, range, offset, ended, digested>>

\* logoffset is moved, and the lock released.
AppendCount ==
  /\ ended = "no" /\ append.step = "count"
  /\ count' = count + 1
  /\ place' = [place EXCEPT ![count + 1] =
                 [at |-> append.at, off |-> logoffset, size |-> append.size]]
  /\ logoffset' = logoffset + append.size
  /\ atRisk' = atRisk \cup (IF append.risk THEN {count + 1} ELSE {})
  /\ append' = NoAppend
  /\ UNCHANGED <<logstart, mapped, whole, syncs, sync, shut, range, offset, ended, digested>>

append_entry_log ==
  \/ AppendBegin(ExtentSize) \/ AppendBegin(DentrySize)
  \/ AppendAim \/ AppendPad \/ AppendCopy \/ AppendCount

-----------------------------------------------------------------------------
\* An append under way while synclog or shutdown_fs begins is at risk.
Risked == [append EXCEPT !.risk = append.step # "none"]

\* What a system call digests, of the range given to it.
Digest(c) ==
  digested' = digested \cup {e \in Entries : Within(e, range[c][1], range[c][2])
                                             /\ e \in whole}
GiveRange(c) == range' = [range EXCEPT ![c] = <<logstart, logstart + logoffset>>]

\* synclog gives the kernel the range from logstart to logstart + logoffset ...
SyncCall ==
  /\ Running /\ sync = "none" /\ syncs < MaxSyncs
  /\ sync' = "digest" /\ syncs' = syncs + 1
  /\ GiveRange("sync")
  /\ append' = Risked
  /\ UNCHANGED <<logoffset, logstart, mapped, count, place, whole, shut, offset, ended,
                 digested, atRisk>>

SyncDigest ==
  /\ ended = "no" /\ sync = "digest"
  /\ sync' = "move"
  /\ Digest("sync")
  /\ UNCHANGED <<logoffset, logstart, mapped, count, place, whole, append, syncs, shut,
                 range, offset, ended, atRisk>>

\* ... and logstart moves to logbase + logoffset; logoffset stays.
SyncMove ==
  /\ ended = "no" /\ sync = "move"
  /\ sync' = "none" /\ range' = [range EXCEPT !["sync"] = <<0, 0>>]
  /\ logstart' = logoffset
  /\ UNCHANGED <<logoffset, mapped, count, place, whole, append, syncs, shut, offset,
                 ended, digested, atRisk>>

synclog == SyncCall \/ SyncDigest \/ SyncMove

-----------------------------------------------------------------------------
\* shutdown_fs calls append_addrinfo_log, which reads logoffset three times
\* before it takes the lock: for the place behind the log, ...
AddrRead ==
  /\ Running /\ shut = "none"
  /\ shut' = "test" /\ offset' = logoffset
  /\ append' = Risked
  /\ UNCHANGED <<logoffset, logstart, mapped, count, place, whole, syncs, sync, range,
                 ended, digested, atRisk>>

\* ... to see whether the block has room for the record, ...
AddrTest ==
  /\ ended = "no" /\ shut = "test"
  /\ shut' = IF logoffset % LogBlock > LogBlock - AddrInfoSize THEN "round" ELSE "write"
  /\ UNCHANGED <<logoffset, logstart, mapped, count, place, whole, append, syncs, sync,
                 range, offset, ended, digested, atRisk>>

\* ... and, if not, for logoffset >> (page_shift + 1) << page_shift.
AddrRound ==
  /\ ended = "no" /\ shut = "round"
  /\ shut' = "write" /\ offset' = (logoffset \div (2 * LogBlock)) * LogBlock
  /\ UNCHANGED <<logoffset, logstart, mapped, count, place, whole, append, syncs, sync,
                 range, ended, digested, atRisk>>

\* The record is written under the lock, over entries if offset was rounded.
AddrWrite ==
  /\ ended = "no" /\ shut = "write" /\ append.step = "none"
  /\ shut' = "unmap"
  /\ Write(logstart + offset, AddrInfoSize, {})
  /\ atRisk' = IF offset = logoffset THEN atRisk
               ELSE atRisk \cup (Pending \ whole')
  /\ UNCHANGED <<logoffset, logstart, mapped, count, place, append, syncs, sync, range,
                 offset, digested>>

append_addrinfo_log == AddrRead \/ AddrTest \/ AddrRound \/ AddrWrite

\* munmap of logspace bytes from logstart, which fails when logstart is not the
\* beginning of a page: shutdown_fs panics before it calls the kernel.
ShutUnmap ==
  /\ ended = "no" /\ shut = "unmap"
  /\ IF logstart % LogBlock = 0
     THEN /\ shut' = "call"
          /\ mapped' = logstart
          /\ UNCHANGED ended
     ELSE ended' = "panic" /\ UNCHANGED <<shut, mapped>>
  /\ UNCHANGED <<logoffset, logstart, count, place, whole, append, syncs, sync, range,
                 offset, digested, atRisk>>

ShutCall ==
  /\ ended = "no" /\ shut = "call"
  /\ shut' = "digest"
  /\ GiveRange("shut")
  /\ UNCHANGED <<logoffset, logstart, mapped, count, place, whole, append, syncs, sync,
                 offset, ended, digested, atRisk>>

ShutDigest ==
  /\ ended = "no" /\ shut = "digest"
  /\ shut' = "move"
  /\ Digest("shut")
  /\ UNCHANGED <<logoffset, logstart, mapped, count, place, whole, append, syncs, sync,
                 range, offset, ended, atRisk>>

ShutMove ==
  /\ ended = "no" /\ shut = "move"
  /\ shut' = "done" /\ range' = [range EXCEPT !["shut"] = <<0, 0>>]
  /\ logstart' = logoffset
  /\ UNCHANGED <<logoffset, mapped, count, place, whole, append, syncs, sync, offset,
                 ended, digested, atRisk>>

shutdown_fs ==
  append_addrinfo_log \/ ShutUnmap \/ ShutCall \/ ShutDigest \/ ShutMove

Next == append_entry_log \/ synclog \/ shutdown_fs

Spec == Init /\ [][Next]_vars

-----------------------------------------------------------------------------
\* Types; logoffset never passes the end of the log.
TypeOK ==
  /\ logoffset \in 0..LogSpace /\ logstart \in 0..LogSpace /\ mapped \in 0..LogSpace
  /\ count \in 0..MaxEntries
  /\ place \in [1..MaxEntries -> [at : 0..2*LogSpace, off : 0..LogSpace,
                                  size : {0, ExtentSize, DentrySize}]]
  /\ append \in [step : {"none", "aim", "pad", "copy", "count"}, at : 0..2*LogSpace,
                 size : {0, ExtentSize, DentrySize}, risk : BOOLEAN]
  /\ syncs \in 0..MaxSyncs
  /\ sync \in {"none", "digest", "move"}
  /\ shut \in {"none", "test", "round", "write", "unmap", "call", "digest", "move", "done"}
  /\ range \in [{"sync", "shut"} -> (0..LogSpace) \X (0..2*LogSpace)]
  /\ offset \in 0..LogSpace
  /\ ended \in {"no", "fault", "panic"}
  /\ whole \subseteq 1..count+1 /\ digested \subseteq Entries /\ atRisk \subseteq Entries

(* Counted from the logstart that it was written from, no entry passes the    *)
(* end of the log, although the test for room is made before the padding of a *)
(* dentry is known, and no dentry crosses the end of a block.  So entries are *)
(* in the mapping, and dentries in its blocks, until a synclog moves logstart *)
(* inside a block; and a write outside the mapping follows a synclog or an    *)
(* munmap, or is that of the address information, when the log has less room  *)
(* left than its record needs.                                                *)
EntriesFit ==
  /\ \A e \in Entries :
       /\ place[e].off + place[e].size <= LogSpace
       /\ place[e].size = DentrySize =>
            /\ (place[e].off % LogBlock) + DentrySize <= LogBlock
            /\ (place[e].at - place[e].off) % LogBlock = 0 =>
                 (place[e].at % LogBlock) + DentrySize <= LogBlock
       /\ syncs = 0 /\ shut # "done" => place[e].at = place[e].off
  /\ ended = "fault" => syncs > 0 \/ shut \in {"call", "digest", "move", "done"}
                        \/ (shut = "unmap" /\ offset + AddrInfoSize > LogSpace)

(* An entry that waits to be digested is whole, and in the range that synclog *)
(* or shutdown_fs gives to the kernel; when shutdown_fs returns none waits.   *)
(* An entry is lost only when the log starts over before it is digested, when *)
(* its append meets synclog or shutdown_fs, when it is outside the mapping,   *)
(* when the rounded place of the address information is in it, or when        *)
(* shutdown_fs panics, which it does only after a synclog, or faults.         *)
NothingElseLost ==
  /\ \A e \in Pending : shut # "done" /\ e \in whole /\ InRange(e)
  /\ ended = "panic" => syncs > 0
=============================================================================
