-------------------------------- MODULE Disk --------------------------------
(* What the file system may expect of a block device, for both drivers: the block
   devices of fs/vfs.c are called one call at a time, under the lock of the VFS, and
   asked for no more than one block, which is one round of the loops there.  The
   medium is external. *)
EXTENDS Naturals, FiniteSets

CONSTANTS Lba, Val, NoVal, NoCall

VARIABLES
  disk,      \* the sectors on the medium
  dbuf,      \* the data buffer of the call
  call,      \* the call in progress: [op, lba, val]
  ok,        \* what the last call returned
  known,     \* ghost: the contents a sector may have, going by what the calls returned
  adrift     \* ghost: a call has returned while the device still had its command

diskVars == <<disk, dbuf, call, ok, known, adrift>>

ReadOf(l) == [op |-> "read", lba |-> l, val |-> NoVal]
WriteOf(l, v) == [op |-> "write", lba |-> l, val |-> v]

ASSUME DiskConstants == \A l \in Lba : NoCall # ReadOf(l) /\ \A v \in Val : NoCall # WriteOf(l, v)

DiskInit ==
  /\ disk \in [Lba -> Val]
  /\ dbuf = NoVal
  /\ call = NoCall /\ ok = FALSE
  /\ known = [l \in Lba |-> {disk[l]}]
  /\ adrift = FALSE

(* ahci_blkdev_read and its three siblings: the buffer of a read is not cleared. *)
Called(c) ==
  /\ call = NoCall
  /\ call' = c
  /\ dbuf' = IF c.op = "write" THEN c.val ELSE NoVal
  /\ UNCHANGED <<disk, ok, known, adrift>>

(* The device carries out a command; one that fails may have done its work or not. *)
Executed(c, good) ==
  /\ IF c.op = "write"
     THEN /\ UNCHANGED dbuf
          /\ \/ disk' = [disk EXCEPT ![c.lba] = c.val]
             \/ ~good /\ UNCHANGED disk
     ELSE /\ UNCHANGED disk
          /\ \/ dbuf' = disk[c.lba]
             \/ ~good /\ UNCHANGED dbuf
  /\ UNCHANGED <<call, ok, known, adrift>>

(* The call returns `good`, with its command still pending or not. *)
Returned(good, pending) ==
  /\ call' = NoCall
  /\ ok' = good
  /\ adrift' = (adrift \/ pending)
  /\ known' = CASE adrift' -> [l \in Lba |-> {}]
                [] call.op = "read" -> known
                [] OTHER -> [known EXCEPT ![call.lba] = {call.val} \cup (IF good THEN {} ELSE @)]
  /\ dbuf' = NoVal
  /\ UNCHANGED disk

(* A read that returns true has filled the buffer with what the last write of the
   sector that returned true has put there, or with what a later write that returned
   false may have: nvme_read_sectors and ahci_read_sectors never take the completion,
   the status or the data of another command for their own, over every wrap of the
   queues, after failed commands and after failed initialisation.  This holds until
   a call gives up on a command the device still has. *)
ReadsLastWrite ==
  [][call # NoCall /\ call' = NoCall /\ call.op = "read" /\ ok' /\ ~adrift
       => dbuf \in known[call.lba]]_diskVars

(* What both drivers keep up until a call has given up on a command: a sector has one
   of its known contents, or the contents the write in progress gives it. *)
DiskCall == {ReadOf(l) : l \in Lba} \cup {WriteOf(l, v) : l \in Lba, v \in Val}
Writing(l, v) == call # NoCall /\ call.op = "write" /\ call.lba = l /\ call.val = v

DiskInv ==
  /\ call \in DiskCall \cup {NoCall} /\ adrift \in BOOLEAN
  /\ ~adrift => /\ disk \in [Lba -> Val] /\ DOMAIN known = Lba
                /\ \A l \in Lba : disk[l] \in known[l] \/ Writing(l, disk[l])

(* The command of the call has been carried out. *)
Done == IF call.op = "read" THEN dbuf = disk[call.lba] ELSE disk[call.lba] = call.val
=============================================================================
