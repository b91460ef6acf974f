-------------------------------- MODULE Ahci --------------------------------
(* The AHCI driver (drivers/ahci.c): the scan of the ports, and the commands of the
   first disk, all of them in slot 0 with one command table.  The host adapter is
   external: it fetches the table when it takes the command, carries it out, and on
   an error either clears PxCI or stops with the bit set, as the driver never
   restarts the port. *)
EXTENDS Disk

CONSTANT MaxPorts

VARIABLES
  scan,          \* the port ahci_init looks at next
  present,       \* s_ports[].present
  s_first_disk,  \* MaxPorts stands for -1
  cmd_table,     \* the command in the table and header of slot 0
  ci, tfd, tfes, \* PxCI bit 0; PxTFD: "idle", "busy" or "err"; PxIS bit 30
  hba,           \* the command the adapter is working on
  halted         \* it has stopped on an error

ahciVars == <<scan, present, s_first_disk, cmd_table, ci, tfd, tfes, hba, halted>>
portVars == <<scan, present, s_first_disk>>

AhciInit ==
  /\ scan = 0 /\ present = {} /\ s_first_disk = MaxPorts
  /\ cmd_table = NoCall
  /\ ci = FALSE /\ tfd = "idle" /\ tfes = FALSE
  /\ hba = NoCall /\ halted = FALSE

(* One round of the loop of ahci_init: port_init fails when there is no plain disk
   (port_is_present, the signature) or a page is missing, and then leaves the port as
   it was; otherwise it stops, programs and starts the port. *)
PortInit ==
  /\ scan < MaxPorts
  /\ scan' = scan + 1
  /\ \/ UNCHANGED <<present, s_first_disk>>
     \/ /\ present' = present \cup {scan}
        /\ s_first_disk' = IF s_first_disk = MaxPorts THEN scan ELSE s_first_disk
  /\ UNCHANGED <<cmd_table, ci, tfd, tfes, hba, halted, diskVars>>

-----------------------------------------------------------------------------
(* The adapter *)

Accept ==
  /\ ci /\ ~halted /\ hba = NoCall
  /\ hba' = cmd_table
  /\ tfd' = "busy"
  /\ UNCHANGED <<portVars, cmd_table, ci, tfes, halted, diskVars>>

Finish ==
  /\ hba # NoCall
  /\ hba' = NoCall
  /\ \E good \in BOOLEAN :
       /\ Executed(hba, good)
       /\ IF good THEN tfd' = "idle" /\ ci' = FALSE /\ UNCHANGED <<tfes, halted>>
          ELSE /\ tfd' = "err" /\ tfes' = TRUE
               /\ \/ ci' = FALSE /\ UNCHANGED halted
                  \/ halted' = TRUE /\ UNCHANGED ci
  /\ UNCHANGED <<portVars, cmd_table>>

-----------------------------------------------------------------------------
(* ahci_read_sectors and ahci_write_sectors *)

CanIssue == scan = MaxPorts /\ s_first_disk \in present /\ tfd # "busy"

(* Up to the write of PxCI; a port that is missing or busy returns false at once. *)
Issue(c) ==
  /\ CanIssue
  /\ Called(c)
  /\ cmd_table' = c
  /\ tfes' = FALSE
  /\ ci' = TRUE
  /\ UNCHANGED <<portVars, tfd, hba, halted>>

AhciRead == \E l \in Lba : Issue(ReadOf(l))
AhciWrite == \E l \in Lba, v \in Val : Issue(WriteOf(l, v))

TaskFileError_Ignored == FALSE
TaskFileError == tfes

(* A round of the polling loop that ends it: the bit is clear, or the task file has
   an error, which may still be the one of the command before. *)
AhciReturn ==
  /\ call # NoCall
  /\ \/ ~ci /\ Returned(~TaskFileError, FALSE)
     \/ ci /\ tfd = "err" /\ Returned(FALSE, ~halted)
  /\ UNCHANGED ahciVars

AhciTimeout ==
  /\ call # NoCall
  /\ ci /\ tfd # "err"
  /\ Returned(FALSE, TRUE)
  /\ UNCHANGED ahciVars

AhciNext ==
  \/ PortInit \/ Accept \/ Finish
  \/ AhciRead \/ AhciWrite \/ AhciReturn \/ AhciTimeout

AhciSpec == DiskInit /\ AhciInit /\ [][AhciNext]_<<diskVars, ahciVars>>

(* The inductive invariant behind ReadsLastWrite: slot 0 has the command of the call
   and no other, and a clear PxCI without an error means that it is done. *)
AhciInv ==
  /\ DiskInv
  /\ halted => ci /\ hba = NoCall
  /\ hba # NoCall => ci
  /\ ~adrift =>
       /\ call = NoCall => hba = NoCall /\ (halted \/ ~ci)
       /\ hba # NoCall => hba = call
       /\ call # NoCall /\ ci => cmd_table = call
       /\ call # NoCall /\ ~ci /\ ~tfes => Done
=============================================================================
