----------------------------- MODULE SpiCharReads -----------------------------
(***************************************************************************)
(* The drivers of CharDrivers with processes that read from spi_char, the  *)
(* one character driver whose read handler does something: it allocates a  *)
(* buffer, sleeps in an SPI transfer, copies to the user and frees the     *)
(* buffer.  All that CharDrivers does goes on meanwhile, so that a read    *)
(* may be inside the module when rmmod asks for it.                        *)
(***************************************************************************)
EXTENDS CharDrivers

VARIABLES
  reading,  \* reading[f]: where a read(2) on slot f is in spi_char_read, or
            \* has died
  data      \* data[f]: the buffers from spi_transfer it has not freed

readVars == <<reading, data>>
allVars  == <<vars, readVars>>

RInit ==
  /\ Init
  /\ reading = [f \in Files |-> "none"]
  /\ data = [f \in Files |-> 0]

-----------------------------------------------------------------------------
(* spi_char_read.                                                          *)

\* read(2) on an open file calls the handler of the file's driver, wherever
\* that is by now.
Read(f) ==
  /\ file[f].open /\ file[f].drv = "spi_char"
  /\ reading[f] = "none"
  /\ reading' = [reading EXCEPT ![f] = "transfer"]
  /\ UNCHANGED <<vars, data>>

\* The transfer takes as long as the bus needs.
TransferSucceeds(f) ==
  /\ reading[f] = "transfer"
  /\ reading' = [reading EXCEPT ![f] = "copy"]
  /\ data' = [data EXCEPT ![f] = @ + 1]
  /\ UNCHANGED vars

\* spi_transfer returns null.  The dev_err of line 23 takes what it finds in a
\* super_block for a device and goes where that leads.  If it comes back the
\* read returns -EFAULT; if not the process dies there, and its file is closed
\* with it, or is kept open for ever by the reference of the dead call.
TransferFails(f) ==
  /\ reading[f] = "transfer"
  /\ \/ reading' = [reading EXCEPT ![f] = "none"] /\ UNCHANGED vars
     \/ reading' = [reading EXCEPT ![f] = "none"] /\ Close(f)
     \/ reading' = [reading EXCEPT ![f] = "dead"] /\ UNCHANGED vars
  /\ UNCHANGED data

CopyToUser_LeaksOnFault(f) ==
  /\ reading[f] = "copy"
  /\ reading' = [reading EXCEPT ![f] = "none"]
  /\ \/ data' = [data EXCEPT ![f] = @ - 1]
     \/ UNCHANGED data
  /\ UNCHANGED vars

\* copy_to_user is whole (count) or faults (-EFAULT): kfree on both ways out.
CopyToUser(f) ==
  /\ reading[f] = "copy"
  /\ reading' = [reading EXCEPT ![f] = "none"]
  /\ data' = [data EXCEPT ![f] = @ - 1]
  /\ UNCHANGED vars

SpiCharRead(f) ==
  Read(f) \/ TransferSucceeds(f) \/ TransferFails(f) \/ CopyToUser(f)

-----------------------------------------------------------------------------
\* A call in progress holds the file: release waits for it.
CloseIdle(f) == reading[f] = "none" /\ Close(f)

ModuleRuns(d) == ModuleStep(d) /\ UNCHANGED readVars

RNext ==
  \/ \E d \in Drivers : \/ (Insmod(d) \/ Rmmod(d)) /\ UNCHANGED readVars
                        \/ ModuleRuns(d)
  \/ \E f \in Files :
       \/ (CloseIdle(f) \/ \E n \in Node : Open(f, n)) /\ UNCHANGED readVars
       \/ SpiCharRead(f)

RSpec == RInit /\ [][RNext]_allVars

\* insmod and rmmod run in a process of their own that the kernel schedules,
\* and every call they make returns.  A read may sleep in its transfer for
\* good.
RFairSpec == RSpec /\ \A d \in Drivers : WF_allVars(ModuleRuns(d))

-----------------------------------------------------------------------------
(* Properties.                                                             *)

\* No process is ever inside spi_char_read while the module unwinds, exits or
\* is gone, although rmmod, a failing init and the read are not ordered by
\* anything in the driver but its .owner and the place of cdev_add.
ReadsRunLoadedCode ==
  \A f \in Files : reading[f] # "none" => mod["spi_char"] \in {"coming", "live"}

\* A buffer of a transfer is freed on every way out of the read it was made
\* for, once, and so before the module that made it can go.
BuffersDieWithTheirReads ==
  \A f \in Files : data[f] = IF reading[f] = "copy" THEN 1 ELSE 0
===============================================================================
