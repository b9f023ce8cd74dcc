----------------------------- MODULE CharDrivers ------------------------------
(***************************************************************************)
(* The character drivers of the repository loaded side by side: insmod and *)
(* rmmod run the code of DriverCode one kernel call at a time, interleaved *)
(* with one another and with processes that open and close the drivers'    *)
(* nodes.  The drivers share the table of major numbers and the map from   *)
(* device numbers to cdevs, and that is how they can disturb each other.   *)
(*                                                                         *)
(* The kernel's side (who gets a major, what an open finds, when a module  *)
(* may go) is modelled from how the drivers use it.                        *)
(***************************************************************************)
EXTENDS DriverCode

CONSTANTS
  Drivers,    \* the drivers present on the machine
  DynMajors,  \* the majors alloc_chrdev_region may hand out
  Files       \* open-file slots of user processes

ASSUME DriversAssumption == Drivers \subseteq AllDrivers
ASSUME MajorsAssumption  == DynMajors \subseteq Nat

VARIABLES
  mod,      \* mod[d]: the state of driver d's module
  pc,       \* pc[d]: the next call of its init code or of its cleanup
  cleanup,  \* cleanup[d]: the releases it is running (exit or error path)
  devnum,   \* devnum[d]: the major in the driver's dev_t variable
  held,     \* held[d]: what the loaded instance of d has registered
  orphans,  \* registrations whose module is gone
  file      \* file[f]: what open-file slot f stands for

vars == <<mod, pc, cleanup, devnum, held, orphans, file>>

ModStates == {"unloaded", "coming", "unwinding", "live", "going", "stuck"}
Majors == {0} \cup DynMajors \cup {MajorNum[d] : d \in DOMAIN MajorNum}
Node   == [made : {"devtmpfs"}, drv : Drivers]
            \cup [made : {"mknod"}, major : Majors \ {0}]
Closed == [open |-> FALSE]
Opened == [open : {TRUE}, via : Node, drv : Drivers, live : BOOLEAN]
Orphan == [reg : Registrations, drv : Drivers, major : Majors]

TypeOK ==
  /\ mod \in [Drivers -> ModStates]
  /\ pc \in [Drivers -> Nat \ {0}]
  /\ cleanup \in [Drivers -> Seq(Registrations)]
  /\ devnum \in [Drivers -> Majors]
  /\ held \in [Drivers -> SUBSET Registrations]
  /\ orphans \subseteq Orphan
  /\ file \in [Files -> Opened \cup {Closed}]

Init ==
  /\ mod = [d \in Drivers |-> "unloaded"]
  /\ pc = [d \in Drivers |-> 1]
  /\ cleanup = [d \in Drivers |-> <<>>]
  /\ devnum = [d \in Drivers |-> 0]
  /\ held = [d \in Drivers |-> {}]
  /\ orphans = {}
  /\ file = [f \in Files |-> Closed]

-----------------------------------------------------------------------------
(* Loading.                                                                *)

Insmod_NextMajor(d) ==
  /\ mod[d] = "unloaded"
  /\ mod' = [mod EXCEPT ![d] = "coming"]
  /\ pc' = [pc EXCEPT ![d] = 1]
  /\ devnum' = [devnum EXCEPT ![d] =
                  IF d \in DOMAIN MajorNum THEN MajorNum[d] + 1 ELSE 0]
  /\ UNCHANGED <<cleanup, held, orphans, file>>

\* insmod d: the module is mapped and its init function starts.  A static
\* driver sets its dev_t with MKDEV before the first call.
Insmod(d) ==
  /\ mod[d] = "unloaded"
  /\ mod' = [mod EXCEPT ![d] = "coming"]
  /\ pc' = [pc EXCEPT ![d] = 1]
  /\ devnum' = [devnum EXCEPT ![d] =
                  IF d \in DOMAIN MajorNum THEN MajorNum[d] ELSE 0]
  /\ UNCHANGED <<cleanup, held, orphans, file>>

\* d's init function is about to make the call `c'.
AtCall(d, c) ==
  /\ mod[d] = "coming"
  /\ pc[d] <= Len(InitCode[d])
  /\ InitCode[d][pc[d]].call = c

RegionFree(m) ==
  /\ \A e \in Drivers : ~("region" \in held[e] /\ devnum[e] = m)
  /\ \A o \in orphans : ~(o.reg = "region" /\ o.major = m)

\* register_chrdev_region: the fixed major, if nobody has it.
RegisterRegion(d) ==
  /\ d \in DOMAIN MajorNum
  /\ AtCall(d, "region")
  /\ RegionFree(devnum[d])
  /\ held' = [held EXCEPT ![d] = @ \cup {"region"}]
  /\ pc' = [pc EXCEPT ![d] = @ + 1]
  /\ UNCHANGED <<mod, cleanup, devnum, orphans, file>>

\* alloc_chrdev_region: any free major of the dynamic range.
AllocRegion(d) ==
  /\ d \notin DOMAIN MajorNum
  /\ AtCall(d, "region")
  /\ \E m \in DynMajors :
       /\ RegionFree(m)
       /\ devnum' = [devnum EXCEPT ![d] = m]
  /\ held' = [held EXCEPT ![d] = @ \cup {"region"}]
  /\ pc' = [pc EXCEPT ![d] = @ + 1]
  /\ UNCHANGED <<mod, cleanup, orphans, file>>

\* Any other call of the init code succeeds.
CallSucceeds(d) ==
  /\ \E c \in Calls \ {"region"} :
       /\ AtCall(d, c)
       /\ held' = [held EXCEPT ![d] = @ \cup ({c} \cap Registrations)]
  /\ pc' = [pc EXCEPT ![d] = @ + 1]
  /\ UNCHANGED <<mod, cleanup, devnum, orphans, file>>

\* A call of the init code fails, and the code takes that call's error path.
\* A call whose failure is "never" has no such step.
CallFails(d) ==
  /\ \E c \in Calls : AtCall(d, c)
  /\ LET step == InitCode[d][pc[d]] IN
       \/ /\ step.fail = "return"
          /\ mod' = [mod EXCEPT ![d] = "unwinding"]
          /\ cleanup' = [cleanup EXCEPT ![d] = step.undo]
          /\ pc' = [pc EXCEPT ![d] = 1]
       \/ /\ step.fail = "ignore"
          /\ pc' = [pc EXCEPT ![d] = @ + 1]
          /\ UNCHANGED <<mod, cleanup>>
       \/ /\ step.fail = "oops"
          /\ mod' = [mod EXCEPT ![d] = "stuck"]
          /\ UNCHANGED <<pc, cleanup>>
  /\ UNCHANGED <<devnum, held, orphans, file>>

\* The init function returns 0.
InitReturnsZero(d) ==
  /\ mod[d] = "coming"
  /\ pc[d] > Len(InitCode[d])
  /\ mod' = [mod EXCEPT ![d] = "live"]
  /\ UNCHANGED <<pc, cleanup, devnum, held, orphans, file>>

-----------------------------------------------------------------------------
(* Unloading.                                                              *)

\* The open files that hold a reference on the module of d.
Pins(d) ==
  {f \in Files : /\ file[f].open
                 /\ file[f].drv = d
                 /\ file[f].live
                 /\ d \in NamesOwner}

\* rmmod d: refused while the module is in use.
Rmmod(d) ==
  /\ mod[d] = "live"
  /\ Pins(d) = {}
  /\ mod' = [mod EXCEPT ![d] = "going"]
  /\ cleanup' = [cleanup EXCEPT ![d] = ExitCode[d]]
  /\ pc' = [pc EXCEPT ![d] = 1]
  /\ UNCHANGED <<devnum, held, orphans, file>>

\* The next release of the exit function or of the error path.
Release(d) ==
  /\ mod[d] \in {"unwinding", "going"}
  /\ pc[d] <= Len(cleanup[d])
  /\ held' = [held EXCEPT ![d] = @ \ {cleanup[d][pc[d]]}]
  /\ pc' = [pc EXCEPT ![d] = @ + 1]
  /\ UNCHANGED <<mod, cleanup, devnum, orphans, file>>

\* The function has returned: the kernel frees the module's memory.  What it
\* left registered, and the files that were open on it, now point into it.
\* Its own variables are gone with it.  Leaked memory has no number, and is the
\* same orphan each time.
FreeModule(d) ==
  /\ mod[d] \in {"unwinding", "going"}
  /\ pc[d] > Len(cleanup[d])
  /\ mod' = [mod EXCEPT ![d] = "unloaded"]
  /\ orphans' = orphans \cup
       {[reg |-> r, drv |-> d,
         major |-> IF r = "memory" THEN 0 ELSE devnum[d]] : r \in held[d]}
  /\ held' = [held EXCEPT ![d] = {}]
  /\ file' = [f \in Files |->
                IF file[f].open /\ file[f].drv = d
                  THEN [file[f] EXCEPT !.live = FALSE]
                  ELSE file[f]]
  /\ pc' = [pc EXCEPT ![d] = 1]
  /\ cleanup' = [cleanup EXCEPT ![d] = <<>>]
  /\ devnum' = [devnum EXCEPT ![d] = 0]

-----------------------------------------------------------------------------
(* User processes.                                                         *)

\* The kernel makes a node with the device; an administrator makes one for
\* any number with mknod, as the drivers' comments say, and it stays.
NodeExists(n) == n.made = "devtmpfs" => "device" \in held[n.drv]

MajorOf(n) == IF n.made = "mknod" THEN n.major ELSE devnum[n.drv]

\* The cdevs the kernel may find for major m.  The newest wins, and that is
\* the one of the driver that has the region, when it has added one.
Mapped(m) ==
  {[drv |-> d, live |-> TRUE] :
      d \in {e \in Drivers : "cdev" \in held[e] /\ devnum[e] = m}}
  \cup
  {[drv |-> o.drv, live |-> FALSE] :
      o \in {p \in orphans : p.reg = "cdev" /\ p.major = m}}

Owning(m) == {e \in Mapped(m) : e.live /\ "region" \in held[e.drv]}

Lookup(m) == IF Owning(m) # {} THEN Owning(m) ELSE Mapped(m)

\* open(2) on node n.  When the driver names an owner the kernel takes a
\* reference on it first, which a module that is going refuses.
Open(f, n) ==
  /\ ~file[f].open
  /\ NodeExists(n)
  /\ \E e \in Lookup(MajorOf(n)) :
       /\ (e.live /\ e.drv \in NamesOwner) => mod[e.drv] # "going"
       /\ file' = [file EXCEPT ![f] = [open |-> TRUE, via  |-> n,
                                       drv  |-> e.drv, live |-> e.live]]
  /\ UNCHANGED <<mod, pc, cleanup, devnum, held, orphans>>

\* close(2): the driver's release returns 0 and the references are dropped.
Close(f) ==
  /\ file[f].open
  /\ file' = [file EXCEPT ![f] = Closed]
  /\ UNCHANGED <<mod, pc, cleanup, devnum, held, orphans>>

-----------------------------------------------------------------------------
\* A step of the init, exit or error-path code that runs for d.
ModuleStep(d) ==
  \/ RegisterRegion(d)
  \/ AllocRegion(d)
  \/ CallSucceeds(d)
  \/ CallFails(d)
  \/ InitReturnsZero(d)
  \/ Release(d)
  \/ FreeModule(d)

Next ==
  \/ \E d \in Drivers : Insmod(d) \/ Rmmod(d) \/ ModuleStep(d)
  \/ \E f \in Files : Close(f) \/ \E n \in Node : Open(f, n)

Spec == Init /\ [][Next]_vars

-----------------------------------------------------------------------------
(* Properties.                                                             *)

\* Of a driver that is gone nothing is left in the kernel but what its code
\* is known to forget, whichever call of its init function failed and in
\* whatever order the others ran: etx's r_class and r_device labels forget its
\* cdev, and no path of spi_char frees the cdev it has allocated.  An exit
\* function, etx's too, has released all the rest when it returns.
LeftoversAreKnown ==
  /\ \A o \in orphans :
       <<o.drv, o.reg>> \in {<<"etx", "cdev">>, <<"spi_char", "memory">>}
  /\ \A d \in Drivers :
       mod[d] = "going" /\ pc[d] > Len(cleanup[d]) =>
         held[d] = IF d = "spi_char" THEN {"memory"} ELSE {}

\* An open file's operations lie in memory that is still mapped, except those
\* of the drivers whose code leaves their users unprotected; and of these each
\* loses its users in one way only.  esp32, which names no owner, is unloaded
\* under an open file, but its load never fails under one; the load of etx may
\* fail under an open file, but once it is live .owner holds it there.
OpenFilesRunLoadedCode ==
  \A f \in Files : file[f].open =>
    LET d == file[f].drv IN
    /\ d \notin Unprotected => file[f].live
    /\ file[f].live /\ mod[d] = "going" => d = "esp32"
    /\ file[f].live /\ mod[d] = "unwinding" => d = "etx"

\* A driver keeps its major number for as long as a cdev or a /dev node of
\* its own still refers to it, on every path in and out, except on the error
\* path of etx.
NumberOutlivesItsUses ==
  \A d \in Drivers :
    held[d] \cap {"cdev", "device"} # {} =>
      "region" \in held[d] \/ (d = "etx" /\ mod[d] = "unwinding")

\* A node made by device_create never opens another driver, not even in the
\* window in which the node is there and its cdev is not, except that it may
\* find the cdev a failed load of etx has left behind on that number.
NodeReachesItsDriver ==
  \A f \in Files :
    file[f].open /\ file[f].via.made = "devtmpfs" =>
      file[f].drv \in {file[f].via.drv, "etx"}

\* Once init has returned 0, an open of the driver's number reaches that
\* driver and nothing else, whatever was loaded on the number before.  i2c
\* never adds a cdev and is left out.
LiveDriverIsReached ==
  \A d \in Drivers \ {"i2c"} :
    mod[d] = "live" => Lookup(devnum[d]) = {[drv |-> d, live |-> TRUE]}

\* The null dereference of spi_char strands its major number for good, but
\* nothing that a process could open: the module is stuck with its region
\* and neither a cdev nor a node.
FaultStrandsOnlyTheNumber ==
  \A d \in Drivers : mod[d] = "stuck" => held[d] \subseteq {"region"}

\* insmod returns: every init function ends, with the module loaded or gone.
\* spi_char is left out: it faults when it finds no SPI device.
InitReturns ==
  \A d \in Drivers \ {"spi_char"} :
    mod[d] = "coming" ~> mod[d] \in {"live", "unloaded"}

\* What I2c_driver_test.c:104 and the open handler say: the node the driver
\* creates leads to its file operations.
I2cNodeOpens ==
  mod["i2c"] = "live" /\ "device" \in held["i2c"] =>
    Lookup(devnum["i2c"]) # {}

-----------------------------------------------------------------------------
(* The promise of the protected drivers, as ModuleContract states it.      *)

Protected == Drivers \ Unprotected
NoModule  == "none"
Contract == INSTANCE ModuleContract WITH
  Modules <- Protected,
  present <- {d \in Protected : mod[d] # "unloaded"},
  uses    <- [f \in Files |->
                IF file[f].open /\ file[f].drv \in Protected
                  THEN file[f].drv ELSE NoModule]

\* Seen through their loaded state and their open files, the protected
\* drivers implement the contract: a module in use is never freed.
ImplementsContract == Contract!Spec
===============================================================================
