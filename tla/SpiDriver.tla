------------------------------- MODULE SpiDriver -------------------------------
(***************************************************************************)
(* Spi_kernel_space_test_v1_1.c: a driver that the SPI bus binds to        *)
(* devices and that keeps the device in one global pointer, spi_dev.       *)
(* Devices come and go while the driver is loaded, and the bus probes and  *)
(* removes different devices at once.  The driver also has spi_read and    *)
(* spi_write, which threads call with a device and which build their       *)
(* message on their own stack.                                             *)
(***************************************************************************)
EXTENDS Naturals, Sequences

CONSTANTS
  Devices,   \* the devices that have the driver's name
  Threads,   \* the threads that transfer
  NoDevice   \* a null pointer

ASSUME NoDeviceAssumption == NoDevice \notin Devices

VARIABLES
  driver,   \* "out", "in", or "leaving" while the bus unbinds its devices
  present,  \* the devices that are plugged in
  bind,     \* bind[d]: how far the bus has come with d
  spi_dev,  \* the driver's pointer
  call,     \* call[t]: where t is in spi_read or spi_write
  queue     \* the messages the controller has, by their thread

vars == <<driver, present, bind, spi_dev, call, queue>>

TypeOK ==
  /\ driver \in {"out", "in", "leaving"}
  /\ present \subseteq Devices
  /\ bind \in [Devices -> {"unbound", "probing", "bound", "removing"}]
  /\ spi_dev \in Devices \cup {NoDevice}
  /\ call \in [Threads -> {"none", "waiting", "done"}]
  /\ queue \in Seq(Threads)

Init ==
  /\ driver = "out"
  /\ present = {}
  /\ bind = [d \in Devices |-> "unbound"]
  /\ spi_dev = NoDevice
  /\ call = [t \in Threads |-> "none"]
  /\ queue = <<>>

-----------------------------------------------------------------------------
(* The bus.                                                                *)

Plug(d) ==
  /\ present' = present \cup {d}
  /\ UNCHANGED <<driver, bind, spi_dev, call, queue>>

\* A device goes for good only when it is unbound.
Unplug(d) ==
  /\ bind[d] = "unbound"
  /\ present' = present \ {d}
  /\ UNCHANGED <<driver, bind, spi_dev, call, queue>>

\* The bus picks d for the driver, and calls probe next.
Attach(d) ==
  /\ driver = "in" /\ d \in present /\ bind[d] = "unbound"
  /\ bind' = [bind EXCEPT ![d] = "probing"]
  /\ UNCHANGED <<driver, present, spi_dev, call, queue>>

\* d is about to go, or the driver is: remove is called next.
Detach(d) ==
  /\ bind[d] = "bound"
  /\ bind' = [bind EXCEPT ![d] = "removing"]
  /\ UNCHANGED <<driver, present, spi_dev, call, queue>>

-----------------------------------------------------------------------------
(* The driver.                                                             *)

Register ==
  /\ driver = "out"
  /\ driver' = "in"
  /\ UNCHANGED <<present, bind, spi_dev, call, queue>>

\* Unregistering returns when the bus has unbound every device.  spi_read and
\* spi_write have no callers in the file: those there may be are taken to hold
\* the module while they are inside.
Unregister ==
  /\ driver = "in"
  /\ \A t \in Threads : call[t] = "none"
  /\ driver' = "leaving"
  /\ UNCHANGED <<present, bind, spi_dev, call, queue>>

\* The module goes, and its pointer with it.
Unload ==
  /\ driver = "leaving"
  /\ \A d \in Devices : bind[d] = "unbound"
  /\ driver' = "out"
  /\ spi_dev' = NoDevice
  /\ UNCHANGED <<present, bind, call, queue>>

Probe_KeepsFirst(d) ==
  /\ bind[d] = "probing"
  /\ spi_dev' = IF spi_dev = NoDevice THEN d ELSE spi_dev
  /\ bind' = [bind EXCEPT ![d] = "bound"]
  /\ UNCHANGED <<driver, present, call, queue>>

Probe_StoresStatus(d) ==
  /\ bind[d] = "probing"
  /\ spi_dev' = 0
  /\ bind' = [bind EXCEPT ![d] = "bound"]
  /\ UNCHANGED <<driver, present, call, queue>>

\* The driver takes the device into its pointer, whatever was there.
Probe(d) ==
  /\ bind[d] = "probing"
  /\ spi_dev' = d
  /\ bind' = [bind EXCEPT ![d] = "bound"]
  /\ UNCHANGED <<driver, present, call, queue>>

Remove_KeepsPointer(d) ==
  /\ bind[d] = "removing"
  /\ bind' = [bind EXCEPT ![d] = "unbound"]
  /\ UNCHANGED <<driver, present, spi_dev, call, queue>>

Remove_NeverDone(d) ==
  /\ bind[d] = "removing"
  /\ spi_dev' = NoDevice
  /\ UNCHANGED <<driver, present, bind, call, queue>>

\* The driver clears its pointer, whichever device is removed.
Remove(d) ==
  /\ bind[d] = "removing"
  /\ spi_dev' = NoDevice
  /\ bind' = [bind EXCEPT ![d] = "unbound"]
  /\ UNCHANGED <<driver, present, call, queue>>

-----------------------------------------------------------------------------
(* spi_read and spi_write.                                                 *)

\* A message with one transfer is queued, and spi_sync sleeps.
Transfer(t) ==
  /\ driver = "in"
  /\ call[t] = "none"
  /\ \E d \in Devices : bind[d] = "bound"
  /\ call' = [call EXCEPT ![t] = "waiting"]
  /\ queue' = Append(queue, t)
  /\ UNCHANGED <<driver, present, bind, spi_dev>>

\* The controller has finished, or given up, the oldest message: it wakes the
\* thread the message belongs to.
Complete ==
  /\ queue # <<>>
  /\ call' = [call EXCEPT ![Head(queue)] = "done"]
  /\ queue' = Tail(queue)
  /\ UNCHANGED <<driver, present, bind, spi_dev>>

Return_AtOnce(t) ==
  /\ call[t] \in {"waiting", "done"}
  /\ call' = [call EXCEPT ![t] = "none"]
  /\ UNCHANGED <<driver, present, bind, spi_dev, queue>>

\* spi_sync returns the status and the function's frame is gone.
Return(t) ==
  /\ call[t] = "done"
  /\ call' = [call EXCEPT ![t] = "none"]
  /\ UNCHANGED <<driver, present, bind, spi_dev, queue>>

Next ==
  \/ Register \/ Unregister \/ Unload \/ Complete
  \/ \E d \in Devices : \/ Plug(d) \/ Unplug(d) \/ Attach(d) \/ Detach(d)
                        \/ Probe(d) \/ Remove(d)
  \/ \E t \in Threads : Transfer(t) \/ Return(t)

Spec == Init /\ [][Next]_vars

\* The bus finishes what it has begun with a device, and takes every device
\* from a driver that leaves.  Nothing is asked of the controller.
FairSpec ==
  /\ Spec
  /\ WF_vars(Unload)
  /\ \A d \in Devices : /\ WF_vars(Probe(d)) /\ WF_vars(Remove(d))
                         /\ WF_vars(driver = "leaving" /\ Detach(d))

-----------------------------------------------------------------------------
(* Properties.                                                             *)

\* spi_dev never names a device the driver is not bound to, in whatever order
\* the devices of the driver are probed and removed, and across reloads.
SpiDevIsBound ==
  spi_dev # NoDevice => bind[spi_dev] \in {"bound", "removing"}

\* The message and the transfer are variables of spi_read and spi_write: the
\* controller never has a message whose function has returned.
MessagesHaveAFrame ==
  \A i \in 1..Len(queue) :
    /\ call[queue[i]] = "waiting"
    /\ \A j \in 1..(i - 1) : queue[j] # queue[i]

\* spi_driver_exit returns: no device keeps the driver.
UnloadEnds == driver = "leaving" ~> driver = "out"

-----------------------------------------------------------------------------
(* The promise of spi_dev, as DevicePointer states it.                     *)

Pointer == INSTANCE DevicePointer WITH
  known <- {d \in Devices : bind[d] \in {"bound", "removing"}},
  ptr   <- spi_dev

\* spi_dev moves only when a probe or a remove ends, to the device that was
\* probed or to null, and no reload brings an old value back.
ImplementsPointer == Pointer!Spec
===============================================================================
