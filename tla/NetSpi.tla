-------------------------------- MODULE NetSpi --------------------------------
(***************************************************************************)
(* netSpi.c: a network device whose transmit handler reads an SPI device   *)
(* and sends what it has read in a packet of its own.  Opening the         *)
(* interface looks the SPI device up by its number, closing it takes the   *)
(* device off its bus.                                                     *)
(*                                                                         *)
(* The stack calls open, stop and exit one at a time, and stop only when   *)
(* the interface is up and no transmit handler runs; it runs the handler   *)
(* under the lock of the transmit queue, once at a time.  What dies in an  *)
(* open or in a transmit keeps its lock for good.                          *)
(***************************************************************************)
EXTENDS Integers

CONSTANTS
  Skbs,   \* the packet buffers of the machine
  Devs,   \* what may be registered at (SPI_BUS_ID, SPI_DEVICE_ID) in turn
  NoDev,  \* a null pointer
  NoSkb

ASSUME NoDevAssumption == NoDev \notin Devs
ASSUME NoSkbAssumption == NoSkb \notin Skbs

VARIABLES
  netdev,      \* the interface: "out" when the module is not loaded, "stuck"
               \* when an open has died
  my_spi_dev,  \* the driver's pointer
  dev,         \* dev[d]: what has become of SPI device d
  skb,         \* skb[s]: who has the buffer
  xmit,        \* the transmit handler: where it is, and its two packets
  data         \* how many buffers from spi_transfer are allocated

vars == <<netdev, my_spi_dev, dev, skb, xmit, data>>

Places == {"idle", "transfer", "alloc", "send", "dead"}
Idle   == [at |-> "idle", given |-> NoSkb, new |-> NoSkb]

TypeOK ==
  /\ netdev \in {"out", "down", "up", "stuck"}
  /\ my_spi_dev \in Devs \cup {NoDev}
  /\ dev \in [Devs -> {"unused", "on_bus", "pulled", "stopped"}]
  /\ skb \in [Skbs -> {"free", "stack", "driver"}]
  /\ xmit \in [at : Places, given : Skbs \cup {NoSkb}, new : Skbs \cup {NoSkb}]
  /\ data \in {0, 1}

Init ==
  /\ netdev = "out"
  /\ my_spi_dev = NoDev
  /\ dev = [d \in Devs |-> "unused"]
  /\ skb = [s \in Skbs |-> "free"]
  /\ xmit = Idle
  /\ data = 0

At(l) == xmit.at = l

-----------------------------------------------------------------------------
(* The SPI bus.                                                            *)

OnBus == {d \in Devs : dev[d] = "on_bus"}

\* A device is registered under the number; a number has one device at most.
Plug(d) ==
  /\ OnBus = {}
  /\ dev[d] = "unused"
  /\ dev' = [dev EXCEPT ![d] = "on_bus"]
  /\ UNCHANGED <<netdev, my_spi_dev, skb, xmit, data>>

\* The device goes with its controller, and nobody tells the driver.
Pull(d) ==
  /\ dev[d] = "on_bus"
  /\ dev' = [dev EXCEPT ![d] = "pulled"]
  /\ UNCHANGED <<netdev, my_spi_dev, skb, xmit, data>>

-----------------------------------------------------------------------------
(* The interface.                                                          *)

\* my_netdev_init: when register_netdev fails nothing has changed.
Register ==
  /\ netdev = "out"
  /\ netdev' = "down"
  /\ UNCHANGED <<my_spi_dev, dev, skb, xmit, data>>

Open_Unchecked ==
  /\ netdev = "down"
  /\ my_spi_dev' \in IF OnBus = {} THEN {my_spi_dev} ELSE OnBus
  /\ netdev' = "up"
  /\ UNCHANGED <<dev, skb, xmit, data>>

\* my_netdev_open: the device at the number now is the driver's, whatever was
\* before.  Without one the interface stays down, if the dev_err of line 25,
\* which takes a net_device for a device, comes back.
Open ==
  /\ netdev = "down"
  /\ IF OnBus = {}
       THEN my_spi_dev' = NoDev /\ netdev' \in {"down", "stuck"}
       ELSE my_spi_dev' \in OnBus /\ netdev' = "up"
  /\ UNCHANGED <<dev, skb, xmit, data>>

\* spi_unregister_device(my_spi_dev), if there is one: it is off the bus.
\* The pointer keeps its value.
Unregistered ==
  IF my_spi_dev = NoDev THEN dev
                        ELSE [dev EXCEPT ![my_spi_dev] = "stopped"]

\* my_netdev_close.
Stop ==
  /\ netdev = "up" /\ At("idle")
  /\ dev' = Unregistered
  /\ netdev' = "down"
  /\ UNCHANGED <<my_spi_dev, skb, xmit, data>>

\* my_netdev_exit: unregister_netdev stops an interface that is up.  The
\* module's memory, and the pointer in it, are gone.
Exit ==
  /\ netdev \in {"down", "up"} /\ At("idle")
  /\ dev' = IF netdev = "up" THEN Unregistered ELSE dev
  /\ netdev' = "out"
  /\ my_spi_dev' = NoDev
  /\ UNCHANGED <<skb, xmit, data>>

-----------------------------------------------------------------------------
(* The network stack.                                                      *)

Enqueue(s) ==
  /\ skb[s] = "free"
  /\ skb' = [skb EXCEPT ![s] = "stack"]
  /\ UNCHANGED <<netdev, my_spi_dev, dev, xmit, data>>

\* The queue is flushed, or the packet leaves through another interface.
Drop(s) ==
  /\ skb[s] = "stack"
  /\ skb' = [skb EXCEPT ![s] = "free"]
  /\ UNCHANGED <<netdev, my_spi_dev, dev, xmit, data>>

\* ndo_start_xmit, which is my_netdev_rx: s is the driver's from here on.
Transmit(s) ==
  /\ netdev = "up" /\ At("idle")
  /\ skb[s] = "stack"
  /\ skb' = [skb EXCEPT ![s] = "driver"]
  /\ xmit' = [at |-> "transfer", given |-> s, new |-> NoSkb]
  /\ UNCHANGED <<netdev, my_spi_dev, dev, data>>

-----------------------------------------------------------------------------
(* my_netdev_rx.  None of its paths frees the packet it was given, and the *)
(* stack takes its return values for "taken".                              *)

\* After an error message that took a net_device for a device: the call
\* returns, or it has died in dev_err.
ReturnsOrDies ==
  xmit' = Idle \/ xmit' = [xmit EXCEPT !.at = "dead"]

\* spi_transfer finds the device by its number, not by my_spi_dev.
TransferSucceeds ==
  /\ At("transfer") /\ OnBus # {}
  /\ data' = data + 1
  /\ xmit' = [xmit EXCEPT !.at = "alloc"]
  /\ UNCHANGED <<netdev, my_spi_dev, dev, skb>>

TransferFails ==
  /\ At("transfer")
  /\ ReturnsOrDies
  /\ UNCHANGED <<netdev, my_spi_dev, dev, skb, data>>

AllocSucceeds_ReusesGiven(s) ==
  /\ At("alloc") /\ skb[s] = "free"
  /\ xmit' = [xmit EXCEPT !.at = "send", !.new = xmit.given]
  /\ UNCHANGED <<netdev, my_spi_dev, dev, skb, data>>

AllocSucceeds(s) ==
  /\ At("alloc") /\ skb[s] = "free"
  /\ skb' = [skb EXCEPT ![s] = "driver"]
  /\ xmit' = [xmit EXCEPT !.at = "send", !.new = s]
  /\ UNCHANGED <<netdev, my_spi_dev, dev, data>>

AllocFails_KeepsData ==
  /\ At("alloc")
  /\ ReturnsOrDies
  /\ UNCHANGED <<netdev, my_spi_dev, dev, skb, data>>

\* kfree(spi_data), NET_RX_DROP.
AllocFails ==
  /\ At("alloc")
  /\ data' = data - 1
  /\ ReturnsOrDies
  /\ UNCHANGED <<netdev, my_spi_dev, dev, skb>>

\* The headers are filled in, but dev_alloc_skb has left new_skb->dev null and
\* nothing sets it: dev_queue_xmit dereferences it, and the call ends there, in
\* front of its kfree and its return.
Send ==
  /\ At("send")
  /\ xmit' = [xmit EXCEPT !.at = "dead"]
  /\ UNCHANGED <<netdev, my_spi_dev, dev, skb, data>>

Handler ==
  \/ TransferSucceeds \/ TransferFails
  \/ AllocFails \/ \E s \in Skbs : AllocSucceeds(s)
  \/ Send

Next ==
  \/ Register \/ Open \/ Stop \/ Exit
  \/ \E d \in Devs : Plug(d) \/ Pull(d)
  \/ \E s \in Skbs : Enqueue(s) \/ Drop(s) \/ Transmit(s)
  \/ Handler

Spec == Init /\ [][Next]_vars

-----------------------------------------------------------------------------
(* Properties.                                                             *)

\* stop leaves its pointer at the device it has unregistered.  No later stop
\* or exit unregisters that device again: a stale pointer is replaced before
\* the interface is up, however often it goes up and down.
UpDeviceIsNotStopped ==
  netdev = "up" => my_spi_dev # NoDev /\ dev[my_spi_dev] # "stopped"

\* The buffer from spi_transfer lives from the transfer to the end of the
\* call, on both ways that end it: neither leaks it or frees it before.  The one
\* call that keeps its buffer is the one that dies with a packet of its own.
DataDiesWithItsCall ==
  data = IF At("alloc") \/ xmit.new # NoSkb THEN 1 ELSE 0

\* The packet a call makes is never the one it was given: it has the first to
\* its end, the second from the allocation on, and dev_queue_xmit is given the
\* second.
PacketsAreApart ==
  ~At("idle") =>
    /\ skb[xmit.given] = "driver"
    /\ At("send") => xmit.new # NoSkb
    /\ xmit.new # NoSkb => skb[xmit.new] = "driver" /\ xmit.new # xmit.given

\* What netSpi.c:35 says of my_netdev_close: "Release SPI device".  When the
\* interface has been stopped, and nobody has pulled the device, the device is
\* there for the next open.
StoppedDeviceIsReleased ==
  netdev = "down" /\ my_spi_dev # NoDev =>
    dev[my_spi_dev] \in {"on_bus", "pulled"}
===============================================================================
