-------------------------------- MODULE NetEth --------------------------------
(***************************************************************************)
(* net_eth.c: the receive and transmit handlers of a network driver, as    *)
(* the CPUs of a machine run them, and who owns each packet buffer (skb)   *)
(* and each kernel buffer at every step.  The network stack hands an skb   *)
(* to a handler and never looks at it again, unless the transmit handler   *)
(* returns NETDEV_TX_BUSY.                                                 *)
(***************************************************************************)
EXTENDS Naturals

CONSTANTS
  Skbs,     \* the packet buffers of the machine
  Cpus,     \* each may run one handler at a time
  Lens,     \* the packet lengths to consider
  TtlRange  \* ttl is counted modulo this (256 in the code, a u8)

EthLen == 14   \* sizeof(struct ethhdr)
IpLen  == 20   \* sizeof(struct iphdr)

ASSUME LensAssumption == Lens \subseteq Nat
ASSUME TtlAssumption  == TtlRange \in Nat \ {0}

VARIABLES
  registered,  \* the device is registered
  skb,         \* skb[s]: who has the buffer, its length and ttl
  cpu,         \* cpu[c]: the handler c runs, where it is and on which skb
  kbuf         \* the CPUs whose handler has a kernel_buffer

vars == <<registered, skb, cpu, kbuf>>

Ttls   == 0..(TtlRange - 1)
Labels == {"rx_check", "rx_parse", "rx_icmp", "rx_free", "tx_check", "tx_end"}
Idle   == [at |-> "idle"]

TypeOK ==
  /\ registered \in BOOLEAN
  /\ skb \in [Skbs -> [owner : {"free", "stack", "driver"}, len : Lens,
                       ttl : Ttls]]
  /\ cpu \in [Cpus -> {Idle} \cup [at : Labels, skb : Skbs]]
  /\ kbuf \subseteq Cpus

Init ==
  /\ registered = FALSE
  /\ skb \in [Skbs -> [owner : {"free"}, len : Lens, ttl : {0}]]
  /\ cpu = [c \in Cpus |-> Idle]
  /\ kbuf = {}

Busy(c) == cpu[c].at # "idle"

\* my_netdev_init: when netdev_register fails nothing has changed.
Register ==
  /\ ~registered
  /\ registered' = TRUE
  /\ UNCHANGED <<skb, cpu, kbuf>>

\* my_netdev_exit: the stack waits for the handlers that run.
Unregister ==
  /\ registered
  /\ \A c \in Cpus : ~Busy(c)
  /\ registered' = FALSE
  /\ UNCHANGED <<skb, cpu, kbuf>>

-----------------------------------------------------------------------------
(* The network stack.                                                      *)

\* A packet has arrived: the handler is called with an skb of its own.
Receive(c, s, n, t) ==
  /\ registered
  /\ ~Busy(c)
  /\ skb[s].owner = "free"
  /\ skb' = [skb EXCEPT ![s] = [owner |-> "driver", len |-> n, ttl |-> t]]
  /\ cpu' = [cpu EXCEPT ![c] = [at |-> "rx_check", skb |-> s]]
  /\ UNCHANGED <<registered, kbuf>>

\* A packet to send is put on the transmit queue.
Enqueue(s, n, t) ==
  /\ skb[s].owner = "free"
  /\ skb' = [skb EXCEPT ![s] = [owner |-> "stack", len |-> n, ttl |-> t]]
  /\ UNCHANGED <<registered, cpu, kbuf>>

\* The queue hands a packet to the driver.
Transmit(c, s) ==
  /\ registered
  /\ ~Busy(c)
  /\ skb[s].owner = "stack"
  /\ skb' = [skb EXCEPT ![s].owner = "driver"]
  /\ cpu' = [cpu EXCEPT ![c] = [at |-> "tx_check", skb |-> s]]
  /\ UNCHANGED <<registered, kbuf>>

\* The queue gives a packet up, when it is full or its device goes away.
Drop(s) ==
  /\ skb[s].owner = "stack"
  /\ skb' = [skb EXCEPT ![s].owner = "free"]
  /\ UNCHANGED <<registered, cpu, kbuf>>

-----------------------------------------------------------------------------
(* my_netdev_rx.                                                           *)

At(c, l)   == cpu[c].at = l
Goto(c, l) == cpu' = [cpu EXCEPT ![c].at = l]

\* dev_kfree_skb and return: c's handler gives its skb back and is done.
FreeAndReturn(c) ==
  /\ skb' = [skb EXCEPT ![cpu[c].skb].owner = "free"]
  /\ cpu' = [cpu EXCEPT ![c] = Idle]

TooShort_EthOnly(n) == n < EthLen
\* Less than the two headers that the handler reads.
TooShort(n) == n < EthLen + IpLen

RxDrop_NoFree(c) ==
  /\ At(c, "rx_check")
  /\ cpu' = [cpu EXCEPT ![c] = Idle]
  /\ UNCHANGED <<registered, skb, kbuf>>

RxDrop_GoesOn(c) ==
  /\ At(c, "rx_check")
  /\ skb' = [skb EXCEPT ![cpu[c].skb].owner = "free"]
  /\ IF TooShort(skb[cpu[c].skb].len) THEN cpu' = [cpu EXCEPT ![c] = Idle]
                                      ELSE Goto(c, "rx_parse")
  /\ UNCHANGED <<registered, kbuf>>

\* The packet is too short, or kmalloc fails: NET_RX_DROP.
RxDrop(c) ==
  /\ At(c, "rx_check")
  /\ FreeAndReturn(c)
  /\ UNCHANGED <<registered, kbuf>>

\* kernel_buffer is allocated and the packet is copied into it.
RxCopy(c) ==
  /\ At(c, "rx_check")
  /\ ~TooShort(skb[cpu[c].skb].len)
  /\ kbuf' = kbuf \cup {c}
  /\ Goto(c, "rx_parse")
  /\ UNCHANGED <<registered, skb>>

\* The handler reads in kernel_buffer.
Parsing(c) == At(c, "rx_parse") \/ At(c, "rx_icmp")

\* The protocol byte says ICMPv6: the type is read behind the two headers.
RxIcmp(c) ==
  /\ At(c, "rx_parse")
  /\ Goto(c, "rx_icmp")
  /\ UNCHANGED <<registered, skb, kbuf>>

RxParse_Returns(c) ==
  /\ Parsing(c)
  /\ FreeAndReturn(c)
  /\ UNCHANGED <<registered, kbuf>>

\* The headers in kernel_buffer have been read; kfree(kernel_buffer).
RxParse(c) ==
  /\ Parsing(c)
  /\ kbuf' = kbuf \ {c}
  /\ Goto(c, "rx_free")
  /\ UNCHANGED <<registered, skb>>

\* dev_kfree_skb(skb): NET_RX_SUCCESS.
RxFree(c) ==
  /\ At(c, "rx_free")
  /\ FreeAndReturn(c)
  /\ UNCHANGED <<registered, kbuf>>

-----------------------------------------------------------------------------
(* my_netdev_tx.                                                           *)

\* The headers are not as they should be: freed, and NETDEV_TX_OK.
TxRefuse(c) ==
  /\ At(c, "tx_check")
  /\ FreeAndReturn(c)
  /\ UNCHANGED <<registered, kbuf>>

TxEdit_NoWrap(c) ==
  /\ At(c, "tx_check")
  /\ skb' = [skb EXCEPT ![cpu[c].skb].ttl = @ + TtlRange - 1]
  /\ Goto(c, "tx_end")
  /\ UNCHANGED <<registered, kbuf>>

\* iph->ttl--, on one byte.
TxEdit(c) ==
  /\ At(c, "tx_check")
  /\ skb' = [skb EXCEPT ![cpu[c].skb].ttl = (@ + TtlRange - 1) % TtlRange]
  /\ Goto(c, "tx_end")
  /\ UNCHANGED <<registered, kbuf>>

\* The function ends here, with no return statement and with its skb still
\* allocated.  The value its caller sees is whatever the register holds: it
\* may mean that the packet was taken, or (NETDEV_TX_BUSY and anything else
\* above NET_XMIT_MASK) that the queue has to send it again.
TxEnd(c) ==
  /\ At(c, "tx_end")
  /\ \/ UNCHANGED skb
     \/ skb' = [skb EXCEPT ![cpu[c].skb].owner = "stack"]
  /\ cpu' = [cpu EXCEPT ![c] = Idle]
  /\ UNCHANGED <<registered, kbuf>>

Handler(c) ==
  \/ RxDrop(c) \/ RxCopy(c) \/ RxIcmp(c) \/ RxParse(c) \/ RxFree(c)
  \/ TxRefuse(c) \/ TxEdit(c) \/ TxEnd(c)

Next ==
  \/ Register \/ Unregister
  \/ \E c \in Cpus, s \in Skbs : Transmit(c, s)
  \/ \E c \in Cpus, s \in Skbs, n \in Lens, t \in Ttls : Receive(c, s, n, t)
  \/ \E s \in Skbs, n \in Lens, t \in Ttls : Enqueue(s, n, t)
  \/ \E s \in Skbs : Drop(s)
  \/ \E c \in Cpus : Handler(c)

Spec == Init /\ [][Next]_vars

\* A handler runs in softirq context, to its end.
FairSpec == Spec /\ \A c \in Cpus : WF_vars(Handler(c))

-----------------------------------------------------------------------------
(* Properties.                                                             *)

\* A handler works on an skb that is its own: no path frees the skb and goes
\* on using it, and no two handlers have the same one, so none frees it twice.
HandlersOwnTheirSkb ==
  \A c \in Cpus : Busy(c) =>
    /\ skb[cpu[c].skb].owner = "driver"
    /\ \A d \in Cpus : Busy(d) /\ cpu[d].skb = cpu[c].skb => c = d

\* kernel_buffer lives exactly from the copy to the kfree: no early return
\* of my_netdev_rx leaves one behind.
BufferDiesWithItsCall ==
  \A c \in Cpus : c \in kbuf <=> Parsing(c)

\* How far into the packet's copy the handler reads.
ReadEnd(c) == IF At(c, "rx_icmp") THEN EthLen + IpLen + 1 ELSE EthLen + IpLen

\* What my_netdev_rx reads lies in the packet, with one exception: the type
\* of an ICMPv6 packet that ends with its IP header is the byte behind it.
HeadersAreThere ==
  \A c \in Cpus : Parsing(c) =>
    \/ ReadEnd(c) <= skb[cpu[c].skb].len
    \/ At(c, "rx_icmp") /\ skb[cpu[c].skb].len = EthLen + IpLen

\* An skb that my_netdev_rx was given is freed, on all of its four paths.
ReceivedIsFreed ==
  \A s \in Skbs :
    (\E c \in Cpus :
       /\ cpu[c].at \in {"rx_check", "rx_parse", "rx_icmp", "rx_free"}
       /\ cpu[c].skb = s)
      ~> skb[s].owner = "free"

\* What net_eth.c:85 says of my_netdev_tx: "Free the skb".  An skb the driver
\* was given is in the hands of a handler, or it is nobody's.
EverySkbHasAnOwner ==
  \A s \in Skbs : skb[s].owner = "driver" =>
    \E c \in Cpus : Busy(c) /\ cpu[c].skb = s
===============================================================================
