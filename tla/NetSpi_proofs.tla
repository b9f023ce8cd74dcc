----------------------------- MODULE NetSpi_proofs -----------------------------
(***************************************************************************)
(* NetSpi's safety invariants, for any number of packet buffers and of     *)
(* devices that come and go.  The place of the handler decides what it     *)
(* has, and which packets it has is all that the stack must leave alone.   *)
(***************************************************************************)
EXTENDS NetSpi, TLAPS

\* A handler that runs, or has died, has a packet it was given; at the send it
\* has one of its own, before the allocation it has none.
HandlerHasItsPackets ==
  /\ ~At("idle") => xmit.given \in Skbs
  /\ At("send") => xmit.new \in Skbs
  /\ xmit.at \in {"idle", "transfer", "alloc"} => xmit.new = NoSkb

IInv ==
  /\ TypeOK
  /\ HandlerHasItsPackets
  /\ UpDeviceIsNotStopped
  /\ DataDiesWithItsCall
  /\ PacketsAreApart

LEMMA InitInv == Init => IInv
  BY DEF Init, IInv, TypeOK, HandlerHasItsPackets, UpDeviceIsNotStopped,
     DataDiesWithItsCall, PacketsAreApart, Idle, Places, At

-----------------------------------------------------------------------------
\* The bus and the interface leave the packets alone.  An open takes a device
\* that is on the bus; a stop comes with the interface going down.
LEMMA DeviceStep ==
  ASSUME IInv,
         \/ Register \/ Open \/ Stop \/ Exit
         \/ \E d \in Devs : Plug(d) \/ Pull(d)
  PROVE  IInv'
  <1> USE DEF IInv
  <1>1. UNCHANGED <<skb, xmit, data>>
    BY DEF Register, Open, Stop, Exit, Plug, Pull
  <1>2. /\ netdev' \in {"out", "down", "up", "stuck"}
        /\ my_spi_dev' \in Devs \cup {NoDev}
    BY DEF TypeOK, Register, Open, Stop, Exit, Plug, Pull, OnBus
  <1>3. dev' \in [Devs -> {"unused", "on_bus", "pulled", "stopped"}]
    BY DEF TypeOK, Register, Open, Stop, Exit, Plug, Pull, Unregistered
  <1>4. TypeOK'
    BY <1>1, <1>2, <1>3 DEF TypeOK
  <1>5. UpDeviceIsNotStopped'
    <2>1. CASE Register \/ Stop \/ Exit
      BY <2>1 DEF Register, Stop, Exit, UpDeviceIsNotStopped
    <2>2. CASE Open
      BY <2>2, NoDevAssumption DEF Open, OnBus, UpDeviceIsNotStopped
    <2>3. ASSUME NEW d \in Devs, Plug(d) \/ Pull(d) PROVE UpDeviceIsNotStopped'
      BY <2>3 DEF TypeOK, Plug, Pull, UpDeviceIsNotStopped
    <2> QED BY <2>1, <2>2, <2>3
  <1>6. HandlerHasItsPackets' /\ DataDiesWithItsCall' /\ PacketsAreApart'
    BY <1>1 DEF HandlerHasItsPackets, DataDiesWithItsCall, PacketsAreApart, At
  <1> QED BY <1>4, <1>5, <1>6

\* The stack's packets are not the handler's.
LEMMA StackStep ==
  ASSUME IInv, NEW s \in Skbs, Enqueue(s) \/ Drop(s)
  PROVE  IInv'
  <1> USE DEF IInv
  <1>1. UNCHANGED <<netdev, my_spi_dev, dev, xmit, data>>
    BY DEF Enqueue, Drop
  <1>2. TypeOK'
    BY <1>1 DEF TypeOK, Enqueue, Drop
  <1>3. \A r \in Skbs : skb[r] = "driver" => skb'[r] = "driver"
    BY DEF TypeOK, Enqueue, Drop
  <1>4. PacketsAreApart'
    BY <1>1, <1>3 DEF PacketsAreApart, HandlerHasItsPackets, TypeOK, At
  <1>5. HandlerHasItsPackets' /\ UpDeviceIsNotStopped' /\ DataDiesWithItsCall'
    BY <1>1 DEF HandlerHasItsPackets, UpDeviceIsNotStopped, DataDiesWithItsCall,
       At
  <1> QED BY <1>2, <1>4, <1>5

\* A handler begins with a packet of the stack's, and none of its own.
LEMMA TransmitStep ==
  ASSUME IInv, NEW s \in Skbs, Transmit(s)
  PROVE  IInv'
  <1> USE DEF IInv
  <1>1. /\ At("idle")
        /\ skb' = [skb EXCEPT ![s] = "driver"]
        /\ xmit' = [at |-> "transfer", given |-> s, new |-> NoSkb]
        /\ UNCHANGED <<netdev, my_spi_dev, dev, data>>
    BY DEF Transmit
  <1>2. TypeOK'
    BY <1>1 DEF TypeOK, Places
  <1>3. HandlerHasItsPackets' /\ UpDeviceIsNotStopped' /\ DataDiesWithItsCall'
    BY <1>1 DEF HandlerHasItsPackets, UpDeviceIsNotStopped, DataDiesWithItsCall,
       At
  <1>4. PacketsAreApart'
    BY <1>1 DEF TypeOK, PacketsAreApart, At
  <1> QED BY <1>2, <1>3, <1>4

-----------------------------------------------------------------------------
\* The steps that leave the packets where they are, while the handler has none
\* of its own.
LEMMA QuietStep ==
  ASSUME IInv, TransferSucceeds \/ TransferFails \/ AllocFails
  PROVE  IInv'
  <1> USE DEF IInv
  <1>1. /\ UNCHANGED <<netdev, my_spi_dev, dev, skb>>
        /\ At("transfer") \/ At("alloc")
    BY DEF TransferSucceeds, TransferFails, AllocFails
  <1>2. xmit.new = NoSkb /\ xmit.given \in Skbs /\ skb[xmit.given] = "driver"
    BY <1>1 DEF HandlerHasItsPackets, PacketsAreApart, At
  <1>3. \/ xmit' = Idle /\ ~TransferSucceeds
        \/ xmit' = [xmit EXCEPT !.at = "dead"] /\ ~TransferSucceeds
        \/ xmit' = [xmit EXCEPT !.at = "alloc"] /\ TransferSucceeds
    BY <1>1 DEF TransferSucceeds, TransferFails, AllocFails, ReturnsOrDies,
                TypeOK, Idle, At
  <1>4. /\ xmit' \in [at : Places, given : Skbs \cup {NoSkb},
                      new : Skbs \cup {NoSkb}]
        /\ xmit'.new = NoSkb
        /\ xmit'.at \in {"idle", "dead", "alloc"}
        /\ xmit'.at = "alloc" <=> TransferSucceeds
        /\ xmit'.at # "idle" => xmit'.given = xmit.given
    BY <1>2, <1>3 DEF TypeOK, Idle, Places
  <1>5. data' = IF TransferSucceeds THEN 1 ELSE 0
    <2>1. CASE TransferSucceeds
      BY <1>2, <2>1 DEF TransferSucceeds, DataDiesWithItsCall, At
    <2>2. CASE TransferFails /\ ~TransferSucceeds
      BY <1>2, <2>2 DEF TransferFails, DataDiesWithItsCall, At
    <2>3. CASE AllocFails /\ ~TransferSucceeds
      BY <1>2, <2>3 DEF AllocFails, DataDiesWithItsCall, At
    <2> QED BY <2>1, <2>2, <2>3
  <1>6. TypeOK' /\ DataDiesWithItsCall'
    BY <1>1, <1>4, <1>5 DEF TypeOK, DataDiesWithItsCall, At
  <1>7. HandlerHasItsPackets' /\ UpDeviceIsNotStopped'
    BY <1>1, <1>2, <1>4 DEF HandlerHasItsPackets, UpDeviceIsNotStopped, At
  <1>8. PacketsAreApart'
    BY <1>1, <1>2, <1>4 DEF PacketsAreApart, At
  <1> QED BY <1>6, <1>7, <1>8

\* The packet that is made was free, and is therefore not the one given.
LEMMA AllocStep ==
  ASSUME IInv, NEW s \in Skbs, AllocSucceeds(s)
  PROVE  IInv'
  <1> USE DEF IInv
  <1>1. /\ At("alloc") /\ skb[s] = "free"
        /\ skb' = [skb EXCEPT ![s] = "driver"]
        /\ xmit' = [xmit EXCEPT !.at = "send", !.new = s]
        /\ UNCHANGED <<netdev, my_spi_dev, dev, data>>
    BY DEF AllocSucceeds
  <1>2. /\ xmit' \in [at : Places, given : Skbs \cup {NoSkb},
                      new : Skbs \cup {NoSkb}]
        /\ xmit'.at = "send" /\ xmit'.new = s /\ xmit'.given = xmit.given
    BY <1>1 DEF TypeOK, Places
  <1>3. xmit.given \in Skbs /\ skb[xmit.given] = "driver"
    BY <1>1 DEF HandlerHasItsPackets, PacketsAreApart, At
  <1>4. TypeOK'
    BY <1>1, <1>2 DEF TypeOK
  <1>5. HandlerHasItsPackets' /\ UpDeviceIsNotStopped' /\ DataDiesWithItsCall'
    BY <1>1, <1>2, <1>3, NoSkbAssumption
    DEF HandlerHasItsPackets, UpDeviceIsNotStopped, DataDiesWithItsCall, At
  <1>6. PacketsAreApart'
    BY <1>1, <1>2, <1>3, NoSkbAssumption DEF TypeOK, PacketsAreApart, At
  <1> QED BY <1>4, <1>5, <1>6

\* The send dies with both packets and with the buffer.
LEMMA SendStep ==
  ASSUME IInv, Send
  PROVE  IInv'
  <1> USE DEF IInv
  <1>1. /\ At("send")
        /\ xmit' = [xmit EXCEPT !.at = "dead"]
        /\ UNCHANGED <<netdev, my_spi_dev, dev, skb, data>>
    BY DEF Send
  <1>2. /\ xmit' \in [at : Places, given : Skbs \cup {NoSkb},
                      new : Skbs \cup {NoSkb}]
        /\ xmit'.at = "dead"
        /\ xmit'.new = xmit.new /\ xmit'.given = xmit.given
    BY <1>1 DEF TypeOK, Places
  <1>3. TypeOK'
    BY <1>1, <1>2 DEF TypeOK
  <1>4. HandlerHasItsPackets' /\ UpDeviceIsNotStopped' /\ DataDiesWithItsCall'
    BY <1>1, <1>2 DEF HandlerHasItsPackets, UpDeviceIsNotStopped,
       DataDiesWithItsCall, At
  <1>5. PacketsAreApart'
    BY <1>1, <1>2 DEF PacketsAreApart, At
  <1> QED BY <1>3, <1>4, <1>5

LEMMA NextInv == IInv /\ [Next]_vars => IInv'
  <1> SUFFICES ASSUME IInv, [Next]_vars PROVE IInv'
    OBVIOUS
  <1>1. CASE UNCHANGED vars
    BY <1>1 DEF vars, IInv, TypeOK, HandlerHasItsPackets, UpDeviceIsNotStopped,
       DataDiesWithItsCall, PacketsAreApart, At
  <1>2. CASE Handler
    BY <1>2, QuietStep, AllocStep, SendStep DEF Handler
  <1> QED BY <1>1, <1>2, DeviceStep, StackStep, TransmitStep DEF Next

LEMMA Inductive == Spec => []IInv
  BY InitInv, NextInv, PTL DEF Spec

\* The SPI network driver keeps its types.
THEOREM NetSpiTypeCorrect == Spec => []TypeOK
  BY Inductive, PTL DEF IInv

\* An interface that is up names a device that no stop has unregistered.
THEOREM NetSpiDeviceSafe == Spec => []UpDeviceIsNotStopped
  BY Inductive, PTL DEF IInv

\* No way out of my_netdev_rx leaks the buffer from spi_transfer: what keeps it
\* is the call that never comes out.
THEOREM NetSpiDataFreed == Spec => []DataDiesWithItsCall
  BY Inductive, PTL DEF IInv

\* The packet that is made and sent is never the packet the handler was given.
THEOREM NetSpiPacketsApart == Spec => []PacketsAreApart
  BY Inductive, PTL DEF IInv

-----------------------------------------------------------------------------
(* Which packets are lost.                                                 *)

\* A call of the handler is under way, and has not died.
Running == ~At("idle") /\ ~At("dead")

\* The driver has s, and no call that runs does.
Lost(s) ==
  /\ skb[s] = "driver"
  /\ ~Running \/ s \notin {xmit.given, xmit.new}

\* However a call of the handler ends, it loses the packet it was given, and the
\* one it has made if it has got so far.
PacketsAreLost ==
  [][\A s \in Skbs :
       Running /\ s \in {xmit.given, xmit.new} /\ ~Running' => Lost(s)']_vars

\* Nothing brings such a packet back.
LossIsFinal == [][\A s \in Skbs : Lost(s) => Lost(s)']_vars

LEMMA LossStep ==
  ASSUME IInv, [Next]_vars, NEW s \in Skbs
  PROVE  /\ Running /\ s \in {xmit.given, xmit.new} /\ ~Running' => Lost(s)'
         /\ Lost(s) => Lost(s)'
  <1> USE NoSkbAssumption
          DEF IInv, TypeOK, HandlerHasItsPackets, PacketsAreApart, Lost,
              Running, At
  <1>1. CASE \/ Register \/ Open \/ Stop \/ Exit \/ UNCHANGED vars
             \/ \E d \in Devs : Plug(d) \/ Pull(d)
    <2>1. UNCHANGED <<skb, xmit>>
      BY <1>1 DEF Register, Open, Stop, Exit, Plug, Pull, vars
    <2> QED BY <2>1
  <1>2. ASSUME NEW r \in Skbs, Enqueue(r) \/ Drop(r)
        PROVE  /\ UNCHANGED xmit
               /\ skb[s] = "driver" <=> skb'[s] = "driver"
    BY <1>2 DEF Enqueue, Drop
  <1>3. CASE \E r \in Skbs : Enqueue(r) \/ Drop(r)
    BY <1>2, <1>3
  <1>4. ASSUME NEW r \in Skbs, Transmit(r)
        PROVE  /\ At("idle") /\ Running'
               /\ xmit'.given = r /\ xmit'.new = NoSkb
               /\ skb[r] = "stack"
               /\ skb' = [skb EXCEPT ![r] = "driver"]
    BY <1>4 DEF Transmit
  <1>5. CASE \E r \in Skbs : Transmit(r)
    BY <1>4, <1>5
  <1>6. CASE TransferSucceeds
    <2>1. /\ UNCHANGED skb /\ Running /\ Running'
          /\ xmit'.given = xmit.given /\ xmit'.new = xmit.new
      BY <1>6 DEF TransferSucceeds
    <2> QED BY <2>1
  <1>7. CASE TransferFails \/ AllocFails
    <2>1. /\ UNCHANGED skb /\ Running /\ ~Running'
          /\ xmit.new = NoSkb /\ skb[xmit.given] = "driver"
      BY <1>7 DEF TransferFails, AllocFails, ReturnsOrDies, Idle
    <2> QED BY <2>1
  <1>8. ASSUME NEW r \in Skbs, AllocSucceeds(r)
        PROVE  /\ Running /\ Running'
               /\ xmit'.given = xmit.given /\ xmit'.new = r
               /\ xmit.new = NoSkb
               /\ skb[r] = "free"
               /\ skb' = [skb EXCEPT ![r] = "driver"]
    BY <1>8 DEF AllocSucceeds
  <1>9. CASE \E r \in Skbs : AllocSucceeds(r)
    BY <1>8, <1>9
  <1>10. CASE Send
    <2>1. /\ UNCHANGED skb /\ Running /\ ~Running'
          /\ xmit.new \in Skbs /\ skb[xmit.new] = "driver"
          /\ skb[xmit.given] = "driver"
      BY <1>10 DEF Send
    <2> QED BY <2>1
  <1> QED
    BY <1>1, <1>3, <1>5, <1>6, <1>7, <1>9, <1>10 DEF Next, Handler

\* The packets the stack gives to my_netdev_rx are all lost there, after a
\* failed transfer and a failed allocation, and with them the packet that the
\* handler makes: its dev_queue_xmit faults, so that none of them is ever sent.
THEOREM NetSpiPacketsLost == Spec => PacketsAreLost
  <1> DEFINE A == \A s \in Skbs :
        Running /\ s \in {xmit.given, xmit.new} /\ ~Running' => Lost(s)'
  <1>1. IInv /\ [Next]_vars => A
    BY LossStep
  <1> QED BY <1>1, Inductive, PTL DEF Spec, PacketsAreLost

\* Such a packet stays lost, across stops, exits and reloads.
THEOREM NetSpiLossIsFinal == Spec => LossIsFinal
  <1> DEFINE A == \A s \in Skbs : Lost(s) => Lost(s)'
  <1>1. IInv /\ [Next]_vars => A
    BY LossStep
  <1> QED BY <1>1, Inductive, PTL DEF Spec, LossIsFinal
===============================================================================
