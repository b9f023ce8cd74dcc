----------------------------- MODULE NetEth_proofs -----------------------------
(***************************************************************************)
(* NetEth's safety invariants, for any number of packet buffers and CPUs,  *)
(* any packet lengths and any range of the ttl.  Their conjunction is      *)
(* inductive: that a handler still owns its skb after a step of another    *)
(* one needs the exclusion, the headers stay readable because nobody but   *)
(* its owner touches an skb, and the buffer is tied to the handler's place.*)
(***************************************************************************)
EXTENDS NetEth, TLAPS

IInv ==
  /\ TypeOK
  /\ HandlersOwnTheirSkb
  /\ BufferDiesWithItsCall
  /\ HeadersAreThere

\* A handler that runs is at one of the labels, with an skb of the machine.
LEMMA BusyRecord ==
  ASSUME TypeOK, NEW c \in Cpus, Busy(c)
  PROVE  cpu[c] \in [at : Labels, skb : Skbs]
  BY DEF TypeOK, Busy, Idle

\* The labels are not "idle": moving on inside a handler keeps it busy.
LEMMA GotoBusy ==
  ASSUME TypeOK, NEW c \in Cpus, Busy(c), NEW l \in Labels, Goto(c, l)
  PROVE  /\ cpu' \in [Cpus -> {Idle} \cup [at : Labels, skb : Skbs]]
         /\ cpu'[c].at = l
         /\ cpu'[c].skb = cpu[c].skb
         /\ \A d \in Cpus : d # c => cpu'[d] = cpu[d]
  <1>1. cpu[c] \in [at : Labels, skb : Skbs]
    BY BusyRecord
  <1>2. cpu' = [cpu EXCEPT ![c] = [cpu[c] EXCEPT !.at = l]]
    BY DEF Goto
  <1>3. [cpu[c] EXCEPT !.at = l] \in [at : Labels, skb : Skbs]
    BY <1>1
  <1> QED
    BY <1>1, <1>2, <1>3 DEF TypeOK

-----------------------------------------------------------------------------
LEMMA InitInv == Init => IInv
  <1> SUFFICES ASSUME Init PROVE IInv
    OBVIOUS
  <1>1. \A c \in Cpus : cpu[c] = Idle
    BY DEF Init
  <1>2. \A c \in Cpus : ~Busy(c) /\ ~Parsing(c)
    BY <1>1 DEF Busy, Parsing, At, Idle
  <1>3. 0 \in Ttls
    BY TtlAssumption DEF Ttls
  <1>4. TypeOK
    BY <1>3 DEF Init, TypeOK
  <1> QED
    BY <1>2, <1>4 DEF Init, IInv, HandlersOwnTheirSkb, BufferDiesWithItsCall,
       HeadersAreThere

\* The device is registered or not: no handler and no skb is concerned.
LEMMA RegistrationStep ==
  ASSUME IInv, Register \/ Unregister
  PROVE  IInv'
  BY DEF IInv, TypeOK, HandlersOwnTheirSkb, BufferDiesWithItsCall,
     HeadersAreThere, Parsing, ReadEnd, Register, Unregister, Busy, At

\* A packet on the queue is in no handler's hands.
LEMMA QueueStep ==
  ASSUME IInv, NEW s \in Skbs, NEW n \in Lens, NEW t \in Ttls,
         Enqueue(s, n, t) \/ Drop(s)
  PROVE  IInv'
  <1> USE DEF IInv
  <1>1. \A c \in Cpus : Busy(c) => cpu[c].skb # s
    BY DEF HandlersOwnTheirSkb, Enqueue, Drop
  <1>2. \A r \in Skbs : r # s => skb'[r] = skb[r]
    BY DEF TypeOK, Enqueue, Drop
  <1>3. UNCHANGED <<registered, cpu, kbuf>>
    BY DEF Enqueue, Drop
  <1>4. skb' \in [Skbs -> [owner : {"free", "stack", "driver"}, len : Lens,
                           ttl : Ttls]]
    <2>1. CASE Enqueue(s, n, t)
      BY <2>1 DEF Enqueue, TypeOK
    <2>2. CASE Drop(s)
      <3>1. [skb[s] EXCEPT !.owner = "free"]
              \in [owner : {"free", "stack", "driver"}, len : Lens, ttl : Ttls]
        BY DEF TypeOK
      <3> QED
        BY <2>2, <3>1 DEF Drop, TypeOK
    <2> QED BY <2>1, <2>2
  <1>5. TypeOK'
    BY <1>3, <1>4 DEF TypeOK
  <1>6. \A c \in Cpus : Busy(c) => cpu[c].skb \in Skbs
    BY BusyRecord
  <1>7. HandlersOwnTheirSkb'
    BY <1>1, <1>2, <1>3, <1>6 DEF HandlersOwnTheirSkb, Busy
  <1>8. BufferDiesWithItsCall'
    BY <1>3 DEF BufferDiesWithItsCall, Parsing, At
  <1>9. HeadersAreThere'
    BY <1>1, <1>2, <1>3, <1>6 DEF HeadersAreThere, Parsing, ReadEnd, At, Busy
  <1> QED BY <1>5, <1>7, <1>8, <1>9

\* A handler begins with an skb that no other handler has.
LEMMA StartStep ==
  ASSUME IInv, NEW c \in Cpus, NEW s \in Skbs, NEW n \in Lens, NEW t \in Ttls,
         Receive(c, s, n, t) \/ Transmit(c, s)
  PROVE  IInv'
  <1> USE DEF IInv
  <1>1. \A d \in Cpus : Busy(d) => cpu[d].skb # s /\ d # c
    BY DEF HandlersOwnTheirSkb, Receive, Transmit
  <1>2. \A r \in Skbs : r # s => skb'[r] = skb[r]
    BY DEF TypeOK, Receive, Transmit
  <1>3. /\ skb' \in [Skbs -> [owner : {"free", "stack", "driver"}, len : Lens,
                              ttl : Ttls]]
        /\ skb'[s].owner = "driver"
    <2>1. CASE Receive(c, s, n, t)
      BY <2>1 DEF Receive, TypeOK
    <2>2. CASE Transmit(c, s)
      <3>1. [skb[s] EXCEPT !.owner = "driver"]
              \in [owner : {"free", "stack", "driver"}, len : Lens, ttl : Ttls]
        BY DEF TypeOK
      <3>2. skb' = [skb EXCEPT ![s] = [skb[s] EXCEPT !.owner = "driver"]]
        BY <2>2 DEF Transmit
      <3> QED
        BY <3>1, <3>2 DEF TypeOK
    <2> QED BY <2>1, <2>2
  <1>4. \E l \in {"rx_check", "tx_check"} :
          cpu' = [cpu EXCEPT ![c] = [at |-> l, skb |-> s]]
    BY DEF Receive, Transmit
  <1>5. /\ cpu' \in [Cpus -> {Idle} \cup [at : Labels, skb : Skbs]]
        /\ cpu'[c].skb = s
        /\ cpu'[c].at \in {"rx_check", "tx_check"}
        /\ \A d \in Cpus : d # c => cpu'[d] = cpu[d]
    BY <1>4 DEF TypeOK, Labels
  <1>6. UNCHANGED <<registered, kbuf>> /\ ~Busy(c)
    BY DEF Receive, Transmit
  <1>7. \A d \in Cpus : Busy(d) => cpu[d].skb \in Skbs
    BY BusyRecord
  <1>8. TypeOK'
    BY <1>3, <1>5, <1>6 DEF TypeOK
  <1>9. HandlersOwnTheirSkb'
    BY <1>1, <1>2, <1>3, <1>5, <1>7 DEF HandlersOwnTheirSkb, Busy
  <1>10. BufferDiesWithItsCall'
    BY <1>5, <1>6 DEF BufferDiesWithItsCall, Parsing, At, Busy
  <1>11. HeadersAreThere'
    BY <1>1, <1>2, <1>5, <1>7 DEF HeadersAreThere, Parsing, ReadEnd, At, Busy
  <1> QED BY <1>8, <1>9, <1>10, <1>11

-----------------------------------------------------------------------------
\* A handler that is done: its skb is no longer used, by it or by others.
LEMMA FinishStep ==
  ASSUME IInv, NEW c \in Cpus, RxDrop(c) \/ RxFree(c) \/ TxRefuse(c) \/ TxEnd(c)
  PROVE  IInv'
  <1> DEFINE s == cpu[c].skb
  <1> USE DEF IInv
  <1>1. Busy(c) /\ ~Parsing(c)
    BY DEF RxDrop, RxFree, TxRefuse, TxEnd, Parsing, At, Busy
  <1>2. s \in Skbs
    BY <1>1, BusyRecord
  <1>3. cpu' = [cpu EXCEPT ![c] = Idle] /\ UNCHANGED <<registered, kbuf>>
    BY DEF RxDrop, RxFree, TxRefuse, TxEnd, FreeAndReturn
  <1>4. skb' = skb \/ \E o \in {"free", "stack"} :
          skb' = [skb EXCEPT ![s] = [skb[s] EXCEPT !.owner = o]]
    BY DEF RxDrop, RxFree, TxRefuse, TxEnd, FreeAndReturn
  <1>5. \A r \in Skbs : r # s => skb'[r] = skb[r]
    BY <1>4 DEF TypeOK
  <1>6. \A o \in {"free", "stack"} : [skb[s] EXCEPT !.owner = o]
          \in [owner : {"free", "stack", "driver"}, len : Lens, ttl : Ttls]
    BY <1>2 DEF TypeOK
  <1>7. TypeOK'
    BY <1>2, <1>3, <1>4, <1>6 DEF TypeOK
  <1>8. cpu'[c] = Idle /\ \A d \in Cpus : d # c => cpu'[d] = cpu[d]
    BY <1>3 DEF TypeOK
  <1>9. \A d \in Cpus : Busy(d) => cpu[d].skb \in Skbs
    BY BusyRecord
  <1>10. \A d \in Cpus : d # c /\ Busy(d) => cpu[d].skb # s
    BY <1>1 DEF HandlersOwnTheirSkb
  <1>11. HandlersOwnTheirSkb'
    BY <1>5, <1>8, <1>9, <1>10 DEF HandlersOwnTheirSkb, Busy, Idle
  <1>12. BufferDiesWithItsCall'
    BY <1>1, <1>3, <1>8 DEF BufferDiesWithItsCall, Parsing, At, Idle
  <1>13. HeadersAreThere'
    BY <1>5, <1>8, <1>9, <1>10 DEF HeadersAreThere, Parsing, ReadEnd, At,
       Busy, Idle
  <1> QED BY <1>7, <1>11, <1>12, <1>13

\* The packet has been found long enough when it is copied.
LEMMA RxCopyStep ==
  ASSUME IInv, NEW c \in Cpus, RxCopy(c)
  PROVE  IInv'
  <1> USE DEF IInv
  <1>1. Busy(c) /\ At(c, "rx_check") /\ ~TooShort(skb[cpu[c].skb].len)
    BY DEF RxCopy, At, Busy
  <1>2. /\ cpu' \in [Cpus -> {Idle} \cup [at : Labels, skb : Skbs]]
        /\ cpu'[c].at = "rx_parse"
        /\ cpu'[c].skb = cpu[c].skb
        /\ \A d \in Cpus : d # c => cpu'[d] = cpu[d]
    BY <1>1, GotoBusy DEF RxCopy, Labels
  <1>3. UNCHANGED <<registered, skb>> /\ kbuf' = kbuf \cup {c}
    BY DEF RxCopy
  <1>4. skb[cpu[c].skb].len \in Nat
    <2>1. cpu[c].skb \in Skbs
      BY <1>1, BusyRecord
    <2> QED BY <2>1, LensAssumption DEF TypeOK
  <1>5. TypeOK'
    BY <1>2, <1>3 DEF TypeOK
  <1>6. HandlersOwnTheirSkb'
    BY <1>1, <1>2, <1>3 DEF HandlersOwnTheirSkb, Busy
  <1>7. BufferDiesWithItsCall'
    BY <1>2, <1>3 DEF BufferDiesWithItsCall, Parsing, At
  <1>8. HeadersAreThere'
    BY <1>1, <1>2, <1>3, <1>4 DEF HeadersAreThere, Parsing, ReadEnd, At,
       TooShort, EthLen, IpLen
  <1> QED BY <1>5, <1>6, <1>7, <1>8

\* The packet is ICMPv6: one byte more is read, and the lengths are whole
\* numbers.
LEMMA RxIcmpStep ==
  ASSUME IInv, NEW c \in Cpus, RxIcmp(c)
  PROVE  IInv'
  <1> USE DEF IInv
  <1>1. Busy(c) /\ At(c, "rx_parse") /\ c \in kbuf
    BY DEF RxIcmp, At, Busy, BufferDiesWithItsCall, Parsing
  <1>2. /\ cpu' \in [Cpus -> {Idle} \cup [at : Labels, skb : Skbs]]
        /\ cpu'[c].at = "rx_icmp"
        /\ cpu'[c].skb = cpu[c].skb
        /\ \A d \in Cpus : d # c => cpu'[d] = cpu[d]
    BY <1>1, GotoBusy DEF RxIcmp, Labels
  <1>3. UNCHANGED <<registered, skb, kbuf>>
    BY DEF RxIcmp
  <1>4. skb[cpu[c].skb].len \in Nat
    <2>1. cpu[c].skb \in Skbs
      BY <1>1, BusyRecord
    <2> QED BY <2>1, LensAssumption DEF TypeOK
  <1>5. TypeOK'
    BY <1>2, <1>3 DEF TypeOK
  <1>6. HandlersOwnTheirSkb'
    BY <1>1, <1>2, <1>3 DEF HandlersOwnTheirSkb, Busy
  <1>7. BufferDiesWithItsCall'
    BY <1>1, <1>2, <1>3 DEF BufferDiesWithItsCall, Parsing, At
  <1>8. skb[cpu[c].skb].len >= EthLen + IpLen
    BY <1>1, <1>4 DEF HeadersAreThere, Parsing, ReadEnd, At, EthLen, IpLen
  <1>9. HeadersAreThere'
    BY <1>2, <1>3, <1>4, <1>8
       DEF HeadersAreThere, Parsing, ReadEnd, At, EthLen, IpLen
  <1> QED BY <1>5, <1>6, <1>7, <1>9

\* kfree, on the way out.
LEMMA RxParseStep ==
  ASSUME IInv, NEW c \in Cpus, RxParse(c)
  PROVE  IInv'
  <1> USE DEF IInv
  <1>1. Busy(c)
    BY DEF RxParse, Parsing, At, Busy
  <1>2. /\ cpu' \in [Cpus -> {Idle} \cup [at : Labels, skb : Skbs]]
        /\ cpu'[c].at = "rx_free"
        /\ cpu'[c].skb = cpu[c].skb
        /\ \A d \in Cpus : d # c => cpu'[d] = cpu[d]
    BY <1>1, GotoBusy DEF RxParse, Labels
  <1>3. UNCHANGED <<registered, skb>> /\ kbuf' = kbuf \ {c}
    BY DEF RxParse
  <1>4. TypeOK'
    BY <1>2, <1>3 DEF TypeOK
  <1>5. HandlersOwnTheirSkb'
    BY <1>1, <1>2, <1>3 DEF HandlersOwnTheirSkb, Busy
  <1>6. BufferDiesWithItsCall'
    BY <1>2, <1>3 DEF BufferDiesWithItsCall, Parsing, At
  <1>7. HeadersAreThere'
    BY <1>2, <1>3 DEF HeadersAreThere, Parsing, ReadEnd, At
  <1> QED BY <1>4, <1>5, <1>6, <1>7

\* The new ttl is one again, and nothing else of the skb has changed.
LEMMA TxEditStep ==
  ASSUME IInv, NEW c \in Cpus, TxEdit(c)
  PROVE  IInv'
  <1> DEFINE s == cpu[c].skb
  <1> DEFINE t == (skb[s].ttl + TtlRange - 1) % TtlRange
  <1> USE DEF IInv
  <1>1. Busy(c)
    BY DEF TxEdit, At, Busy
  <1>2. s \in Skbs
    BY <1>1, BusyRecord
  <1>3. /\ cpu' \in [Cpus -> {Idle} \cup [at : Labels, skb : Skbs]]
        /\ cpu'[c].at = "tx_end"
        /\ cpu'[c].skb = s
        /\ \A d \in Cpus : d # c => cpu'[d] = cpu[d]
    BY <1>1, GotoBusy DEF TxEdit, Labels
  <1>4. t \in Ttls
    <2>1. skb[s].ttl \in 0..(TtlRange - 1)
      BY <1>2 DEF TypeOK, Ttls
    <2>2. skb[s].ttl + TtlRange - 1 \in Nat
      BY <2>1, TtlAssumption
    <2> QED BY <2>2, TtlAssumption DEF Ttls
  <1> HIDE DEF t
  <1>5. skb' = [skb EXCEPT ![s] = [skb[s] EXCEPT !.ttl = t]]
    BY DEF TxEdit, t
  <1>6. [skb[s] EXCEPT !.ttl = t]
          \in [owner : {"free", "stack", "driver"}, len : Lens, ttl : Ttls]
    BY <1>2, <1>4 DEF TypeOK
  <1>7. \A r \in Skbs : skb'[r].owner = skb[r].owner /\ skb'[r].len = skb[r].len
    BY <1>2, <1>5 DEF TypeOK
  <1>8. UNCHANGED <<registered, kbuf>>
    BY DEF TxEdit
  <1>9. TypeOK'
    BY <1>2, <1>3, <1>5, <1>6, <1>8 DEF TypeOK
  <1>10. \A d \in Cpus : Busy(d) => cpu[d].skb \in Skbs
    BY BusyRecord
  <1>11. HandlersOwnTheirSkb'
    BY <1>1, <1>3, <1>7, <1>10 DEF HandlersOwnTheirSkb, Busy
  <1>12. BufferDiesWithItsCall'
    <2>1. At(c, "tx_check")
      BY DEF TxEdit
    <2> QED BY <2>1, <1>3, <1>8 DEF BufferDiesWithItsCall, Parsing, At
  <1>13. HeadersAreThere'
    BY <1>3, <1>7, <1>10 DEF HeadersAreThere, Parsing, ReadEnd, At, Busy
  <1> QED BY <1>9, <1>11, <1>12, <1>13

-----------------------------------------------------------------------------
LEMMA NextInv == IInv /\ [Next]_vars => IInv'
  <1> SUFFICES ASSUME IInv, [Next]_vars PROVE IInv'
    OBVIOUS
  <1>1. CASE Register \/ Unregister
    BY <1>1, RegistrationStep
  <1>2. ASSUME NEW c \in Cpus, NEW s \in Skbs, Transmit(c, s) PROVE IInv'
    <2>1. PICK n \in Lens, t \in Ttls : TRUE
      BY DEF IInv, TypeOK
    <2> QED BY <1>2, <2>1, StartStep
  <1>3. ASSUME NEW c \in Cpus, NEW s \in Skbs, NEW n \in Lens, NEW t \in Ttls,
               Receive(c, s, n, t)
        PROVE  IInv'
    BY <1>3, StartStep
  <1>4. ASSUME NEW s \in Skbs, NEW n \in Lens, NEW t \in Ttls, Enqueue(s, n, t)
        PROVE  IInv'
    BY <1>4, QueueStep
  <1>5. ASSUME NEW s \in Skbs, Drop(s) PROVE IInv'
    <2>1. PICK n \in Lens, t \in Ttls : TRUE
      BY DEF IInv, TypeOK
    <2> QED BY <1>5, <2>1, QueueStep
  <1>6. ASSUME NEW c \in Cpus, Handler(c) PROVE IInv'
    BY <1>6, FinishStep, RxCopyStep, RxIcmpStep, RxParseStep, TxEditStep
       DEF Handler
  <1>7. CASE UNCHANGED vars
    BY <1>7 DEF vars, IInv, TypeOK, HandlersOwnTheirSkb, BufferDiesWithItsCall,
       HeadersAreThere, Parsing, ReadEnd, Busy, At
  <1> QED
    BY <1>1, <1>2, <1>3, <1>4, <1>5, <1>6, <1>7 DEF Next

LEMMA Inductive == Spec => []IInv
  BY InitInv, NextInv, PTL DEF Spec

\* The network driver keeps its types: the ttl stays in its byte, and a
\* handler that runs always has an skb.
THEOREM NetEthTypeCorrect == Spec => []TypeOK
  BY Inductive, PTL DEF IInv

\* my_netdev_rx and my_netdev_tx never touch an skb they have freed, and
\* never free one twice, whatever the other CPUs do.
THEOREM NetEthSkbOwned == Spec => []HandlersOwnTheirSkb
  BY Inductive, PTL DEF IInv

\* No path through my_netdev_rx leaks kernel_buffer.
THEOREM NetEthBufferFreed == Spec => []BufferDiesWithItsCall
  BY Inductive, PTL DEF IInv

\* my_netdev_rx reads nothing beyond the end of the packet it copied, except
\* for the type of an ICMPv6 packet that ends with its IP header.
THEOREM NetEthHeadersThere == Spec => []HeadersAreThere
  BY Inductive, PTL DEF IInv

-----------------------------------------------------------------------------
(* Which skbs are lost, and where: the safety behind the liveness property *)
(* that my_netdev_rx frees what it is given, and the extent of the leak in *)
(* my_netdev_tx.                                                           *)

RxLabels == {"rx_check", "rx_parse", "rx_icmp", "rx_free"}

\* The driver was given s, and no handler has it any more.
Lost(s) ==
  /\ skb[s].owner = "driver"
  /\ \A c \in Cpus : Busy(c) => cpu[c].skb # s

\* A call of my_netdev_rx ends only by freeing its own skb.
RxEndsByFreeing ==
  [][\A c \in Cpus : cpu[c].at \in RxLabels =>
       \/ cpu'[c].at \in RxLabels /\ cpu'[c].skb = cpu[c].skb
       \/ ~Busy(c)' /\ skb'[cpu[c].skb].owner = "free"]_vars

\* The end of my_netdev_tx is the only place that loses an skb.
OnlyTxEndLoses ==
  [][\A s \in Skbs : Lost(s)' =>
       Lost(s) \/ \E c \in Cpus : At(c, "tx_end") /\ cpu[c].skb = s]_vars

\* What it has lost nobody finds again.
LossIsFinal == [][\A s \in Skbs : Lost(s) => Lost(s)']_vars

\* A step of a handler either moves it on with its skb, or ends it, and then
\* the skb is free unless the handler was at the end of my_netdev_tx.
LEMMA HandlerMoves ==
  ASSUME IInv, NEW c \in Cpus, Handler(c)
  PROVE  /\ Busy(c)
         /\ \A d \in Cpus : d # c => cpu'[d] = cpu[d]
         /\ \A r \in Skbs : r # cpu[c].skb => skb'[r] = skb[r]
         /\ \/ /\ Busy(c)' /\ cpu'[c].skb = cpu[c].skb
               /\ skb'[cpu[c].skb].owner = skb[cpu[c].skb].owner
               /\ cpu[c].at \in RxLabels <=> cpu'[c].at \in RxLabels
            \/ ~Busy(c)' /\ skb'[cpu[c].skb].owner = "free"
            \/ ~Busy(c)' /\ At(c, "tx_end")
  <1> DEFINE s == cpu[c].skb
  <1>1. Busy(c) /\ TypeOK
    BY DEF IInv, Handler, RxDrop, RxCopy, RxIcmp, RxParse, RxFree, TxRefuse,
       TxEdit, TxEnd, Parsing, At, Busy
  <1>2. s \in Skbs
    BY <1>1, BusyRecord
  <1>3. CASE RxDrop(c) \/ RxFree(c) \/ TxRefuse(c)
    <2>1. /\ cpu' = [cpu EXCEPT ![c] = Idle]
          /\ skb' = [skb EXCEPT ![s] = [skb[s] EXCEPT !.owner = "free"]]
      BY <1>3 DEF RxDrop, RxFree, TxRefuse, FreeAndReturn
    <2>2. [skb[s] EXCEPT !.owner = "free"].owner = "free"
      BY <1>1, <1>2 DEF TypeOK
    <2>3. ~Busy(c)'
      BY <1>1, <2>1 DEF TypeOK, Busy, Idle
    <2> QED BY <1>1, <1>2, <2>1, <2>2, <2>3 DEF TypeOK
  <1>4. CASE TxEnd(c)
    <2>1. cpu' = [cpu EXCEPT ![c] = Idle] /\ At(c, "tx_end")
      BY <1>4 DEF TxEnd
    <2>2. ~Busy(c)'
      BY <1>1, <2>1 DEF TypeOK, Busy, Idle
    <2>3. \A r \in Skbs : r # s => skb'[r] = skb[r]
      BY <1>1, <1>4 DEF TypeOK, TxEnd
    <2> QED BY <1>1, <2>1, <2>2, <2>3 DEF TypeOK
  <1>5. CASE RxCopy(c) \/ RxIcmp(c) \/ RxParse(c)
    <2>1. PICK l \in RxLabels : Goto(c, l) /\ cpu[c].at \in RxLabels
      BY <1>5 DEF RxCopy, RxIcmp, RxParse, Parsing, At, RxLabels
    <2>2. skb' = skb /\ l \in Labels /\ l # "idle"
      BY <1>5, <2>1 DEF RxCopy, RxIcmp, RxParse, RxLabels, Labels
    <2>3. /\ cpu'[c].at = l /\ cpu'[c].skb = s
          /\ \A d \in Cpus : d # c => cpu'[d] = cpu[d]
      BY <1>1, <2>1, <2>2, GotoBusy
    <2> QED BY <1>1, <2>1, <2>2, <2>3 DEF Busy
  <1>6. CASE TxEdit(c)
    <2>1. Goto(c, "tx_end") /\ "tx_end" \in Labels
      BY <1>6 DEF TxEdit, Labels
    <2>2. /\ cpu'[c].at = "tx_end" /\ cpu'[c].skb = s
          /\ \A d \in Cpus : d # c => cpu'[d] = cpu[d]
      BY <1>1, <2>1, GotoBusy
    <2>3. PICK t : skb' = [skb EXCEPT ![s] = [skb[s] EXCEPT !.ttl = t]]
      BY <1>6 DEF TxEdit
    <2>4. [skb[s] EXCEPT !.ttl = t].owner = skb[s].owner
      BY <1>1, <1>2 DEF TypeOK
    <2>5. /\ skb'[s].owner = skb[s].owner
          /\ \A r \in Skbs : r # s => skb'[r] = skb[r]
      BY <1>1, <1>2, <2>3, <2>4 DEF TypeOK
    <2>6. cpu[c].at \notin RxLabels /\ cpu'[c].at \notin RxLabels
      BY <1>6, <2>2 DEF TxEdit, At, RxLabels
    <2> QED BY <1>1, <2>2, <2>5, <2>6 DEF Busy
  <1> QED BY <1>3, <1>4, <1>5, <1>6 DEF Handler

\* The stack starts a handler only where none runs and with an skb that the
\* driver has not got, and it touches no skb that the driver has.
LEMMA StackMoves ==
  ASSUME IInv, [Next]_vars, \A c \in Cpus : ~Handler(c)
  PROVE  /\ \A c \in Cpus : Busy(c) => cpu'[c] = cpu[c]
         /\ \A s \in Skbs : skb[s].owner = "driver" => skb'[s] = skb[s]
         /\ \A s \in Skbs : skb[s].owner # "driver" =>
              \/ skb'[s].owner # "driver"
              \/ \E c \in Cpus : Busy(c)' /\ cpu'[c].skb = s
         /\ \A c \in Cpus : Busy(c)' /\ ~Busy(c) =>
              skb[cpu'[c].skb].owner # "driver"
  <1> USE DEF IInv
  <1>1. ASSUME NEW c \in Cpus, NEW s \in Skbs,
               Transmit(c, s) \/ \E n \in Lens, t \in Ttls : Receive(c, s, n, t)
        PROVE  /\ ~Busy(c) /\ skb[s].owner # "driver"
               /\ cpu'[c].skb = s /\ Busy(c)'
               /\ \A d \in Cpus : d # c => cpu'[d] = cpu[d]
               /\ \A r \in Skbs : r # s => skb'[r] = skb[r]
    <2>1. \E l \in {"rx_check", "tx_check"} :
            cpu' = [cpu EXCEPT ![c] = [at |-> l, skb |-> s]]
      BY <1>1 DEF Receive, Transmit
    <2>2. /\ cpu'[c].skb = s /\ Busy(c)'
          /\ \A d \in Cpus : d # c => cpu'[d] = cpu[d]
      BY <2>1 DEF TypeOK, Busy
    <2> QED BY <1>1, <2>2 DEF Receive, Transmit, TypeOK
  <1>2. ASSUME NEW s \in Skbs,
               Drop(s) \/ \E n \in Lens, t \in Ttls : Enqueue(s, n, t)
        PROVE  /\ skb[s].owner # "driver" /\ skb'[s].owner # "driver"
               /\ cpu' = cpu
               /\ \A r \in Skbs : r # s => skb'[r] = skb[r]
    <2>1. [skb[s] EXCEPT !.owner = "free"].owner = "free"
      BY DEF TypeOK
    <2> QED BY <1>2, <2>1 DEF Drop, Enqueue, TypeOK
  <1>3. CASE Register \/ Unregister \/ UNCHANGED vars
    BY <1>3 DEF Register, Unregister, vars, Busy
  <1>4. CASE \E c \in Cpus, s \in Skbs :
               \/ Transmit(c, s)
               \/ \E n \in Lens, t \in Ttls : Receive(c, s, n, t)
    BY <1>1, <1>4 DEF Busy
  <1>5. CASE \E s \in Skbs :
               Drop(s) \/ \E n \in Lens, t \in Ttls : Enqueue(s, n, t)
    BY <1>2, <1>5 DEF Busy
  <1> QED BY <1>3, <1>4, <1>5 DEF Next

LEMMA RxStep ==
  ASSUME IInv, [Next]_vars, NEW c \in Cpus, cpu[c].at \in RxLabels
  PROVE  \/ cpu'[c].at \in RxLabels /\ cpu'[c].skb = cpu[c].skb
         \/ ~Busy(c)' /\ skb'[cpu[c].skb].owner = "free"
  <1>1. Busy(c) /\ ~At(c, "tx_end")
    BY DEF RxLabels, Busy, At
  <1>2. CASE Handler(c)
    BY <1>1, <1>2, HandlerMoves
  <1>3. ASSUME NEW d \in Cpus, d # c, Handler(d) PROVE cpu'[c] = cpu[c]
    BY <1>3, HandlerMoves
  <1>4. CASE \A d \in Cpus : ~Handler(d)
    BY <1>1, <1>4, StackMoves
  <1> QED BY <1>2, <1>3, <1>4

LEMMA LostStep ==
  ASSUME IInv, [Next]_vars, NEW s \in Skbs
  PROVE  /\ Lost(s) => Lost(s)'
         /\ Lost(s)' => \/ Lost(s)
                        \/ \E c \in Cpus : At(c, "tx_end") /\ cpu[c].skb = s
  <1>1. CASE \A c \in Cpus : ~Handler(c)
    BY <1>1, StackMoves DEF Lost, Busy
  <1>2. ASSUME NEW c \in Cpus, Handler(c)
        PROVE  /\ Lost(s) => Lost(s)'
               /\ Lost(s)' => Lost(s) \/ (At(c, "tx_end") /\ cpu[c].skb = s)
    <2>1. CASE cpu[c].skb = s
      <3>1. Busy(c) /\ ~Lost(s)
        BY <1>2, <2>1, HandlerMoves DEF Lost
      <3> QED BY <1>2, <2>1, <3>1, HandlerMoves DEF Lost
    <2>2. CASE cpu[c].skb # s
      <3>1. /\ skb'[s] = skb[s]
            /\ \A d \in Cpus : d # c => cpu'[d] = cpu[d]
            /\ Busy(c)' => cpu'[c].skb # s
        BY <1>2, <2>2, HandlerMoves
      <3> QED BY <2>2, <3>1 DEF Lost, Busy
    <2> QED BY <2>1, <2>2
  <1> QED BY <1>1, <1>2

\* On all of its paths my_netdev_rx frees the skb that it was given before it
\* returns: the safety half of ReceivedIsFreed.
THEOREM NetEthRxFrees == Spec => RxEndsByFreeing
  <1> DEFINE A == \A c \in Cpus : cpu[c].at \in RxLabels =>
                    \/ cpu'[c].at \in RxLabels /\ cpu'[c].skb = cpu[c].skb
                    \/ ~Busy(c)' /\ skb'[cpu[c].skb].owner = "free"
  <1>1. IInv /\ [Next]_vars => A
    BY RxStep
  <1> QED BY <1>1, Inductive, PTL DEF Spec, RxEndsByFreeing

\* The leak of EverySkbHasAnOwner is confined to the missing end of
\* my_netdev_tx: no other path of either handler loses an skb.
THEOREM NetEthOnlyTxEndLoses == Spec => OnlyTxEndLoses
  <1> DEFINE A == \A s \in Skbs : Lost(s)' =>
       Lost(s) \/ \E c \in Cpus : At(c, "tx_end") /\ cpu[c].skb = s
  <1>1. IInv /\ [Next]_vars => A
    BY LostStep
  <1> QED BY <1>1, Inductive, PTL DEF Spec, OnlyTxEndLoses

\* An skb that my_netdev_tx has lost stays lost, whatever happens next, the
\* removal of the driver included.
THEOREM NetEthLossIsFinal == Spec => LossIsFinal
  <1> DEFINE A == \A s \in Skbs : Lost(s) => Lost(s)'
  <1>1. IInv /\ [Next]_vars => A
    BY LostStep
  <1> QED BY <1>1, Inductive, PTL DEF Spec, LossIsFinal
===============================================================================
