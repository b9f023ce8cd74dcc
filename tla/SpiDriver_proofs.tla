--------------------------- MODULE SpiDriver_proofs ---------------------------
(***************************************************************************)
(* The safety of SpiDriver for any number of devices and threads.  That    *)
(* the pointer names a bound device, and that a queued message has its     *)
(* frame, are inductive with the types.                                    *)
(***************************************************************************)
EXTENDS SpiDriver, TLAPS

IInv == TypeOK /\ SpiDevIsBound /\ MessagesHaveAFrame

LEMMA InitInv == Init => IInv
  BY NoDeviceAssumption DEF Init, IInv, TypeOK, SpiDevIsBound,
     MessagesHaveAFrame

\* The bus and the driver leave the queue alone; only probe sets the pointer,
\* and only remove, which clears it, makes a device unbound.
LEMMA BusStep ==
  ASSUME IInv, NEW d \in Devices,
         Plug(d) \/ Unplug(d) \/ Attach(d) \/ Detach(d) \/ Probe(d) \/ Remove(d)
  PROVE  IInv'
  <1> USE DEF IInv
  <1>1. UNCHANGED <<driver, call, queue>>
    BY DEF Plug, Unplug, Attach, Detach, Probe, Remove
  <1>2. TypeOK'
    BY DEF TypeOK, Plug, Unplug, Attach, Detach, Probe, Remove
  <1>3. SpiDevIsBound'
    BY NoDeviceAssumption
       DEF TypeOK, SpiDevIsBound, Plug, Unplug, Attach, Detach, Probe, Remove
  <1>4. MessagesHaveAFrame'
    BY <1>1 DEF MessagesHaveAFrame
  <1> QED BY <1>2, <1>3, <1>4

\* Loading and unloading.
LEMMA DriverStep ==
  ASSUME IInv, Register \/ Unregister \/ Unload
  PROVE  IInv'
  <1> USE DEF IInv
  <1>1. TypeOK'
    BY DEF TypeOK, Register, Unregister, Unload
  <1>2. SpiDevIsBound'
    BY DEF SpiDevIsBound, Register, Unregister, Unload
  <1>3. MessagesHaveAFrame'
    BY DEF MessagesHaveAFrame, Register, Unregister, Unload
  <1> QED BY <1>1, <1>2, <1>3

\* A thread that begins a transfer was in none, so that no message in the queue
\* is its own.
LEMMA TransferStep ==
  ASSUME IInv, NEW t \in Threads, Transfer(t)
  PROVE  IInv'
  <1> USE DEF IInv
  <1>1. /\ call[t] = "none"
        /\ call' = [call EXCEPT ![t] = "waiting"]
        /\ queue' = Append(queue, t)
        /\ UNCHANGED <<driver, present, bind, spi_dev>>
    BY DEF Transfer
  <1>2. TypeOK'
    BY <1>1 DEF TypeOK
  <1>3. SpiDevIsBound'
    BY <1>1 DEF SpiDevIsBound
  <1>4. \A i \in 1..Len(queue) : queue[i] \in Threads /\ queue[i] # t
    BY <1>1 DEF TypeOK, MessagesHaveAFrame
  <1>5. /\ Len(queue') = Len(queue) + 1
        /\ queue'[Len(queue) + 1] = t
        /\ \A i \in 1..Len(queue) : queue'[i] = queue[i]
    BY <1>1 DEF TypeOK
  <1>6. Len(queue) \in Nat
    BY DEF TypeOK
  <1>7. ASSUME NEW i \in 1..Len(queue')
        PROVE  /\ call'[queue'[i]] = "waiting"
               /\ \A j \in 1..(i - 1) : queue'[j] # queue'[i]
    <2>1. CASE i = Len(queue) + 1
      BY <1>1, <1>4, <1>5, <1>6, <2>1 DEF TypeOK
    <2>2. CASE i \in 1..Len(queue)
      BY <1>1, <1>4, <1>5, <1>6, <2>2 DEF TypeOK, MessagesHaveAFrame
    <2> QED BY <1>5, <1>6, <2>1, <2>2
  <1> QED BY <1>2, <1>3, <1>7 DEF MessagesHaveAFrame

\* The thread that is woken has no other message in the queue.
LEMMA CompleteStep ==
  ASSUME IInv, Complete
  PROVE  IInv'
  <1> USE DEF IInv
  <1>1. /\ queue # <<>>
        /\ call' = [call EXCEPT ![Head(queue)] = "done"]
        /\ queue' = Tail(queue)
        /\ UNCHANGED <<driver, present, bind, spi_dev>>
    BY DEF Complete
  <1>2. /\ Len(queue) \in Nat \ {0}
        /\ Head(queue) = queue[1]
        /\ Len(queue') = Len(queue) - 1
        /\ \A i \in 1..Len(queue') : queue'[i] = queue[i + 1]
    BY <1>1 DEF TypeOK
  <1>3. TypeOK'
    BY <1>1, <1>2 DEF TypeOK
  <1>4. SpiDevIsBound'
    BY <1>1 DEF SpiDevIsBound
  <1>5. ASSUME NEW i \in 1..Len(queue')
        PROVE  /\ call'[queue'[i]] = "waiting"
               /\ \A j \in 1..(i - 1) : queue'[j] # queue'[i]
    <2>1. i + 1 \in 1..Len(queue) /\ 1 \in 1..((i + 1) - 1)
      BY <1>2
    <2>2. queue[i + 1] # queue[1] /\ call[queue[i + 1]] = "waiting"
      BY <2>1 DEF MessagesHaveAFrame
    <2>3. call'[queue'[i]] = "waiting"
      <3>1. queue[i + 1] \in Threads
        BY <2>1 DEF TypeOK
      <3> QED BY <1>1, <1>2, <2>2, <3>1 DEF TypeOK
    <2>4. ASSUME NEW j \in 1..(i - 1)
          PROVE  queue'[j] # queue'[i]
      <3>1. j \in 1..Len(queue') /\ j + 1 \in 1..((i + 1) - 1)
        BY <1>2
      <3> QED BY <1>2, <2>1, <3>1 DEF MessagesHaveAFrame
    <2> QED BY <2>3, <2>4
  <1> QED BY <1>3, <1>4, <1>5 DEF MessagesHaveAFrame

\* A thread returns only when its message has left the queue.
LEMMA ReturnStep ==
  ASSUME IInv, NEW t \in Threads, Return(t)
  PROVE  IInv'
  <1> USE DEF IInv
  <1>1. TypeOK'
    BY DEF TypeOK, Return
  <1>2. SpiDevIsBound'
    BY DEF SpiDevIsBound, Return
  <1>3. \A i \in 1..Len(queue) : queue[i] \in Threads /\ queue[i] # t
    BY DEF TypeOK, MessagesHaveAFrame, Return
  <1>4. MessagesHaveAFrame'
    BY <1>3 DEF TypeOK, MessagesHaveAFrame, Return
  <1> QED BY <1>1, <1>2, <1>4

LEMMA NextInv == IInv /\ [Next]_vars => IInv'
  <1> SUFFICES ASSUME IInv, [Next]_vars PROVE IInv'
    OBVIOUS
  <1>1. CASE UNCHANGED vars
    BY <1>1 DEF vars, IInv, TypeOK, SpiDevIsBound, MessagesHaveAFrame
  <1> QED
    BY <1>1, BusStep, DriverStep, TransferStep, CompleteStep, ReturnStep
       DEF Next

LEMMA Inductive == Spec => []IInv
  BY InitInv, NextInv, PTL DEF Spec

\* The SPI driver keeps its types, whatever comes and goes.
THEOREM SpiTypeCorrect == Spec => []TypeOK
  BY Inductive, PTL DEF IInv

\* The SPI driver's pointer is null or names a device that is bound to it.
THEOREM SpiDevSafe == Spec => []SpiDevIsBound
  BY Inductive, PTL DEF IInv

\* spi_read and spi_write never return while the controller has their message.
THEOREM FrameSafe == Spec => []MessagesHaveAFrame
  BY Inductive, PTL DEF IInv

-----------------------------------------------------------------------------
(* Unloading: what the end of the exit function rests on.                  *)

\* How many steps of the bus are left until d is unbound.
Rank(d) ==
  CASE bind[d] = "probing"  -> 3
    [] bind[d] = "bound"    -> 2
    [] bind[d] = "removing" -> 1
    [] bind[d] = "unbound"  -> 0

\* A driver that is leaving stays so until no device has a step left, and in
\* between no device is set back, whatever is plugged in meanwhile.
LeavingDrains ==
  [][driver = "leaving" =>
       /\ \A d \in Devices : bind'[d] = bind[d] \/ Rank(d)' < Rank(d)
       /\ \/ driver' = "leaving"
          \/ driver' = "out" /\ \A d \in Devices : Rank(d) = 0]_vars

\* spi_unregister_driver has finitely much to wait for: the safety half of
\* UnloadEnds.
THEOREM UnloadDrains == Spec => LeavingDrains
  <1> DEFINE A == driver = "leaving" =>
       /\ \A d \in Devices : bind'[d] = bind[d] \/ Rank(d)' < Rank(d)
       /\ \/ driver' = "leaving"
          \/ driver' = "out" /\ \A d \in Devices : Rank(d) = 0
  <1>1. ASSUME IInv, [Next]_vars, driver = "leaving"
        PROVE  A
    <2>1. ASSUME NEW d \in Devices, Detach(d) \/ Probe(d) \/ Remove(d)
          PROVE  /\ driver' = "leaving"
                 /\ Rank(d)' < Rank(d)
                 /\ \A e \in Devices \ {d} : bind'[e] = bind[e]
      <3>1. /\ driver' = driver
            /\ \A e \in Devices \ {d} : bind'[e] = bind[e]
            /\ \/ bind[d] = "bound" /\ bind'[d] = "removing"
               \/ bind[d] = "probing" /\ bind'[d] = "bound"
               \/ bind[d] = "removing" /\ bind'[d] = "unbound"
        BY <1>1, <2>1 DEF Detach, Probe, Remove, IInv, TypeOK
      <3> QED BY <1>1, <3>1 DEF Rank
    <2>2. CASE Unload
      <3>1. /\ driver' = "out" /\ bind' = bind
            /\ \A d \in Devices : bind[d] = "unbound"
        BY <2>2 DEF Unload
      <3> QED BY <3>1 DEF Rank
    <2>3. CASE UNCHANGED <<driver, bind>>
      BY <1>1, <2>3
    <2>4. \/ Unload \/ UNCHANGED <<driver, bind>>
          \/ \E d \in Devices : Detach(d) \/ Probe(d) \/ Remove(d)
      BY <1>1 DEF Next, vars, Register, Unregister, Complete, Plug, Unplug,
         Attach, Transfer, Return
    <2>5. CASE \E d \in Devices : Detach(d) \/ Probe(d) \/ Remove(d)
      <3>1. PICK d \in Devices : Detach(d) \/ Probe(d) \/ Remove(d)
        BY <2>5
      <3> QED BY <2>1, <3>1
    <2> QED BY <2>2, <2>3, <2>4, <2>5
  <1>2. IInv /\ [Next]_vars => A
    BY <1>1
  <1> QED BY <1>2, Inductive, PTL DEF Spec, LeavingDrains

-----------------------------------------------------------------------------
(* The refinement.  A probe gives the device, a remove takes it back, and  *)
(* no other step changes what DevicePointer sees: an unload finds the      *)
(* pointer null, because nothing is bound.                                 *)

Known == {d \in Devices : bind[d] \in {"bound", "removing"}}

LEMMA InitMaps == Init => Pointer!Init
  BY DEF Init, Pointer!Init

LEMMA StepMaps == IInv /\ [Next]_vars => [Pointer!Next]_(Pointer!vars)
  <1> SUFFICES ASSUME IInv, [Next]_vars
               PROVE  Pointer!Next \/ UNCHANGED <<Known, spi_dev>>
    BY DEF Pointer!vars, Known
  <1> USE DEF IInv
  <1>1. ASSUME NEW d \in Devices, Probe(d) PROVE Pointer!Give(d)
    <2>1. /\ bind[d] = "probing"
          /\ bind' = [bind EXCEPT ![d] = "bound"]
          /\ spi_dev' = d
      BY <1>1 DEF Probe
    <2>2. d \notin Known /\ Known' = Known \cup {d}
      BY <2>1 DEF Known, TypeOK
    <2> QED BY <2>1, <2>2 DEF Pointer!Give, Known
  <1>2. ASSUME NEW d \in Devices, Remove(d) PROVE Pointer!TakeBack(d)
    <2>1. /\ bind[d] = "removing"
          /\ bind' = [bind EXCEPT ![d] = "unbound"]
          /\ spi_dev' = NoDevice
      BY <1>2 DEF Remove
    <2>2. d \in Known /\ Known' = Known \ {d}
      BY <2>1 DEF Known, TypeOK
    <2> QED BY <2>1, <2>2 DEF Pointer!TakeBack, Known
  <1>3. ASSUME NEW d \in Devices,
               Plug(d) \/ Unplug(d) \/ Attach(d) \/ Detach(d)
        PROVE  UNCHANGED <<Known, spi_dev>>
    <2>1. UNCHANGED spi_dev
      BY <1>3 DEF Plug, Unplug, Attach, Detach
    <2>2. \A e \in Devices : bind[e] \in {"bound", "removing"}
                              <=> bind'[e] \in {"bound", "removing"}
      BY <1>3 DEF TypeOK, Plug, Unplug, Attach, Detach
    <2> QED BY <2>1, <2>2 DEF Known
  <1>4. CASE Unload
    <2>1. spi_dev = NoDevice
      BY <1>4 DEF Unload, SpiDevIsBound, TypeOK
    <2> QED BY <1>4, <2>1 DEF Unload, Known
  <1>5. CASE \/ Register \/ Unregister \/ Complete \/ UNCHANGED vars
            \/ \E t \in Threads : Transfer(t) \/ Return(t)
    BY <1>5 DEF Register, Unregister, Complete, Transfer, Return, vars, Known
  <1> QED BY <1>1, <1>2, <1>3, <1>4, <1>5 DEF Next, Pointer!Next

\* spi_dev behaves as DevicePointer allows: it moves only with the probe or
\* the remove of a device, whatever else happens in between.
THEOREM PointerKept == Spec => ImplementsPointer
  BY InitMaps, StepMaps, Inductive, PTL
     DEF Spec, ImplementsPointer, Pointer!Spec

\* DevicePointer is worth keeping: a pointer that moves as it says is null or
\* names a device that the driver has.
THEOREM PointerPromise ==
  ImplementsPointer => [](spi_dev # NoDevice => spi_dev \in Known)
  <1> DEFINE Named == spi_dev # NoDevice => spi_dev \in Known
  <1>1. Pointer!Init => Named
    BY DEF Pointer!Init
  <1>2. Named /\ [Pointer!Next]_(Pointer!vars) => Named'
    <2> SUFFICES ASSUME Named, [Pointer!Next]_(Pointer!vars) PROVE Named'
      OBVIOUS
    <2>1. CASE UNCHANGED <<Known, spi_dev>>
      BY <2>1
    <2>2. ASSUME NEW d \in Devices, Pointer!Give(d) PROVE Named'
      BY <2>2 DEF Pointer!Give, Known
    <2>3. ASSUME NEW d \in Devices, Pointer!TakeBack(d) PROVE Named'
      BY <2>3 DEF Pointer!TakeBack, Known
    <2> QED BY <2>1, <2>2, <2>3 DEF Pointer!Next, Pointer!vars, Known
  <1> QED BY <1>1, <1>2, PTL DEF ImplementsPointer, Pointer!Spec
===============================================================================
