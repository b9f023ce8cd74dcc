------------------------------- MODULE WifiNode -------------------------------
(***************************************************************************)
(* Wi-fi_userSpace.c and the drivers it may meet.  The program of Clients  *)
(* runs in a process whose node, /dev/myWi-Fi, an administrator has made   *)
(* with the number that MyWi-fiDriver.c tells; its calls are served by     *)
(* the driver of CharDrivers that the open has found there, while that     *)
(* driver and the others are loaded and unloaded.                          *)
(***************************************************************************)
EXTENDS CharDrivers, ClientCode

CONSTANTS
  Slot,  \* the client's open-file slot; the others are other processes'
  Size   \* the bytes of its buffer

ASSUME SlotAssumption   == Slot \in Files
ASSUME BufferAssumption == Size \in Nat \ {0, 1}

VARIABLES
  prog, at, has, undo, state, buf, got, shown  \* of Clients

clientVars == <<prog, at, has, undo, state, buf, got, shown>>
wifiVars   == <<vars, clientVars>>

Client == INSTANCE Clients WITH Programs <- {"wifi"}, pc <- at, held <- has

MyWifiNode == [made |-> "mknod", major |-> MyWifiMajor]

\* The drivers with a read handler that returns 0 and a write handler that
\* returns the length it was given.  esp32 has neither, spi_char no write.
Stubs == {"bluetooth", "wifi", "can", "etx", "i2c"}

\* The client is about to make a call.
Calling  == state = "running" /\ at <= Len(WifiClient)
NextCall == WifiClient[at]

OpenIsNext == Calling /\ "fd" \in NextCall.take

\* The next call is made through the client's descriptor.
UsesNode == Calling /\ "fd" \in NextCall.on

ServedByStub == UsesNode /\ file[Slot].drv \in Stubs

WInit == Init /\ Client!Init

-----------------------------------------------------------------------------
(* The client's calls.                                                     *)

OpensNode ==
  /\ OpenIsNext
  /\ Client!Call
  /\ Open(Slot, MyWifiNode)

\* open(2) may fail for many reasons.
OpenFails ==
  /\ OpenIsNext
  /\ Client!Fail
  /\ UNCHANGED vars

StubWrite ==
  /\ ServedByStub
  /\ Client!Call
  /\ UNCHANGED vars

StubRead_ReturnsLen ==
  /\ ServedByStub
  /\ NextCall.op = "read_less_one"
  /\ got' = Client!Room
  /\ at' = at + 1
  /\ UNCHANGED <<vars, prog, has, undo, state, buf, shown>>

StubRead ==
  /\ ServedByStub
  /\ Client!ReadSome(0)
  /\ UNCHANGED vars

\* -EINVAL: the driver at the node has no handler for the call.
NoHandler ==
  /\ UsesNode /\ file[Slot].drv \notin Stubs
  /\ Client!Fail
  /\ UNCHANGED vars

ClosesNode ==
  /\ Client!ReleaseOne \/ Client!Undo
  /\ Close(Slot)

\* The driver's module has been freed, and the call goes there: the process
\* dies in the kernel, unless the memory still holds what it held.
DiesInDriver ==
  /\ UsesNode \/ (state = "failing" /\ undo # <<>>)
  /\ file[Slot].open /\ ~file[Slot].live
  /\ Close(Slot)
  /\ state' = "killed"
  /\ has' = {}
  /\ UNCHANGED <<prog, at, undo, buf, got, shown>>

\* What the program does without its descriptor.
Alone ==
  /\ \/ Client!Terminate \/ Client!Show \/ Client!Undone \/ Client!Finish
     \/ Client!Start("wifi")
  /\ UNCHANGED vars

ClientStep ==
  \/ OpensNode \/ OpenFails \/ StubWrite \/ StubRead \/ NoHandler
  \/ ClosesNode \/ DiesInDriver \/ Alone

-----------------------------------------------------------------------------
Others ==
  \/ \E d \in Drivers : Insmod(d) \/ Rmmod(d) \/ ModuleStep(d)
  \/ \E f \in Files \ {Slot} : Close(f) \/ \E n \in Node : Open(f, n)

WNext ==
  \/ ClientStep
  \/ Others /\ UNCHANGED clientVars

WSpec == WInit /\ [][WNext]_wifiVars

-----------------------------------------------------------------------------
(* Properties.                                                             *)

\* The program prints what it has received, and no driver that the number may
\* lead to delivers anything: it prints nothing, neither bytes of its own nor
\* the buffer that nobody has written.
PrintsNothing == shown = {}

\* The client has its descriptor exactly as long as its slot is open, so that
\* it never calls through one it does not have; and however it ends (on its
\* way through, by a call its driver refuses, inside a driver that is gone)
\* it leaves no open file behind that would keep a module from unloading.
ClientClosesItsNode ==
  /\ "fd" \in has <=> file[Slot].open
  /\ state \in Client!Ends => ~file[Slot].open

\* The program dies in the kernel only when the driver its open found is one
\* that leaves its users unprotected: whichever driver has the number when it
\* opens, a protected one stays until the program has closed, on its error
\* paths too.
DiesOnlyInUnprotected ==
  [][state' = "killed" /\ state # "killed" =>
       file[Slot].drv \in Unprotected]_wifiVars
===============================================================================
