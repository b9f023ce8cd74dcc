---------------------------- MODULE WifiNode_proofs ----------------------------
(***************************************************************************)
(* The client at its node does to the drivers only what any process may,   *)
(* so that what is proved of CharDrivers holds here; and from its          *)
(* invariant it follows whose code the client can die in.  What the client *)
(* itself does follows from an invariant of its own, ClientInv.            *)
(***************************************************************************)
EXTENDS WifiNode, CharDrivers_proofs

\* An open that finds a driver has been made on a node of a known number.
LEMMA NodeIsANode ==
  ASSUME TypeOK, OpensNode
  PROVE  MyWifiNode \in Node
  <1>1. PICK e \in Lookup(MyWifiMajor) : TRUE
    BY DEF OpensNode, Open, MajorOf, MyWifiNode
  <1>2. e \in Mapped(MyWifiMajor)
    BY <1>1 DEF Lookup, Owning
  <1>3. MyWifiMajor \in Majors
    <2>1. \/ \E d \in Drivers : devnum[d] = MyWifiMajor
          \/ \E o \in orphans : o.major = MyWifiMajor
      BY <1>2 DEF Mapped
    <2> QED BY <2>1 DEF TypeOK, Orphan
  <1> QED BY <1>3 DEF Node, MyWifiNode, MyWifiMajor

\* Each step of the composition is a step of the drivers and their users, or
\* one of the client alone.
LEMMA DriversStep ==
  ASSUME TypeOK, [WNext]_wifiVars
  PROVE  [Next]_vars
  <1>1. CASE UNCHANGED wifiVars
    BY <1>1 DEF wifiVars
  <1>2. CASE OpensNode
    BY <1>2, NodeIsANode, SlotAssumption DEF OpensNode, Next
  <1>3. CASE ClosesNode \/ DiesInDriver
    BY <1>3, SlotAssumption DEF ClosesNode, DiesInDriver, Next
  <1>4. CASE OpenFails \/ StubWrite \/ StubRead \/ NoHandler \/ Alone
    BY <1>4 DEF OpenFails, StubWrite, StubRead, NoHandler, Alone
  <1>5. CASE Others
    BY <1>5 DEF Others, Next
  <1> QED BY <1>1, <1>2, <1>3, <1>4, <1>5 DEF WNext, ClientStep

LEMMA DriversInvariance == WSpec => []IInv
  <1>1. WInit => IInv
    BY InitInv DEF WInit
  <1>2. IInv /\ [WNext]_wifiVars => IInv'
    BY DriversStep, Inductive DEF IInv
  <1> QED BY <1>1, <1>2, PTL DEF WSpec

\* What is proved of the drivers by themselves holds with the client.
THEOREM ClientKeepsSpec == WSpec => Spec
  <1>1. IInv /\ [WNext]_wifiVars => [Next]_vars
    BY DriversStep DEF IInv
  <1>2. WInit => Init
    BY DEF WInit
  <1> QED BY <1>1, <1>2, DriversInvariance, PTL DEF WSpec, Spec

\* The client dies in the kernel only inside a driver that leaves its users
\* unprotected, on the way through and on its error paths.
THEOREM ClientSafe == WSpec => DiesOnlyInUnprotected
  <1> DEFINE Dies == state' = "killed" /\ state # "killed"
  <1>1. ASSUME IInv, WNext, Dies PROVE DiesInDriver
    <2>1. CASE ClosesNode \/ OpensNode \/ OpenFails \/ StubWrite \/ StubRead
               \/ NoHandler \/ Alone
      BY <1>1, <2>1 DEF ClosesNode, OpensNode, OpenFails, StubWrite, StubRead,
         NoHandler, Alone, Client!Call, Client!Fail, Client!ReadSome,
         Client!ReleaseOne, Client!Undo, Client!Terminate, Client!Show,
         Client!Undone, Client!Finish, Client!Start
    <2>2. CASE Others /\ UNCHANGED clientVars
      BY <1>1, <2>2 DEF clientVars
    <2> QED BY <1>1, <2>1, <2>2 DEF WNext, ClientStep
  <1>2. IInv /\ [WNext]_wifiVars =>
          [Dies => file[Slot].drv \in Unprotected]_wifiVars
    BY <1>1, SlotAssumption DEF DiesInDriver, IInv, Core, FileInv
  <1> QED BY <1>2, DriversInvariance, PTL DEF WSpec, DiesOnlyInUnprotected

\* In the composition the client does what its program does: each of its steps
\* is one of Clients, on the code of Wi-fi_userSpace.c, but for the death in a
\* driver that is gone.
ClientRunsItsProgram ==
  /\ Client!Init
  /\ [][DiesInDriver \/ Client!Next \/ UNCHANGED clientVars]_wifiVars

\* The drivers neither add to what the client may do nor change its state.
THEOREM ClientKeepsProgram == WSpec => ClientRunsItsProgram
  <1> DEFINE A == DiesInDriver \/ Client!Next \/ UNCHANGED clientVars
  <1>1. WInit => Client!Init
    BY DEF WInit
  <1>2. [WNext]_wifiVars => A
    <2>1. CASE UNCHANGED wifiVars \/ (Others /\ UNCHANGED clientVars)
      BY <2>1 DEF wifiVars, clientVars
    <2>2. CASE OpensNode \/ OpenFails \/ StubWrite \/ NoHandler \/ ClosesNode
               \/ Alone
      BY <2>2 DEF OpensNode, OpenFails, StubWrite, NoHandler, ClosesNode,
         Alone, Client!Next, Client!ProgramStep
    <2>3. CASE StubRead
      <3>1. 0 \in 0..Size
        BY BufferAssumption
      <3> QED BY <2>3, <3>1 DEF StubRead, Client!Next, Client!ProgramStep
    <2> QED BY <2>1, <2>2, <2>3 DEF WNext, ClientStep
  <1> QED BY <1>1, <1>2, PTL DEF WSpec, ClientRunsItsProgram

-----------------------------------------------------------------------------
(* The client's own state.  Its properties are not inductive: that nothing *)
(* is printed holds because the text at the print is empty, which follows  *)
(* from what the last read returned, two calls earlier; and that the slot  *)
(* is closed at the end, because the descriptor is held exactly between    *)
(* the first call and the last, and on the error path until it is undone.  *)

Running ==
  /\ state = "running"
  /\ prog = "wifi"
  /\ at \in 1..7
  /\ has = IF at \in 2..6 THEN {"fd"} ELSE {}
  /\ at = 4 => got = 0
  /\ at = 5 => buf[1] = "nul"

Failing ==
  /\ state = "failing"
  /\ prog = "wifi"
  /\ \/ undo = <<>> /\ has = {}
     \/ undo = <<"fd">> /\ has = {"fd"}

Ended == state \in Client!Ends /\ has = {}

ClientInv ==
  /\ at \in Nat \ {0}
  /\ buf \in Client!Buffer
  /\ shown = {}
  /\ "fd" \in has <=> file[Slot].open
  /\ Running \/ Failing \/ Ended

\* The table that the instance of Clients runs.
LEMMA InstanceRunsWifi == Client!Code["wifi"] = WifiClient
  BY DEF Client!Code, Client!WifiClient, Client!Take, Client!Write,
     Client!Read, Client!Local, Client!Drop, Client!Step,
     WifiClient, Take, Write, Read, Local, Drop, Step

\* The six calls, one by one.
LEMMA WifiCalls ==
  /\ Len(WifiClient) = 6
  /\ WifiClient[1] = [op |-> "none", on |-> {}, take |-> {"fd"},
                      fails |-> "error", undo |-> <<>>]
  /\ WifiClient[2] = [op |-> "none", on |-> {"fd"}, take |-> {},
                      fails |-> "error", undo |-> <<"fd">>]
  /\ WifiClient[3] = [op |-> "read_less_one", on |-> {"fd"}, take |-> {},
                      fails |-> "error", undo |-> <<"fd">>]
  /\ WifiClient[4] = [op |-> "terminate", on |-> {}, take |-> {},
                      fails |-> "never", undo |-> <<>>]
  /\ WifiClient[5] = [op |-> "show_string", on |-> {}, take |-> {},
                      fails |-> "never", undo |-> <<>>]
  /\ WifiClient[6] = [op |-> "release", on |-> {"fd"}, take |-> {},
                      fails |-> "never", undo |-> <<>>]
  BY DEF WifiClient, Take, Write, Read, Local, Drop, Step

\* A client that runs is where its table says.
LEMMA WhileRunning ==
  ASSUME ClientInv, state = "running"
  PROVE  /\ Running
         /\ Client!Code[prog] = WifiClient
         /\ Client!AtCall <=> at \in 1..6
         /\ Client!Here = WifiClient[at]
         /\ Calling <=> at \in 1..6
         /\ at = 1 => ~file[Slot].open
         /\ at \in 2..6 => file[Slot].open
  <1>1. Running
    BY DEF ClientInv, Failing, Ended, Client!Ends
  <1>2. Client!Code[prog] = WifiClient
    BY <1>1, InstanceRunsWifi DEF Running
  <1>3. at <= 6 <=> at \in 1..6
    BY <1>1 DEF Running
  <1> QED
    BY <1>1, <1>2, <1>3, WifiCalls
    DEF Client!AtCall, Client!Here, Calling, Running, ClientInv

\* An open file of the client's, and none.
LEMMA SlotFile ==
  ASSUME TypeOK
  PROVE  /\ Close(Slot) => ~file'[Slot].open
         /\ \A n \in Node : Open(Slot, n) => file'[Slot].open
  BY SlotAssumption DEF TypeOK, Close, Open, Closed

LEMMA OpensKeeps ==
  ASSUME TypeOK, ClientInv, OpensNode
  PROVE  ClientInv'
  <1>1. Running /\ at \in 1..6 /\ Client!Here = WifiClient[at]
    BY WhileRunning DEF OpensNode, OpenIsNext, Calling
  <1>2. at = 1
    BY <1>1, WifiCalls, WhileRunning
    DEF OpensNode, OpenIsNext, Calling, NextCall
  <1>3. /\ at' = 2 /\ has' = {"fd"}
        /\ UNCHANGED <<prog, undo, state, buf, got, shown>>
    BY <1>1, <1>2, WifiCalls DEF OpensNode, Client!Call, Running
  <1>4. file'[Slot].open
    BY SlotAssumption DEF OpensNode, Open, TypeOK
  <1> QED
    BY <1>1, <1>2, <1>3, <1>4
    DEF ClientInv, Running, Client!Buffer

LEMMA OpenFailsKeeps ==
  ASSUME ClientInv, OpenFails
  PROVE  ClientInv'
  <1>1. Running /\ at \in 1..6 /\ Client!Here = WifiClient[at]
    BY WhileRunning DEF OpenFails, OpenIsNext, Calling
  <1>2. at = 1
    BY <1>1, WifiCalls, WhileRunning
    DEF OpenFails, OpenIsNext, Calling, NextCall
  <1>3. /\ state' = "failing" /\ undo' = <<>>
        /\ UNCHANGED <<vars, prog, at, has, buf, got, shown>>
    BY <1>1, <1>2, WifiCalls DEF OpenFails, Client!Fail
  <1> QED
    BY <1>1, <1>2, <1>3
    DEF ClientInv, Running, Failing, Client!Buffer, vars

\* A stub's write takes all, and its read delivers nothing.
LEMMA StubWriteKeeps ==
  ASSUME ClientInv, StubWrite
  PROVE  ClientInv'
  <1>1. Running /\ at \in 1..6 /\ Client!Here = WifiClient[at]
    BY WhileRunning DEF StubWrite, ServedByStub, UsesNode, Calling
  <1>2. at = 2
    BY <1>1, WifiCalls, WhileRunning
    DEF StubWrite, ServedByStub, UsesNode, NextCall, Client!Call
  <1>3. /\ at' = 3 /\ has' = has
        /\ UNCHANGED <<vars, prog, undo, state, buf, got, shown>>
    BY <1>1, <1>2, WifiCalls DEF StubWrite, Client!Call, Running
  <1> QED
    BY <1>1, <1>2, <1>3
    DEF ClientInv, Running, Client!Buffer, vars

LEMMA StubReadKeeps ==
  ASSUME ClientInv, StubRead
  PROVE  ClientInv'
  <1>1. Running /\ at \in 1..6 /\ Client!Here = WifiClient[at]
    BY WhileRunning DEF StubRead, ServedByStub, UsesNode, Calling
  <1>2. at = 3
    BY <1>1, WifiCalls, WhileRunning
    DEF StubRead, ServedByStub, UsesNode, NextCall, Client!ReadSome
  <1>3. /\ at' = 4 /\ got' = 0 /\ has' = has
        /\ UNCHANGED <<vars, prog, undo, state, shown>>
    BY <1>1, <1>2, WifiCalls DEF StubRead, Client!ReadSome, Running
  <1>4. buf' = buf
    <2>1. \A i \in 1..Size : ~(i <= 0)
      BY BufferAssumption
    <2>2. buf = [i \in 1..Size |-> buf[i]]
      BY DEF ClientInv, Client!Buffer
    <2> QED BY <2>1, <2>2 DEF StubRead, Client!ReadSome
  <1> QED
    BY <1>1, <1>2, <1>3, <1>4
    DEF ClientInv, Running, Client!Buffer, vars

LEMMA NoHandlerKeeps ==
  ASSUME ClientInv, NoHandler
  PROVE  ClientInv'
  <1>1. Running /\ at \in 1..6 /\ Client!Here = WifiClient[at]
    BY WhileRunning DEF NoHandler, UsesNode, Calling
  <1>2. at \in {2, 3}
    BY <1>1, WifiCalls, WhileRunning
    DEF NoHandler, UsesNode, NextCall, Client!Fail
  <1>3. /\ state' = "failing" /\ undo' = <<"fd">>
        /\ UNCHANGED <<vars, prog, at, has, buf, got, shown>>
    BY <1>1, <1>2, WifiCalls DEF NoHandler, Client!Fail
  <1> QED
    BY <1>1, <1>2, <1>3
    DEF ClientInv, Running, Failing, Client!Buffer, vars

\* The last call and the error path close the descriptor.
LEMMA ClosesKeeps ==
  ASSUME TypeOK, ClientInv, ClosesNode
  PROVE  ClientInv'
  <1>1. ~file'[Slot].open
    BY SlotFile DEF ClosesNode
  <1>2. CASE Client!ReleaseOne
    <2>1. Running /\ at \in 1..6 /\ Client!Here = WifiClient[at]
      BY <1>2, WhileRunning DEF Client!ReleaseOne, Client!AtCall
    <2>2. at = 6
      BY <1>2, <2>1, WifiCalls DEF Client!ReleaseOne
    <2>3. /\ at' = 7 /\ has' = {}
          /\ UNCHANGED <<prog, undo, state, buf, got, shown>>
      BY <1>2, <2>1, <2>2, WifiCalls DEF Client!ReleaseOne, Running
    <2> QED
      BY <1>1, <2>1, <2>2, <2>3 DEF ClientInv, Running, Client!Buffer
  <1>3. CASE Client!Undo
    <2>1. Failing /\ undo = <<"fd">> /\ has = {"fd"}
      BY <1>3 DEF Client!Undo, ClientInv, Running, Failing, Ended, Client!Ends
    <2>2. /\ has' = {} /\ undo' = <<>>
          /\ UNCHANGED <<prog, at, state, buf, got, shown>>
      BY <1>3, <2>1 DEF Client!Undo
    <2> QED
      BY <1>1, <2>1, <2>2 DEF ClientInv, Failing, Client!Buffer
  <1> QED BY <1>2, <1>3 DEF ClosesNode

LEMMA DiesKeeps ==
  ASSUME TypeOK, ClientInv, DiesInDriver
  PROVE  ClientInv'
  <1>1. ~file'[Slot].open
    BY SlotFile DEF DiesInDriver
  <1> QED
    BY <1>1 DEF DiesInDriver, ClientInv, Ended, Client!Ends, Client!Buffer

\* What stands before the first zero byte of a buffer that begins with one.
LEMMA NoText ==
  ASSUME buf \in Client!Buffer, buf[1] = "nul"
  PROVE  Client!Text = {}
  <1>1. 1 \in 1..Size
    BY BufferAssumption
  <1>2. \A j \in 1..Size : 1 \in 1..j
    BY BufferAssumption
  <1>3. {j \in 1..Size : \A k \in 1..j : buf[k] # "nul"} = {}
    BY <1>2
  <1> QED BY <1>1, <1>3 DEF Client!Text

\* The terminating zero goes where the read, which brought nothing, has left
\* the program: to the first byte, so that the print that follows is empty.
LEMMA AloneKeeps ==
  ASSUME ClientInv, Alone
  PROVE  ClientInv'
  <1> USE DEF Alone
  <1>1. CASE Client!Terminate
    <2>1. Running /\ at \in 1..6 /\ Client!Here = WifiClient[at]
      BY <1>1, WhileRunning DEF Client!Terminate, Client!AtCall
    <2>2. at = 4 /\ got = 0
      BY <1>1, <2>1, WifiCalls DEF Client!Terminate, Running
    <2>3. /\ at' = 5 /\ buf' = [buf EXCEPT ![1] = "nul"]
          /\ UNCHANGED <<vars, prog, has, undo, state, got, shown>>
      BY <1>1, <2>2 DEF Client!Terminate
    <2>4. buf' \in Client!Buffer /\ buf'[1] = "nul"
      BY <2>3, BufferAssumption DEF ClientInv, Client!Buffer, Client!Cells
    <2> QED BY <2>1, <2>2, <2>3, <2>4 DEF ClientInv, Running, vars
  <1>2. CASE Client!Show
    <2>1. Running /\ at \in 1..6 /\ Client!Here = WifiClient[at]
      BY <1>2, WhileRunning DEF Client!Show, Client!AtCall
    <2>2. at = 5
      BY <1>2, <2>1, WifiCalls DEF Client!Show
    <2>3. Client!Text = {}
      BY <2>1, <2>2, NoText DEF Running, ClientInv
    <2>4. /\ shown' = {} /\ at' = 6
          /\ UNCHANGED <<vars, prog, has, undo, state, buf, got>>
      BY <1>2, <2>1, <2>2, <2>3, WifiCalls DEF Client!Show
    <2> QED
      BY <2>1, <2>2, <2>4 DEF ClientInv, Running, Client!Buffer, vars
  <1>3. CASE Client!Undone
    <2>1. Failing /\ has = {}
      BY <1>3
      DEF Client!Undone, ClientInv, Running, Failing, Ended, Client!Ends
    <2> QED
      BY <1>3, <2>1
      DEF Client!Undone, ClientInv, Ended, Client!Ends, Client!Buffer, vars
  <1>4. CASE Client!Finish
    <2>1. Running /\ at = 7
      <3>1. /\ Running /\ Client!Code[prog] = WifiClient
            /\ ~(at <= 6)
        BY <1>4, WhileRunning, WifiCalls DEF Client!Finish, ClientInv
      <3> QED BY <3>1 DEF Running
    <2>2. has = {}
      BY <2>1 DEF Running
    <2> QED
      BY <1>4, <2>2
      DEF Client!Finish, ClientInv, Ended, Client!Ends, Client!Buffer, vars
  <1>5. CASE Client!Start("wifi")
    <2>1. has = {}
      BY <1>5 DEF Client!Start, ClientInv, Running, Failing, Ended, Client!Ends
    <2>2. buf' \in Client!Buffer
      BY <1>5 DEF Client!Start, Client!Junk, Client!Buffer, Client!Cells
    <2> QED
      BY <1>5, <2>1, <2>2 DEF Client!Start, ClientInv, Running, vars
  <1> QED BY <1>1, <1>2, <1>3, <1>4, <1>5

\* What the drivers and the other processes do leaves the client's file.
LEMMA OthersKeep ==
  ASSUME TypeOK, ClientInv, Others, UNCHANGED clientVars
  PROVE  ClientInv'
  <1>1. file'[Slot].open <=> file[Slot].open
    <2>1. ASSUME NEW d \in Drivers, Insmod(d) \/ Rmmod(d) \/ ModuleStep(d)
          PROVE  file'[Slot].open <=> file[Slot].open
      BY <2>1, ModuleKeepsFiles, SlotAssumption
    <2>2. ASSUME NEW f \in Files \ {Slot},
                 Close(f) \/ \E n \in Node : Open(f, n)
          PROVE  file'[Slot] = file[Slot]
      BY <2>2, SlotAssumption DEF Close, Open, TypeOK
    <2> QED BY <2>1, <2>2 DEF Others
  <1> QED
    BY <1>1 DEF clientVars, ClientInv, Running, Failing, Ended,
       Client!Buffer

LEMMA ClientInvStep ==
  ASSUME TypeOK, ClientInv, [WNext]_wifiVars
  PROVE  ClientInv'
  <1>1. CASE UNCHANGED wifiVars
    BY <1>1 DEF wifiVars, vars, clientVars, ClientInv, Running, Failing,
       Ended, Client!Buffer
  <1>2. CASE ClientStep
    BY <1>2, OpensKeeps, OpenFailsKeeps, StubWriteKeeps, StubReadKeeps,
       NoHandlerKeeps, ClosesKeeps, DiesKeeps, AloneKeeps DEF ClientStep
  <1>3. CASE Others /\ UNCHANGED clientVars
    BY <1>3, OthersKeep
  <1> QED BY <1>1, <1>2, <1>3 DEF WNext

LEMMA ClientInvariance == WSpec => []ClientInv
  <1>1. WInit => ClientInv
    BY SlotAssumption
    DEF WInit, Init, Closed, Client!Init, Client!Junk, Client!Buffer,
        Client!Cells, ClientInv, Ended, Client!Ends
  <1>2. IInv /\ ClientInv /\ [WNext]_wifiVars => ClientInv'
    BY ClientInvStep DEF IInv, Core
  <1> QED BY <1>1, <1>2, DriversInvariance, PTL DEF WSpec

\* No driver the number may lead to makes the program print anything, whichever
\* of them serves the node at each call, however they come and go, and whatever
\* the size of the buffer.
THEOREM ClientPrintsNothing == WSpec => []PrintsNothing
  <1>1. ClientInv => PrintsNothing
    BY DEF ClientInv, PrintsNothing
  <1> QED BY <1>1, ClientInvariance, PTL

\* The program calls only through a descriptor it has, and leaves none behind:
\* at its end, on its error paths and when it dies in a driver that is gone.
THEOREM ClientLeavesNoFile == WSpec => []ClientClosesItsNode
  <1>1. ClientInv => ClientClosesItsNode
    BY DEF ClientInv, Running, Failing, Ended, Client!Ends,
       ClientClosesItsNode
  <1> QED BY <1>1, ClientInvariance, PTL
===============================================================================
