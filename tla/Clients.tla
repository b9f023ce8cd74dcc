-------------------------------- MODULE Clients --------------------------------
(***************************************************************************)
(* A process that runs one of the programs of ClientCode after another.    *)
(* Every call may fail, a write may be short, and a read may return fewer  *)
(* bytes than there is room for, or none.  The contents of the buffer are  *)
(* followed to see where what the program prints has come from.            *)
(***************************************************************************)
EXTENDS ClientCode, FiniteSets

CONSTANTS
  Programs,  \* the programs on the machine
  Size       \* the bytes of a buffer

ASSUME ProgramsAssumption == Programs \subseteq AllPrograms
ASSUME SizeAssumption     == Size \in Nat \ {0, 1}

VARIABLES
  prog,   \* the program that runs, or "none"
  pc,     \* its next call
  held,   \* the resources it has
  undo,   \* what its error path has still to release
  state,  \* "running", "failing", or how the last program ended
  buf,    \* its buffer
  got,    \* what its last read returned
  shown   \* the kinds of bytes it has printed as received

vars == <<prog, pc, held, undo, state, buf, got, shown>>

\* "junk" was never written, "sent" is the program's own, "recv" came from
\* the device, and "nul" is a zero byte.  "past" is what lies behind the end.
Cells == {"junk", "sent", "recv", "nul"}
Buffer == [1..Size -> Cells]
Ends == {"returned", "exited", "killed"}

TypeOK ==
  /\ prog \in Programs \cup {"none"}
  /\ pc \in Nat \ {0}
  /\ held \subseteq Resources
  /\ undo \in Seq(Resources)
  /\ state \in {"running", "failing"} \cup Ends
  /\ buf \in Buffer
  /\ got \in 0..Size
  /\ shown \subseteq Cells \cup {"past"}

Junk == [i \in 1..Size |-> "junk"]

Init ==
  /\ prog = "none" /\ state = "returned"
  /\ pc = 1 /\ held = {} /\ undo = <<>>
  /\ buf = Junk /\ got = 0 /\ shown = {}

\* main() of program p starts.  What the last one left the kernel has
\* taken back.
Start(p) ==
  /\ state \in Ends
  /\ prog' = p /\ state' = "running"
  /\ pc' = 1 /\ held' = {} /\ undo' = <<>>
  /\ buf' = Junk /\ got' = 0 /\ shown' = {}

Here == Code[prog][pc]
AtCall == state = "running" /\ pc <= Len(Code[prog])

-----------------------------------------------------------------------------
(* What the calls do.                                                      *)

\* The buffer after a message of the program's own has been put into it: a
\* text is shorter than the buffer and ends with a zero.
Filled(op) ==
  IF op = "fill_text"
    THEN [buf EXCEPT ![1] = "sent", ![2] = "nul"]
    ELSE [i \in 1..Size |-> "sent"]

Fill ==
  /\ AtCall /\ Here.op \in {"fill_text", "fill_bytes"}
  /\ buf' = Filled(Here.op)
  /\ pc' = pc + 1
  /\ UNCHANGED <<prog, held, undo, state, got, shown>>

\* A call that moves no bytes into the buffer, or whose failure nobody sees.
Call ==
  /\ AtCall /\ Here.op = "none"
  /\ held' = held \cup Here.take
  /\ pc' = pc + 1
  /\ UNCHANGED <<prog, undo, state, buf, got, shown>>

Room == IF Here.op = "read_less_one" THEN Size - 1 ELSE Size

\* read, ioctl or hci_inquiry has put n bytes into the buffer.
ReadSome(n) ==
  /\ AtCall /\ Here.op \in {"read", "read_less_one"}
  /\ n <= Room
  /\ Here.fails = "short" => n = Room
  /\ \E data \in [1..n -> {"recv", "nul"}] :
       buf' = [i \in 1..Size |-> IF i <= n THEN data[i] ELSE buf[i]]
  /\ got' = n
  /\ held' = held \cup Here.take
  /\ pc' = pc + 1
  /\ UNCHANGED <<prog, undo, state, shown>>

\* A CAN frame comes whole, whatever its length; 0 means that none has come.
ReadFrame ==
  /\ AtCall /\ Here.op = "read_frame"
  /\ \/ /\ got' = Size
        /\ buf' \in [1..Size -> {"recv", "nul"}]
     \/ /\ got' = 0
        /\ UNCHANGED buf
  /\ pc' = pc + 1
  /\ UNCHANGED <<prog, held, undo, state, shown>>

\* buffer[num_bytes] = '\0'.
Terminate ==
  /\ AtCall /\ Here.op = "terminate"
  /\ buf' = [buf EXCEPT ![got + 1] = "nul"]
  /\ pc' = pc + 1
  /\ UNCHANGED <<prog, held, undo, state, got, shown>>

\* What printf("%s") prints: all up to the first zero byte.
Text ==
  IF \A i \in 1..Size : buf[i] # "nul"
    THEN {buf[i] : i \in 1..Size} \cup {"past"}
    ELSE {buf[i] : i \in {j \in 1..Size : \A k \in 1..j : buf[k] # "nul"}}

Show ==
  /\ AtCall
  /\ \/ /\ \/ Here.op = "show_string"
           \/ Here.op = "show_string_if_any" /\ got > 0
        /\ shown' = Text
     \/ /\ Here.op = "show_string_if_any" /\ got = 0
        /\ UNCHANGED shown
     \/ /\ Here.op = "show_bytes"
        /\ shown' = {buf[i] : i \in 1..Size}
     \/ /\ Here.op = "show_counted"
        /\ shown' = {buf[i] : i \in 1..got}
  /\ pc' = pc + 1
  /\ UNCHANGED <<prog, held, undo, state, buf, got>>

\* close, free, nlmsg_free, nl_socket_free.
ReleaseOne ==
  /\ AtCall /\ Here.op = "release"
  /\ held' = held \ Here.on
  /\ pc' = pc + 1
  /\ UNCHANGED <<prog, undo, state, buf, got, shown>>

-----------------------------------------------------------------------------
(* Failures and ends.                                                      *)

Fail_IsACount ==
  /\ AtCall /\ Here.fails \in {"error", "short"}
  /\ got' = Size + 1
  /\ pc' = pc + 1
  /\ UNCHANGED <<prog, held, undo, state, buf, shown>>

\* The call fails, or moves too little: the error path begins.
Fail ==
  /\ AtCall /\ Here.fails \in {"error", "short"}
  /\ state' = "failing"
  /\ undo' = Here.undo
  /\ UNCHANGED <<prog, pc, held, buf, got, shown>>

\* A socket call gets the cache, and takes what it finds there for a socket.
Misused ==
  \/ AtCall /\ "cache" \in Here.on
  \/ state = "failing" /\ undo # <<>> /\ Head(undo) = "cache"

\* malloc returns null, and the program writes through it; or a call that has
\* got the wrong object, which may also succeed or fail, goes astray in it.
Fault ==
  /\ (AtCall /\ Here.fails = "fault") \/ Misused
  /\ state' = "killed"
  /\ UNCHANGED <<prog, pc, held, undo, buf, got, shown>>

\* The error path releases the next resource.
Undo ==
  /\ state = "failing" /\ undo # <<>>
  /\ held' = held \ {Head(undo)}
  /\ undo' = Tail(undo)
  /\ UNCHANGED <<prog, pc, state, buf, got, shown>>

Undone ==
  /\ state = "failing" /\ undo = <<>>
  /\ state' = "exited"
  /\ UNCHANGED <<prog, pc, held, undo, buf, got, shown>>

\* main() returns 0.
Finish ==
  /\ state = "running" /\ pc > Len(Code[prog])
  /\ state' = "returned"
  /\ UNCHANGED <<prog, pc, held, undo, buf, got, shown>>

ProgramStep ==
  \/ Fill \/ Call \/ ReadFrame \/ Terminate \/ Show
  \/ ReleaseOne \/ Fail \/ Fault \/ Undo \/ Undone \/ Finish
  \/ \E n \in 0..Size : ReadSome(n)

Next == ProgramStep \/ \E p \in Programs : Start(p)

Spec == Init /\ [][Next]_vars

-----------------------------------------------------------------------------
(* Properties.                                                             *)

\* The programs that leave some of what they took to the kernel: spi exits
\* with its descriptor open, net_usp never closes, and scan has lost its
\* socket.
Careless == {"spi", "net_usp", "scan"}

\* A program that has ended, whichever of its calls failed, has released all
\* it had taken.
ReleasedWhenDone ==
  state \in Ends /\ prog \notin Careless => held = {}

\* No call is made on a resource the program does not have: nothing is used
\* after it was closed, and nothing is closed or freed twice, on the way
\* through or on an error path.  That the object is of the kind the call is for
\* is not said: scan's is not, see Misused.
CallsHaveTheirResources ==
  /\ AtCall => Here.on \subseteq held
  /\ state = "failing" =>
       \A i \in 1..Len(undo) :
         undo[i] \in held /\ \A j \in 1..(i - 1) : undo[j] # undo[i]

\* The three careless programs leave something to the kernel on every way out
\* after a certain call, and on none before it: spi its descriptor when a call
\* after the open fails, scan its socket and the cache's entries once the cache
\* has the socket's variable, and net_usp all that it has taken.  Where scan
\* does not die in a misused call, that is all it leaves.
WhatTheCarelessKeep ==
  state \in Ends =>
    /\ prog = "spi" =>
         held = IF state = "exited" /\ pc > 1 THEN {"fd"} ELSE {}
    /\ prog = "scan" =>
         LET lost == IF pc > 3 THEN {"nlsock", "entries"} ELSE {} IN
         /\ lost \subseteq held
         /\ state # "killed" => held = lost
    /\ prog = "net_usp" =>
         held = (IF pc > 1 THEN {"fd"} ELSE {})
                  \cup (IF pc > 2 THEN {"packet"} ELSE {})

\* What a program prints as received was received, after short reads as after
\* full ones: not what it has sent, nor bytes nobody wrote.  usb, uart and
\* scan do not check that, and a CAN frame may fill its data without a zero.
ShownWasReceived ==
  prog \notin {"none", "usb", "uart", "scan"} =>
    shown \subseteq {"recv", "nul"} \cup (IF prog = "can" THEN {"past"} ELSE {})

\* What three programs say of what they print: Usb_userSpace_test_v1_1.c:38
\* "Print the received data", Uart_userSpace_v1_1.c:31 "Display received
\* data", Wifi-userSpace.c:95 "Wi-Fi scan result".
PrintsReceived ==
  prog \in {"usb", "uart", "scan"} => shown \subseteq {"recv", "nul"}
===============================================================================
