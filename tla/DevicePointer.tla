----------------------------- MODULE DevicePointer -----------------------------
(***************************************************************************)
(* What a driver with one global device pointer owes those who use the     *)
(* pointer: it is null, or it names a device that the driver has been      *)
(* given and has not yet given back.  It moves to another device only when *)
(* that device is given, and it never moves from null to a device that the *)
(* driver had before.                                                      *)
(***************************************************************************)
CONSTANTS
  Devices,
  NoDevice   \* a null pointer

VARIABLES
  known,     \* the devices the driver has been given
  ptr        \* its pointer

vars == <<known, ptr>>

Init ==
  /\ known = {}
  /\ ptr = NoDevice

\* The driver is given d, and names it from then on.
Give(d) ==
  /\ d \notin known
  /\ known' = known \cup {d}
  /\ ptr' = d

\* The driver gives d back.  It may forget the device it names, and must when
\* that is d.
TakeBack(d) ==
  /\ d \in known
  /\ known' = known \ {d}
  /\ \/ ptr' = NoDevice
     \/ ptr # d /\ UNCHANGED ptr

Next == \E d \in Devices : Give(d) \/ TakeBack(d)

Spec == Init /\ [][Next]_vars
===============================================================================
