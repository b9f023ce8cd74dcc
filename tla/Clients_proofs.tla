---------------------------- MODULE Clients_proofs ----------------------------
(***************************************************************************)
(* What the user-space programs keep, use and print, whichever of their    *)
(* calls fail and however little a read returns, for every buffer size.    *)
(* The first half looks at the tables of ClientCode alone: what a program  *)
(* has before each of its calls, and that the call and its error path fit  *)
(* that.  The second half follows a run of a program along its table, and  *)
(* the last part says what each program leaves behind.                     *)
(***************************************************************************)
EXTENDS Clients, TLAPS

Elems(s) == {s[i] : i \in 1..Len(s)}

\* The resources a call gives up.
Freed(s) == IF s.op = "release" THEN s.on ELSE {}

\* What p has before its k-th call, when the calls before it succeed.
Had(p, k) ==
  {r \in Resources :
     \E i \in 1..(k - 1) :
       /\ r \in Code[p][i].take
       /\ \A j \in (i + 1)..(k - 1) : r \notin Freed(Code[p][j])}

\* A list of releases that a holder of R can make: it has each of them, and
\* releases none twice.
Releasable(s, R) ==
  /\ Elems(s) \subseteq R
  /\ \A i, j \in 1..Len(s) : i # j => s[i] # s[j]

\* The programs ShownWasReceived is about.
Checked == AllPrograms \ {"usb", "uart", "scan"}

Ops == {"none", "fill_text", "fill_bytes", "read", "read_less_one",
        "read_frame", "terminate", "show_string", "show_string_if_any",
        "show_bytes", "show_counted", "release"}

Entry ==
  [op : Ops, on : SUBSET Resources, take : SUBSET Resources,
   fails : {"error", "short", "never", "fault"}, undo : Seq(Resources)]

\* What p prints at its k-th call is what the call before it has received, or
\* has put an end to.  A text without an end is printed by can alone.
ReadsFirst(p, k) ==
  LET op     == Code[p][k].op
      before == Code[p][k - 1]
  IN  /\ op \in {"terminate", "show_string", "show_string_if_any",
                 "show_bytes", "show_counted"} => k > 1
      /\ op = "terminate"          => before.op = "read_less_one"
      /\ op = "show_string"        => before.op = "terminate"
      /\ op = "show_string_if_any" => before.op = "read_frame" /\ p = "can"
      /\ op = "show_counted"       => before.op = "read"
      /\ op = "show_bytes" => before.op = "read" /\ before.fails = "short"

\* p's k-th call has what it works on, and its error path releases what p has
\* by then: nothing else, and all of it unless p is careless.
StepIsSound(p, k) ==
  LET s == Code[p][k] IN
  /\ s.on \subseteq Had(p, k)
  /\ s.op \notin {"none", "read", "read_less_one"} => s.take = {}
  /\ s.fails \in {"error", "short"} =>
       /\ Releasable(s.undo, Had(p, k))
       /\ p \notin Careless => Had(p, k) \subseteq Elems(s.undo)
  /\ s.fails = "fault" \/ "cache" \in s.on \cup Elems(s.undo) => p \in Careless
  /\ p \in Checked => ReadsFirst(p, k)

CodeIsSound(p) ==
  /\ Code[p] \in Seq(Entry)
  /\ \A k \in 1..Len(Code[p]) : StepIsSound(p, k)
  /\ p \notin Careless => Had(p, Len(Code[p]) + 1) = {}

\* What p still has after the error path of its k-th call.
Kept(p, k) == Had(p, k) \ Elems(Code[p][k].undo)

-----------------------------------------------------------------------------
(* The tables.                                                             *)

\* The release lists that occur in the programs.
LEMMA UndoLists ==
  /\ Elems(<<>>) = {}
  /\ Elems(<<"fd">>) = {"fd"}
  /\ Elems(<<"nlsock">>) = {"nlsock"}
  /\ Elems(<<"cache">>) = {"cache"}
  /\ Elems(<<"msg", "cache">>) = {"msg", "cache"}
  /\ \A R : Releasable(<<>>, R)
  /\ \A R : "fd" \in R => Releasable(<<"fd">>, R)
  /\ \A R : "nlsock" \in R => Releasable(<<"nlsock">>, R)
  /\ \A R : "cache" \in R => Releasable(<<"cache">>, R)
  /\ \A R : {"msg", "cache"} \subseteq R => Releasable(<<"msg", "cache">>, R)
BY DEF Elems, Releasable

\* A program starts with nothing.
LEMMA HadFirst == \A p : Had(p, 1) = {}
BY DEF Had

\* A call adds what it takes and loses what it frees.
LEMMA HadNext ==
  ASSUME NEW p, NEW k \in Nat \ {0}, NEW m, m = k + 1,
         Code[p][k].take \subseteq Resources
  PROVE  Had(p, m) = (Had(p, k) \ Freed(Code[p][k])) \cup Code[p][k].take
<1>1. ASSUME NEW r \in Resources
      PROVE  r \in Had(p, k + 1) <=>
               \/ r \in Code[p][k].take
               \/ r \in Had(p, k) /\ r \notin Freed(Code[p][k])
  <2>1. ASSUME r \in Had(p, k + 1)
        PROVE  \/ r \in Code[p][k].take
               \/ r \in Had(p, k) /\ r \notin Freed(Code[p][k])
    BY <2>1 DEF Had
  <2>2. ASSUME r \in Code[p][k].take PROVE r \in Had(p, k + 1)
    BY <2>2 DEF Had
  <2>3. ASSUME r \in Had(p, k), r \notin Freed(Code[p][k])
        PROVE  r \in Had(p, k + 1)
    BY <2>3 DEF Had
  <2> QED BY <2>1, <2>2, <2>3
<1> QED BY <1>1 DEF Had

\* Wi-fi_userSpace.c.
LEMMA WifiSound == CodeIsSound("wifi")
<1> DEFINE p == "wifi"
<1> USE DEF Resources, Careless
<1>1. Code[p] = WifiClient
  BY DEF Code
<1>2. /\ Len(WifiClient) = 6
      /\ WifiClient[1] = Take("fd", <<>>)
      /\ WifiClient[2] = Write("error", <<"fd">>)
      /\ WifiClient[3] = Read("read_less_one", "error", <<"fd">>)
      /\ WifiClient[4] = Local("terminate")
      /\ WifiClient[5] = Local("show_string")
      /\ WifiClient[6] = Drop("fd")
  BY DEF WifiClient
<1>3. /\ Code[p][1].take = {"fd"} /\ Freed(Code[p][1]) = {}
      /\ Code[p][2].take = {} /\ Freed(Code[p][2]) = {}
      /\ Code[p][3].take = {} /\ Freed(Code[p][3]) = {}
      /\ Code[p][4].take = {} /\ Freed(Code[p][4]) = {}
      /\ Code[p][5].take = {} /\ Freed(Code[p][5]) = {}
      /\ Code[p][6].take = {} /\ Freed(Code[p][6]) = {"fd"}
  BY <1>1, <1>2 DEF Freed, Drop, Local, Read, Take, Write, Step
<1>4. /\ Had(p, 1) = {}
      /\ Had(p, 2) = {"fd"}
      /\ Had(p, 3) = {"fd"}
      /\ Had(p, 4) = {"fd"}
      /\ Had(p, 5) = {"fd"}
      /\ Had(p, 6) = {"fd"}
      /\ Had(p, 7) = {}
  <2>1. Had(p, 1) = {}
    BY HadFirst
  <2>2. Had(p, 2) = {"fd"}
    BY <1>3, <2>1, HadNext
  <2>3. Had(p, 3) = {"fd"}
    BY <1>3, <2>2, HadNext
  <2>4. Had(p, 4) = {"fd"}
    BY <1>3, <2>3, HadNext
  <2>5. Had(p, 5) = {"fd"}
    BY <1>3, <2>4, HadNext
  <2>6. Had(p, 6) = {"fd"}
    BY <1>3, <2>5, HadNext
  <2>7. Had(p, 7) = {}
    BY <1>3, <2>6, HadNext
  <2> QED BY <2>1, <2>2, <2>3, <2>4, <2>5, <2>6, <2>7
<1>5. ASSUME NEW k \in 1..6 PROVE StepIsSound(p, k)
  BY <1>1, <1>2, <1>4, UndoLists
  DEF StepIsSound, ReadsFirst, Checked, Drop, Local, Read, Take, Write, Step
<1>6. Code[p] \in Seq(Entry)
  BY <1>1 DEF WifiClient, Entry, Ops, Drop, Local, Read, Take, Write, Step
<1> QED BY <1>1, <1>2, <1>4, <1>5, <1>6 DEF CodeIsSound

\* Usb_userSpace_test_v1_1.c.
LEMMA UsbSound == CodeIsSound("usb")
<1> DEFINE p == "usb"
<1> USE DEF Resources, Careless
<1>1. Code[p] = UsbClient
  BY DEF Code
<1>2. /\ Len(UsbClient) = 6
      /\ UsbClient[1] = Take("fd", <<>>)
      /\ UsbClient[2] = Local("fill_text")
      /\ UsbClient[3] = Write("error", <<"fd">>)
      /\ UsbClient[4] = Read("read", "error", <<"fd">>)
      /\ UsbClient[5] = Local("show_string")
      /\ UsbClient[6] = Drop("fd")
  BY DEF UsbClient
<1>3. /\ Code[p][1].take = {"fd"} /\ Freed(Code[p][1]) = {}
      /\ Code[p][2].take = {} /\ Freed(Code[p][2]) = {}
      /\ Code[p][3].take = {} /\ Freed(Code[p][3]) = {}
      /\ Code[p][4].take = {} /\ Freed(Code[p][4]) = {}
      /\ Code[p][5].take = {} /\ Freed(Code[p][5]) = {}
      /\ Code[p][6].take = {} /\ Freed(Code[p][6]) = {"fd"}
  BY <1>1, <1>2 DEF Freed, Drop, Local, Read, Take, Write, Step
<1>4. /\ Had(p, 1) = {}
      /\ Had(p, 2) = {"fd"}
      /\ Had(p, 3) = {"fd"}
      /\ Had(p, 4) = {"fd"}
      /\ Had(p, 5) = {"fd"}
      /\ Had(p, 6) = {"fd"}
      /\ Had(p, 7) = {}
  <2>1. Had(p, 1) = {}
    BY HadFirst
  <2>2. Had(p, 2) = {"fd"}
    BY <1>3, <2>1, HadNext
  <2>3. Had(p, 3) = {"fd"}
    BY <1>3, <2>2, HadNext
  <2>4. Had(p, 4) = {"fd"}
    BY <1>3, <2>3, HadNext
  <2>5. Had(p, 5) = {"fd"}
    BY <1>3, <2>4, HadNext
  <2>6. Had(p, 6) = {"fd"}
    BY <1>3, <2>5, HadNext
  <2>7. Had(p, 7) = {}
    BY <1>3, <2>6, HadNext
  <2> QED BY <2>1, <2>2, <2>3, <2>4, <2>5, <2>6, <2>7
<1>5. ASSUME NEW k \in 1..6 PROVE StepIsSound(p, k)
  BY <1>1, <1>2, <1>4, UndoLists
  DEF StepIsSound, ReadsFirst, Checked, Drop, Local, Read, Take, Write, Step
<1>6. Code[p] \in Seq(Entry)
  BY <1>1 DEF UsbClient, Entry, Ops, Drop, Local, Read, Take, Write, Step
<1> QED BY <1>1, <1>2, <1>4, <1>5, <1>6 DEF CodeIsSound

\* Uart_userSpace_v1_1.c.
LEMMA UartSound == CodeIsSound("uart")
<1> DEFINE p == "uart"
<1> USE DEF Resources, Careless
<1>1. Code[p] = UartClient
  BY DEF Code
<1>2. /\ Len(UartClient) = 6
      /\ UartClient[1] = Take("fd", <<>>)
      /\ UartClient[2] = ConfigureUnchecked
      /\ UartClient[3] = Read("read", "error", <<"fd">>)
      /\ UartClient[4] = Local("show_string")
      /\ UartClient[5] = Write("error", <<"fd">>)
      /\ UartClient[6] = Drop("fd")
  BY DEF UartClient
<1>3. /\ Code[p][1].take = {"fd"} /\ Freed(Code[p][1]) = {}
      /\ Code[p][2].take = {} /\ Freed(Code[p][2]) = {}
      /\ Code[p][3].take = {} /\ Freed(Code[p][3]) = {}
      /\ Code[p][4].take = {} /\ Freed(Code[p][4]) = {}
      /\ Code[p][5].take = {} /\ Freed(Code[p][5]) = {}
      /\ Code[p][6].take = {} /\ Freed(Code[p][6]) = {"fd"}
  BY <1>1, <1>2 DEF Freed, ConfigureUnchecked, Drop, Local, Read, Take,
     Write, Step
<1>4. /\ Had(p, 1) = {}
      /\ Had(p, 2) = {"fd"}
      /\ Had(p, 3) = {"fd"}
      /\ Had(p, 4) = {"fd"}
      /\ Had(p, 5) = {"fd"}
      /\ Had(p, 6) = {"fd"}
      /\ Had(p, 7) = {}
  <2>1. Had(p, 1) = {}
    BY HadFirst
  <2>2. Had(p, 2) = {"fd"}
    BY <1>3, <2>1, HadNext
  <2>3. Had(p, 3) = {"fd"}
    BY <1>3, <2>2, HadNext
  <2>4. Had(p, 4) = {"fd"}
    BY <1>3, <2>3, HadNext
  <2>5. Had(p, 5) = {"fd"}
    BY <1>3, <2>4, HadNext
  <2>6. Had(p, 6) = {"fd"}
    BY <1>3, <2>5, HadNext
  <2>7. Had(p, 7) = {}
    BY <1>3, <2>6, HadNext
  <2> QED BY <2>1, <2>2, <2>3, <2>4, <2>5, <2>6, <2>7
<1>5. ASSUME NEW k \in 1..6 PROVE StepIsSound(p, k)
  BY <1>1, <1>2, <1>4, UndoLists
  DEF StepIsSound, ReadsFirst, Checked, ConfigureUnchecked, Drop, Local,
  Read, Take, Write, Step
<1>6. Code[p] \in Seq(Entry)
  BY <1>1 DEF UartClient, Entry, Ops, ConfigureUnchecked, Drop, Local, Read,
     Take, Write, Step
<1> QED BY <1>1, <1>2, <1>4, <1>5, <1>6 DEF CodeIsSound

\* I2c_userSpace_testV1_0.c.
LEMMA I2cSound == CodeIsSound("i2c")
<1> DEFINE p == "i2c"
<1> USE DEF Resources, Careless
<1>1. Code[p] = I2cClient
  BY DEF Code
<1>2. /\ Len(I2cClient) = 7
      /\ I2cClient[1] = Take("fd", <<>>)
      /\ I2cClient[2] = Configure(<<"fd">>)
      /\ I2cClient[3] = Local("fill_bytes")
      /\ I2cClient[4] = Write("short", <<"fd">>)
      /\ I2cClient[5] = Read("read", "short", <<"fd">>)
      /\ I2cClient[6] = Local("show_bytes")
      /\ I2cClient[7] = Drop("fd")
  BY DEF I2cClient
<1>3. /\ Code[p][1].take = {"fd"} /\ Freed(Code[p][1]) = {}
      /\ Code[p][2].take = {} /\ Freed(Code[p][2]) = {}
      /\ Code[p][3].take = {} /\ Freed(Code[p][3]) = {}
      /\ Code[p][4].take = {} /\ Freed(Code[p][4]) = {}
      /\ Code[p][5].take = {} /\ Freed(Code[p][5]) = {}
      /\ Code[p][6].take = {} /\ Freed(Code[p][6]) = {}
      /\ Code[p][7].take = {} /\ Freed(Code[p][7]) = {"fd"}
  BY <1>1, <1>2 DEF Freed, Configure, Drop, Local, Read, Take, Write, Step
<1>4. /\ Had(p, 1) = {}
      /\ Had(p, 2) = {"fd"}
      /\ Had(p, 3) = {"fd"}
      /\ Had(p, 4) = {"fd"}
      /\ Had(p, 5) = {"fd"}
      /\ Had(p, 6) = {"fd"}
      /\ Had(p, 7) = {"fd"}
      /\ Had(p, 8) = {}
  <2>1. Had(p, 1) = {}
    BY HadFirst
  <2>2. Had(p, 2) = {"fd"}
    BY <1>3, <2>1, HadNext
  <2>3. Had(p, 3) = {"fd"}
    BY <1>3, <2>2, HadNext
  <2>4. Had(p, 4) = {"fd"}
    BY <1>3, <2>3, HadNext
  <2>5. Had(p, 5) = {"fd"}
    BY <1>3, <2>4, HadNext
  <2>6. Had(p, 6) = {"fd"}
    BY <1>3, <2>5, HadNext
  <2>7. Had(p, 7) = {"fd"}
    BY <1>3, <2>6, HadNext
  <2>8. Had(p, 8) = {}
    BY <1>3, <2>7, HadNext
  <2> QED BY <2>1, <2>2, <2>3, <2>4, <2>5, <2>6, <2>7, <2>8
<1>5. ASSUME NEW k \in 1..7 PROVE StepIsSound(p, k)
  BY <1>1, <1>2, <1>4, UndoLists
  DEF StepIsSound, ReadsFirst, Checked, Configure, Drop, Local, Read, Take,
  Write, Step
<1>6. Code[p] \in Seq(Entry)
  BY <1>1 DEF I2cClient, Entry, Ops, Configure, Drop, Local, Read, Take,
     Write, Step
<1> QED BY <1>1, <1>2, <1>4, <1>5, <1>6 DEF CodeIsSound

\* Spi_userSpace_test_v1_0.c.
LEMMA SpiSound ==
  /\ CodeIsSound("spi")
  /\ \A k \in 1..6 : /\ Kept("spi", k) = IF k > 1 THEN {"fd"} ELSE {}
                     /\ Code["spi"][k].fails # "fault"
                     /\ "cache" \notin Code["spi"][k].on
                     /\ "cache" \notin Elems(Code["spi"][k].undo)
  /\ Len(Code["spi"]) = 6 /\ Had("spi", 7) = {}
<1> DEFINE p == "spi"
<1> USE DEF Resources, Careless
<1>1. Code[p] = SpiClient
  BY DEF Code
<1>2. /\ Len(SpiClient) = 6
      /\ SpiClient[1] = Take("fd", <<>>)
      /\ SpiClient[2] = Configure(<<>>)
      /\ SpiClient[3] = Configure(<<>>)
      /\ SpiClient[4] = Read("read", "short", <<>>)
      /\ SpiClient[5] = Local("show_bytes")
      /\ SpiClient[6] = Drop("fd")
  BY DEF SpiClient
<1>3. /\ Code[p][1].take = {"fd"} /\ Freed(Code[p][1]) = {}
      /\ Code[p][2].take = {} /\ Freed(Code[p][2]) = {}
      /\ Code[p][3].take = {} /\ Freed(Code[p][3]) = {}
      /\ Code[p][4].take = {} /\ Freed(Code[p][4]) = {}
      /\ Code[p][5].take = {} /\ Freed(Code[p][5]) = {}
      /\ Code[p][6].take = {} /\ Freed(Code[p][6]) = {"fd"}
  BY <1>1, <1>2 DEF Freed, Configure, Drop, Local, Read, Take, Step
<1>4. /\ Had(p, 1) = {}
      /\ Had(p, 2) = {"fd"}
      /\ Had(p, 3) = {"fd"}
      /\ Had(p, 4) = {"fd"}
      /\ Had(p, 5) = {"fd"}
      /\ Had(p, 6) = {"fd"}
      /\ Had(p, 7) = {}
  <2>1. Had(p, 1) = {}
    BY HadFirst
  <2>2. Had(p, 2) = {"fd"}
    BY <1>3, <2>1, HadNext
  <2>3. Had(p, 3) = {"fd"}
    BY <1>3, <2>2, HadNext
  <2>4. Had(p, 4) = {"fd"}
    BY <1>3, <2>3, HadNext
  <2>5. Had(p, 5) = {"fd"}
    BY <1>3, <2>4, HadNext
  <2>6. Had(p, 6) = {"fd"}
    BY <1>3, <2>5, HadNext
  <2>7. Had(p, 7) = {}
    BY <1>3, <2>6, HadNext
  <2> QED BY <2>1, <2>2, <2>3, <2>4, <2>5, <2>6, <2>7
<1>5. ASSUME NEW k \in 1..6 PROVE StepIsSound(p, k)
  BY <1>1, <1>2, <1>4, UndoLists
  DEF StepIsSound, ReadsFirst, Checked, Configure, Drop, Local, Read, Take, Step
<1>6. Code[p] \in Seq(Entry)
  BY <1>1 DEF SpiClient, Entry, Ops, Configure, Drop, Local, Read, Take, Step
<1>7. ASSUME NEW k \in 1..6
      PROVE  /\ Kept(p, k) = IF k > 1 THEN {"fd"} ELSE {}
             /\ Code[p][k].fails # "fault"
             /\ "cache" \notin Code[p][k].on
             /\ "cache" \notin Elems(Code[p][k].undo)
  BY <1>1, <1>2, <1>4, UndoLists DEF Kept, Configure, Drop, Local, Read, Take,
     Step
<1> QED BY <1>1, <1>2, <1>4, <1>5, <1>6, <1>7 DEF CodeIsSound

\* MyCanUserSpace.c.
LEMMA CanSound == CodeIsSound("can")
<1> DEFINE p == "can"
<1> USE DEF Resources, Careless
<1>1. Code[p] = CanClient
  BY DEF Code
<1>2. /\ Len(CanClient) = 8
      /\ CanClient[1] = Take("fd", <<>>)
      /\ CanClient[2] = ConfigureUnchecked
      /\ CanClient[3] = Configure(<<"fd">>)
      /\ CanClient[4] = Local("fill_text")
      /\ CanClient[5] = Write("short", <<"fd">>)
      /\ CanClient[6] = Read("read_frame", "error", <<"fd">>)
      /\ CanClient[7] = Local("show_string_if_any")
      /\ CanClient[8] = Drop("fd")
  BY DEF CanClient
<1>3. /\ Code[p][1].take = {"fd"} /\ Freed(Code[p][1]) = {}
      /\ Code[p][2].take = {} /\ Freed(Code[p][2]) = {}
      /\ Code[p][3].take = {} /\ Freed(Code[p][3]) = {}
      /\ Code[p][4].take = {} /\ Freed(Code[p][4]) = {}
      /\ Code[p][5].take = {} /\ Freed(Code[p][5]) = {}
      /\ Code[p][6].take = {} /\ Freed(Code[p][6]) = {}
      /\ Code[p][7].take = {} /\ Freed(Code[p][7]) = {}
      /\ Code[p][8].take = {} /\ Freed(Code[p][8]) = {"fd"}
  BY <1>1, <1>2 DEF Freed, Configure, ConfigureUnchecked, Drop, Local, Read,
     Take, Write, Step
<1>4. /\ Had(p, 1) = {}
      /\ Had(p, 2) = {"fd"}
      /\ Had(p, 3) = {"fd"}
      /\ Had(p, 4) = {"fd"}
      /\ Had(p, 5) = {"fd"}
      /\ Had(p, 6) = {"fd"}
      /\ Had(p, 7) = {"fd"}
      /\ Had(p, 8) = {"fd"}
      /\ Had(p, 9) = {}
  <2>1. Had(p, 1) = {}
    BY HadFirst
  <2>2. Had(p, 2) = {"fd"}
    BY <1>3, <2>1, HadNext
  <2>3. Had(p, 3) = {"fd"}
    BY <1>3, <2>2, HadNext
  <2>4. Had(p, 4) = {"fd"}
    BY <1>3, <2>3, HadNext
  <2>5. Had(p, 5) = {"fd"}
    BY <1>3, <2>4, HadNext
  <2>6. Had(p, 6) = {"fd"}
    BY <1>3, <2>5, HadNext
  <2>7. Had(p, 7) = {"fd"}
    BY <1>3, <2>6, HadNext
  <2>8. Had(p, 8) = {"fd"}
    BY <1>3, <2>7, HadNext
  <2>9. Had(p, 9) = {}
    BY <1>3, <2>8, HadNext
  <2> QED BY <2>1, <2>2, <2>3, <2>4, <2>5, <2>6, <2>7, <2>8, <2>9
<1>5. ASSUME NEW k \in 1..8 PROVE StepIsSound(p, k)
  BY <1>1, <1>2, <1>4, UndoLists
  DEF StepIsSound, ReadsFirst, Checked, Configure, ConfigureUnchecked, Drop,
  Local, Read, Take, Write, Step
<1>6. Code[p] \in Seq(Entry)
  BY <1>1 DEF CanClient, Entry, Ops, Configure, ConfigureUnchecked, Drop,
     Local, Read, Take, Write, Step
<1> QED BY <1>1, <1>2, <1>4, <1>5, <1>6 DEF CodeIsSound

\* Bluetooth_userSpace.c.
LEMMA BluetoothSound == CodeIsSound("bluetooth")
<1> DEFINE p == "bluetooth"
<1> USE DEF Resources, Careless
<1>1. Code[p] = BluetoothClient
  BY DEF Code
<1>2. /\ Len(BluetoothClient) = 5
      /\ BluetoothClient[1] = Take("fd", <<>>)
      /\ BluetoothClient[2] = Step("read", {}, {"list"}, "error", <<"fd">>)
      /\ BluetoothClient[3] = Local("show_counted")
      /\ BluetoothClient[4] = Drop("list")
      /\ BluetoothClient[5] = Drop("fd")
  BY DEF BluetoothClient
<1>3. /\ Code[p][1].take = {"fd"} /\ Freed(Code[p][1]) = {}
      /\ Code[p][2].take = {"list"} /\ Freed(Code[p][2]) = {}
      /\ Code[p][3].take = {} /\ Freed(Code[p][3]) = {}
      /\ Code[p][4].take = {} /\ Freed(Code[p][4]) = {"list"}
      /\ Code[p][5].take = {} /\ Freed(Code[p][5]) = {"fd"}
  BY <1>1, <1>2 DEF Freed, Drop, Local, Take, Step
<1>4. /\ Had(p, 1) = {}
      /\ Had(p, 2) = {"fd"}
      /\ Had(p, 3) = {"fd", "list"}
      /\ Had(p, 4) = {"fd", "list"}
      /\ Had(p, 5) = {"fd"}
      /\ Had(p, 6) = {}
  <2>1. Had(p, 1) = {}
    BY HadFirst
  <2>2. Had(p, 2) = {"fd"}
    BY <1>3, <2>1, HadNext
  <2>3. Had(p, 3) = {"fd", "list"}
    BY <1>3, <2>2, HadNext
  <2>4. Had(p, 4) = {"fd", "list"}
    BY <1>3, <2>3, HadNext
  <2>5. Had(p, 5) = {"fd"}
    BY <1>3, <2>4, HadNext
  <2>6. Had(p, 6) = {}
    BY <1>3, <2>5, HadNext
  <2> QED BY <2>1, <2>2, <2>3, <2>4, <2>5, <2>6
<1>5. ASSUME NEW k \in 1..5 PROVE StepIsSound(p, k)
  BY <1>1, <1>2, <1>4, UndoLists
  DEF StepIsSound, ReadsFirst, Checked, Drop, Local, Take, Step
<1>6. Code[p] \in Seq(Entry)
  BY <1>1 DEF BluetoothClient, Entry, Ops, Drop, Local, Take, Step
<1> QED BY <1>1, <1>2, <1>4, <1>5, <1>6 DEF CodeIsSound

\* Wifi-userSpace.c: the socket taken first is never released after the cache
\* has overwritten its variable.
LEMMA ScanSound ==
  /\ CodeIsSound("scan")
  /\ \A k \in 1..9 :
       /\ Code["scan"][k].fails = "error" =>
            Kept("scan", k) = IF k > 3 THEN {"nlsock", "entries"} ELSE {}
       /\ Code["scan"][k].fails \in {"error", "never"}
       /\ k > 3 => {"nlsock", "entries"} \subseteq Had("scan", k)
       /\ "cache" \in Code["scan"][k].on \cup Elems(Code["scan"][k].undo) =>
            k > 3
  /\ Len(Code["scan"]) = 9 /\ Had("scan", 10) = {"nlsock", "entries"}
<1> DEFINE p == "scan"
<1> USE DEF Resources, Careless
<1>1. Code[p] = ScanClient
  BY DEF Code
<1>2. /\ Len(ScanClient) = 9
      /\ ScanClient[1] = Take("nlsock", <<>>)
      /\ ScanClient[2] = Step("none", {"nlsock"}, {}, "error", <<"nlsock">>)
      /\ ScanClient[3] =
           Step("none", {"nlsock"}, {"cache", "entries"}, "error",
                <<"nlsock">>)
      /\ ScanClient[4] = Take("msg", <<"cache">>)
      /\ ScanClient[5] =
           Step("none", {"msg", "cache"}, {}, "error", <<"msg", "cache">>)
      /\ ScanClient[6] =
           Step("none", {"cache"}, {}, "error", <<"msg", "cache">>)
      /\ ScanClient[7] = Local("show_string")
      /\ ScanClient[8] = Drop("msg")
      /\ ScanClient[9] = Drop("cache")
  BY DEF ScanClient
<1>3. /\ Code[p][1].take = {"nlsock"} /\ Freed(Code[p][1]) = {}
      /\ Code[p][2].take = {} /\ Freed(Code[p][2]) = {}
      /\ Code[p][3].take = {"cache", "entries"} /\ Freed(Code[p][3]) = {}
      /\ Code[p][4].take = {"msg"} /\ Freed(Code[p][4]) = {}
      /\ Code[p][5].take = {} /\ Freed(Code[p][5]) = {}
      /\ Code[p][6].take = {} /\ Freed(Code[p][6]) = {}
      /\ Code[p][7].take = {} /\ Freed(Code[p][7]) = {}
      /\ Code[p][8].take = {} /\ Freed(Code[p][8]) = {"msg"}
      /\ Code[p][9].take = {} /\ Freed(Code[p][9]) = {"cache"}
  BY <1>1, <1>2 DEF Freed, Drop, Local, Take, Step
<1>4. /\ Had(p, 1) = {}
      /\ Had(p, 2) = {"nlsock"}
      /\ Had(p, 3) = {"nlsock"}
      /\ Had(p, 4) = {"nlsock", "entries", "cache"}
      /\ Had(p, 5) = {"nlsock", "entries", "cache", "msg"}
      /\ Had(p, 6) = {"nlsock", "entries", "cache", "msg"}
      /\ Had(p, 7) = {"nlsock", "entries", "cache", "msg"}
      /\ Had(p, 8) = {"nlsock", "entries", "cache", "msg"}
      /\ Had(p, 9) = {"nlsock", "entries", "cache"}
      /\ Had(p, 10) = {"nlsock", "entries"}
  <2>1. Had(p, 1) = {}
    BY HadFirst
  <2>2. Had(p, 2) = {"nlsock"}
    BY <1>3, <2>1, HadNext
  <2>3. Had(p, 3) = {"nlsock"}
    BY <1>3, <2>2, HadNext
  <2>4. Had(p, 4) = {"nlsock", "entries", "cache"}
    BY <1>3, <2>3, HadNext
  <2>5. Had(p, 5) = {"nlsock", "entries", "cache", "msg"}
    BY <1>3, <2>4, HadNext
  <2>6. Had(p, 6) = {"nlsock", "entries", "cache", "msg"}
    BY <1>3, <2>5, HadNext
  <2>7. Had(p, 7) = {"nlsock", "entries", "cache", "msg"}
    BY <1>3, <2>6, HadNext
  <2>8. Had(p, 8) = {"nlsock", "entries", "cache", "msg"}
    BY <1>3, <2>7, HadNext
  <2>9. Had(p, 9) = {"nlsock", "entries", "cache"}
    BY <1>3, <2>8, HadNext
  <2>10. Had(p, 10) = {"nlsock", "entries"}
    BY <1>3, <2>9, HadNext
  <2> QED BY <2>1, <2>2, <2>3, <2>4, <2>5, <2>6, <2>7, <2>8, <2>9, <2>10
<1>5. ASSUME NEW k \in 1..9 PROVE StepIsSound(p, k)
  BY <1>1, <1>2, <1>4, UndoLists
  DEF StepIsSound, ReadsFirst, Checked, Drop, Local, Take, Step
<1>6. Code[p] \in Seq(Entry)
  BY <1>1 DEF ScanClient, Entry, Ops, Drop, Local, Take, Step
<1>7. ASSUME NEW k \in 1..9
      PROVE  /\ Code[p][k].fails = "error" =>
                  Kept(p, k) = IF k > 3 THEN {"nlsock", "entries"} ELSE {}
             /\ Code[p][k].fails \in {"error", "never"}
             /\ k > 3 => {"nlsock", "entries"} \subseteq Had(p, k)
             /\ "cache" \in Code[p][k].on \cup Elems(Code[p][k].undo) =>
                  k > 3
  BY <1>1, <1>2, <1>4, UndoLists DEF Kept, Drop, Local, Take, Step
<1> QED BY <1>1, <1>2, <1>4, <1>5, <1>6, <1>7 DEF CodeIsSound

\* net_usp.c.
LEMMA NetUspSound ==
  /\ CodeIsSound("net_usp")
  /\ \A k \in 1..3 : /\ Kept("net_usp", k) = Had("net_usp", k)
                     /\ "cache" \notin Elems(Code["net_usp"][k].undo)
  /\ Had("net_usp", 1) = {} /\ Had("net_usp", 2) = {"fd"}
  /\ Had("net_usp", 3) = {"fd", "packet"}
  /\ Had("net_usp", 4) = {"fd", "packet"}
  /\ Len(Code["net_usp"]) = 3
<1> DEFINE p == "net_usp"
<1> USE DEF Resources, Careless
<1>1. Code[p] = NetUspClient
  BY DEF Code
<1>2. /\ Len(NetUspClient) = 3
      /\ NetUspClient[1] = Take("fd", <<>>)
      /\ NetUspClient[2] = Step("none", {}, {"packet"}, "fault", <<>>)
      /\ NetUspClient[3] = Step("none", {"fd", "packet"}, {}, "error", <<>>)
  BY DEF NetUspClient
<1>3. /\ Code[p][1].take = {"fd"} /\ Freed(Code[p][1]) = {}
      /\ Code[p][2].take = {"packet"} /\ Freed(Code[p][2]) = {}
      /\ Code[p][3].take = {} /\ Freed(Code[p][3]) = {}
  BY <1>1, <1>2 DEF Freed, Take, Step
<1>4. /\ Had(p, 1) = {}
      /\ Had(p, 2) = {"fd"}
      /\ Had(p, 3) = {"fd", "packet"}
      /\ Had(p, 4) = {"fd", "packet"}
  <2>1. Had(p, 1) = {}
    BY HadFirst
  <2>2. Had(p, 2) = {"fd"}
    BY <1>3, <2>1, HadNext
  <2>3. Had(p, 3) = {"fd", "packet"}
    BY <1>3, <2>2, HadNext
  <2>4. Had(p, 4) = {"fd", "packet"}
    BY <1>3, <2>3, HadNext
  <2> QED BY <2>1, <2>2, <2>3, <2>4
<1>5. ASSUME NEW k \in 1..3 PROVE StepIsSound(p, k)
  BY <1>1, <1>2, <1>4, UndoLists
  DEF StepIsSound, ReadsFirst, Checked, Take, Step
<1>6. Code[p] \in Seq(Entry)
  BY <1>1 DEF NetUspClient, Entry, Ops, Take, Step
<1>7. ASSUME NEW k \in 1..3
      PROVE  Kept(p, k) = Had(p, k) /\ "cache" \notin Elems(Code[p][k].undo)
  BY <1>1, <1>2, UndoLists DEF Kept, Take, Step
<1> QED BY <1>1, <1>2, <1>4, <1>5, <1>6, <1>7 DEF CodeIsSound

LEMMA AllProgramsSound == \A p \in AllPrograms : CodeIsSound(p)
BY WifiSound, UsbSound, UartSound, I2cSound, SpiSound, CanSound,
   BluetoothSound, ScanSound, NetUspSound DEF AllPrograms

-----------------------------------------------------------------------------
(* The invariant.                                                          *)

\* A program on its way through has what its table says.
HasWhatItTook ==
  state = "running" =>
    /\ prog \in Programs
    /\ pc \in 1..(Len(Code[prog]) + 1)
    /\ held = Had(prog, pc)

\* An error path can make the releases that are left; a careful program has
\* nothing else, and misuses no cache.
UndoesWhatItHas ==
  state = "failing" =>
    /\ prog \in Programs
    /\ Releasable(undo, held)
    /\ prog \notin Careless =>
         held \subseteq Elems(undo) /\ "cache" \notin Elems(undo)

Received(n) == \A i \in 1..n : buf[i] \in {"recv", "nul"}

\* When the next call prints, or ends the text that will be printed, the part
\* of the buffer that it is about has been received.
BufferIsReady ==
  AtCall /\ prog \in Checked =>
    LET op == Here.op IN
    /\ op = "terminate"   => got < Size /\ Received(got)
    /\ op = "show_string" =>
         got < Size /\ Received(got) /\ buf[got + 1] = "nul"
    /\ op = "show_string_if_any" /\ got > 0 => Received(Size)
    /\ op = "show_counted"       => Received(got)
    /\ op = "show_bytes"         => Received(Size)

IInv ==
  /\ TypeOK
  /\ HasWhatItTook
  /\ UndoesWhatItHas
  /\ BufferIsReady
  /\ ReleasedWhenDone
  /\ ShownWasReceived

\* What is known at a call: the table's entry fits what the program has.
LEMMA CallFacts ==
  ASSUME IInv, AtCall
  PROVE  /\ prog \in Programs /\ prog \in AllPrograms
         /\ pc \in 1..Len(Code[prog]) /\ Len(Code[prog]) \in Nat
         /\ Here \in Entry
         /\ StepIsSound(prog, pc)
         /\ held = Had(prog, pc)
         /\ Had(prog, pc + 1) = (held \ Freed(Here)) \cup Here.take
<1>1. /\ prog \in Programs /\ prog \in AllPrograms
      /\ pc \in 1..(Len(Code[prog]) + 1) /\ pc <= Len(Code[prog])
      /\ held = Had(prog, pc)
  BY ProgramsAssumption DEF IInv, HasWhatItTook, AtCall
<1>2. CodeIsSound(prog)
  BY <1>1, AllProgramsSound
<1>3. Len(Code[prog]) \in Nat /\ pc \in 1..Len(Code[prog])
  BY <1>1, <1>2 DEF CodeIsSound
<1>4. Here \in Entry /\ StepIsSound(prog, pc)
  BY <1>2, <1>3 DEF CodeIsSound, Here
<1>5. Here.take \subseteq Resources
  BY <1>4 DEF Entry
<1>6. Had(prog, pc + 1) = (held \ Freed(Here)) \cup Here.take
  BY <1>1, <1>3, <1>5, HadNext DEF Here
<1> QED BY <1>1, <1>3, <1>4, <1>6

\* A call that is made adds what it takes, loses what it frees, and leaves
\* the program at the next one.
LEMMA CallPasses ==
  ASSUME IInv, AtCall,
         pc' = pc + 1, UNCHANGED <<prog, state>>,
         held' = (held \ Freed(Here)) \cup Here.take
  PROVE  /\ HasWhatItTook' /\ UndoesWhatItHas' /\ ReleasedWhenDone'
         /\ pc' \in Nat \ {0} /\ held' \subseteq Resources
<1>1. state = "running" /\ state' = "running"
  BY DEF AtCall
<1>2. HasWhatItTook'
  BY <1>1, CallFacts DEF HasWhatItTook
<1>3. pc' \in Nat \ {0} /\ held' \subseteq Resources
  BY CallFacts DEF Entry, IInv, TypeOK
<1> QED BY <1>1, <1>2, <1>3 DEF UndoesWhatItHas, ReleasedWhenDone, Ends

\* A call of a checked program that prints comes right after the one that has
\* filled or ended what it prints.
LEMMA ReadBeforeShow ==
  ASSUME IInv, AtCall, AtCall', prog \in Checked,
         pc' = pc + 1, UNCHANGED prog
  PROVE  LET op == Here'.op IN
         /\ op = "terminate"          => Here.op = "read_less_one"
         /\ op = "show_string"        => Here.op = "terminate"
         /\ op = "show_string_if_any" => Here.op = "read_frame"
         /\ op = "show_counted"       => Here.op = "read"
         /\ op = "show_bytes" => Here.op = "read" /\ Here.fails = "short"
<1>1. /\ prog \in AllPrograms
      /\ pc \in 1..Len(Code[prog]) /\ Len(Code[prog]) \in Nat
  BY CallFacts
<1>2. pc + 1 \in 1..Len(Code[prog])
  BY <1>1 DEF AtCall
<1>3. StepIsSound(prog, pc + 1)
  BY <1>1, <1>2, AllProgramsSound DEF CodeIsSound
<1>4. ReadsFirst(prog, pc + 1)
  BY <1>3 DEF StepIsSound
<1>5. Here' = Code[prog][pc + 1] /\ Here = Code[prog][(pc + 1) - 1]
  BY <1>1 DEF Here
<1> QED BY <1>4, <1>5 DEF ReadsFirst

\* After a call that fills nothing in, the next one prints nothing.
LEMMA QuietCall ==
  ASSUME IInv, AtCall, pc' = pc + 1, UNCHANGED <<prog, state>>,
         Here.op \notin {"read", "read_less_one", "read_frame", "terminate"}
  PROVE  BufferIsReady'
BY ReadBeforeShow DEF BufferIsReady

-----------------------------------------------------------------------------
(* The calls.                                                              *)

LEMMA StartStep ==
  ASSUME IInv, NEW p \in Programs, Start(p)
  PROVE  IInv'
<1> USE DEF Start, IInv
<1>1. CodeIsSound(p)
  BY AllProgramsSound, ProgramsAssumption
<1>2. TypeOK'
  BY SizeAssumption DEF TypeOK, Junk, Buffer, Cells, Resources
<1>3. HasWhatItTook'
  BY <1>1, HadFirst DEF HasWhatItTook, CodeIsSound
<1>4. BufferIsReady'
  <2>1. SUFFICES ASSUME AtCall', prog' \in Checked,
                        Here'.op \in {"terminate", "show_string",
                          "show_string_if_any", "show_bytes", "show_counted"}
                 PROVE  FALSE
    BY DEF BufferIsReady
  <2>2. StepIsSound(p, 1)
    BY <1>1, <2>1 DEF CodeIsSound, AtCall
  <2> QED BY <2>1, <2>2 DEF StepIsSound, ReadsFirst, Here
<1> QED BY <1>2, <1>3, <1>4
        DEF UndoesWhatItHas, ReleasedWhenDone, ShownWasReceived, Ends

LEMMA FillStep == IInv /\ Fill => IInv'
<1> SUFFICES ASSUME IInv, Fill PROVE IInv'
  OBVIOUS
<1>1. Here.op \in {"fill_text", "fill_bytes"} /\ AtCall
  BY DEF Fill
<1>2. Here.take = {} /\ Freed(Here) = {}
  BY <1>1, CallFacts DEF StepIsSound, Here, Freed
<1>3. /\ HasWhatItTook' /\ UndoesWhatItHas' /\ ReleasedWhenDone'
      /\ pc' \in Nat \ {0} /\ held' \subseteq Resources
  BY <1>1, <1>2, CallPasses DEF Fill
<1>4. BufferIsReady'
  BY <1>1, QuietCall DEF Fill
<1>5. TypeOK'
  BY <1>3 DEF IInv, TypeOK, Fill, Filled, Buffer, Cells
<1> QED BY <1>3, <1>4, <1>5 DEF IInv, ShownWasReceived, Fill

LEMMA CallStep == IInv /\ Call => IInv'
<1> SUFFICES ASSUME IInv, Call PROVE IInv'
  OBVIOUS
<1>1. Here.op = "none" /\ AtCall
  BY DEF Call
<1>2. Freed(Here) = {}
  BY <1>1 DEF Freed
<1>3. /\ HasWhatItTook' /\ UndoesWhatItHas' /\ ReleasedWhenDone'
      /\ pc' \in Nat \ {0} /\ held' \subseteq Resources
  BY <1>1, <1>2, CallPasses DEF Call
<1>4. BufferIsReady'
  BY <1>1, QuietCall DEF Call
<1>5. TypeOK'
  BY <1>3 DEF IInv, TypeOK, Call
<1> QED BY <1>3, <1>4, <1>5 DEF IInv, ShownWasReceived, Call

\* A read of n bytes: one that asks for less than there is room for leaves a
\* place for the zero, and one that must be whole has filled the buffer.
LEMMA ReadSomeStep ==
  ASSUME IInv, NEW n \in 0..Size, ReadSome(n)
  PROVE  IInv'
<1>1. Here.op \in {"read", "read_less_one"} /\ AtCall
  BY DEF ReadSome
<1>2. Freed(Here) = {}
  BY <1>1 DEF Freed
<1>3. /\ HasWhatItTook' /\ UndoesWhatItHas' /\ ReleasedWhenDone'
      /\ pc' \in Nat \ {0} /\ held' \subseteq Resources
  BY <1>1, <1>2, CallPasses DEF ReadSome
<1>4. PICK data \in [1..n -> {"recv", "nul"}] :
        buf' = [i \in 1..Size |-> IF i <= n THEN data[i] ELSE buf[i]]
  BY DEF ReadSome
<1>5. Received(n)' /\ got' = n
  BY <1>4, SizeAssumption DEF Received, ReadSome
<1>6. TypeOK'
  BY <1>3, <1>4, <1>5 DEF IInv, TypeOK, ReadSome, Buffer, Cells
<1>7. BufferIsReady'
  <2> SUFFICES ASSUME AtCall', prog \in Checked PROVE BufferIsReady'
    BY DEF BufferIsReady, ReadSome
  <2>1. /\ Here'.op \notin {"show_string", "show_string_if_any"}
        /\ Here'.op = "terminate" => Here.op = "read_less_one"
        /\ Here'.op = "show_bytes" => Here.op = "read" /\ Here.fails = "short"
    BY <1>1, ReadBeforeShow DEF ReadSome
  <2>2. Here.op = "read_less_one" => n < Size
    BY SizeAssumption DEF ReadSome, Room
  <2>3. Here.op = "read" /\ Here.fails = "short" => n = Size
    BY DEF ReadSome, Room
  <2> QED BY <1>5, <2>1, <2>2, <2>3 DEF BufferIsReady, Received
<1> QED BY <1>3, <1>6, <1>7 DEF IInv, ShownWasReceived, ReadSome

LEMMA ReadFrameStep == IInv /\ ReadFrame => IInv'
<1> SUFFICES ASSUME IInv, ReadFrame PROVE IInv'
  OBVIOUS
<1>1. Here.op = "read_frame" /\ AtCall
  BY DEF ReadFrame
<1>2. Here.take = {} /\ Freed(Here) = {}
  BY <1>1, CallFacts DEF StepIsSound, Here, Freed
<1>3. /\ HasWhatItTook' /\ UndoesWhatItHas' /\ ReleasedWhenDone'
      /\ pc' \in Nat \ {0} /\ held' \subseteq Resources
  BY <1>1, <1>2, CallPasses DEF ReadFrame
<1>4. TypeOK'
  BY <1>3, SizeAssumption DEF IInv, TypeOK, ReadFrame, Buffer, Cells
<1>5. got' = 0 \/ Received(Size)'
  BY DEF ReadFrame, Received
<1>6. BufferIsReady'
  BY <1>1, <1>5, ReadBeforeShow DEF BufferIsReady, ReadFrame
<1> QED BY <1>3, <1>4, <1>6 DEF IInv, ShownWasReceived, ReadFrame

\* The zero goes behind the bytes received, inside the buffer.
LEMMA TerminateStep == IInv /\ Terminate => IInv'
<1> SUFFICES ASSUME IInv, Terminate PROVE IInv'
  OBVIOUS
<1>1. Here.op = "terminate" /\ AtCall
  BY DEF Terminate
<1>2. Here.take = {} /\ Freed(Here) = {}
  BY <1>1, CallFacts DEF StepIsSound, Here, Freed
<1>3. /\ HasWhatItTook' /\ UndoesWhatItHas' /\ ReleasedWhenDone'
      /\ pc' \in Nat \ {0} /\ held' \subseteq Resources
  BY <1>1, <1>2, CallPasses DEF Terminate
<1>4. TypeOK'
  BY <1>3 DEF IInv, TypeOK, Terminate, Buffer, Cells
<1>5. prog \in Checked => got < Size /\ Received(got)
  BY <1>1 DEF IInv, BufferIsReady
<1>6. prog \in Checked =>
        got' < Size /\ Received(got)' /\ buf'[got' + 1] = "nul"
  BY <1>5, SizeAssumption DEF IInv, TypeOK, Buffer, Received, Terminate
<1>7. BufferIsReady'
  BY <1>1, <1>6, ReadBeforeShow DEF BufferIsReady, Terminate
<1> QED BY <1>3, <1>4, <1>7 DEF IInv, ShownWasReceived, Terminate

\* printf stops at the first zero, so that it prints received bytes only when
\* a zero is there behind them.
LEMMA TextUpToZero ==
  ASSUME buf \in Buffer, NEW n \in 0..Size, n < Size,
         Received(n), buf[n + 1] = "nul"
  PROVE  Text \subseteq {"recv", "nul"}
<1>1. n + 1 \in 1..Size
  BY SizeAssumption
<1>2. Text = {buf[i] : i \in {j \in 1..Size : \A k \in 1..j : buf[k] # "nul"}}
  BY <1>1 DEF Text
<1>3. ASSUME NEW i \in 1..Size, \A k \in 1..i : buf[k] # "nul"
      PROVE  buf[i] \in {"recv", "nul"}
  <2>1. i <= n
    BY <1>1, <1>3
  <2> QED BY <2>1 DEF Received
<1> QED BY <1>2, <1>3

LEMMA ShowStep == IInv /\ Show => IInv'
<1> SUFFICES ASSUME IInv, Show PROVE IInv'
  OBVIOUS
<1>1. /\ AtCall
      /\ Here.op \in {"show_string", "show_string_if_any", "show_bytes",
                      "show_counted"}
      /\ pc' = pc + 1
      /\ UNCHANGED <<prog, held, undo, state, buf, got>>
  BY DEF Show
<1>2. Here.take = {} /\ Freed(Here) = {}
  BY <1>1, CallFacts DEF StepIsSound, Here, Freed
<1>3. /\ HasWhatItTook' /\ UndoesWhatItHas' /\ ReleasedWhenDone'
      /\ pc' \in Nat \ {0} /\ held' \subseteq Resources
  BY <1>1, <1>2, CallPasses
<1>4. BufferIsReady'
  BY <1>1, QuietCall
<1>5. TypeOK'
  <2>1. Text \subseteq Cells \cup {"past"}
    BY DEF Text, IInv, TypeOK, Buffer
  <2>2. shown' \subseteq Cells \cup {"past"}
    BY <2>1, SizeAssumption DEF Show, IInv, TypeOK, Buffer
  <2> QED BY <1>1, <1>3, <2>2 DEF IInv, TypeOK
<1>6. ASSUME prog \in Checked
      PROVE  shown' \subseteq {"recv", "nul"}
                                \cup (IF prog = "can" THEN {"past"} ELSE {})
  <2>1. CASE Here.op = "show_string"
    <3>1. got < Size /\ Received(got) /\ buf[got + 1] = "nul"
      BY <1>1, <1>6, <2>1 DEF IInv, BufferIsReady
    <3>2. Text \subseteq {"recv", "nul"}
      BY <3>1, TextUpToZero DEF IInv, TypeOK
    <3> QED BY <2>1, <3>2 DEF Show
  <2>2. CASE Here.op = "show_string_if_any" /\ got > 0
    <3>1. prog = "can"
      BY <1>1, <1>6, <2>2, CallFacts DEF StepIsSound, ReadsFirst, Here
    <3>2. Received(Size)
      BY <1>1, <1>6, <2>2 DEF IInv, BufferIsReady
    <3>3. Text \subseteq {"recv", "nul", "past"}
      BY <3>2 DEF Text, Received
    <3>4. shown' = Text
      BY <2>2 DEF Show, IInv, TypeOK
    <3> QED BY <3>1, <3>3, <3>4
  <2>3. CASE Here.op = "show_string_if_any" /\ ~(got > 0)
    BY <1>6, <2>3 DEF Show, IInv, ShownWasReceived, Checked, AllPrograms
  <2>4. CASE Here.op = "show_bytes"
    BY <1>1, <1>6, <2>4 DEF Show, IInv, BufferIsReady, Received
  <2>5. CASE Here.op = "show_counted"
    BY <1>1, <1>6, <2>5 DEF Show, IInv, BufferIsReady, Received
  <2> QED BY <1>1, <2>1, <2>2, <2>3, <2>4, <2>5
<1>7. ShownWasReceived'
  BY <1>1, <1>6, CallFacts DEF ShownWasReceived, Checked
<1> QED BY <1>3, <1>4, <1>5, <1>7 DEF IInv

LEMMA ReleaseOneStep == IInv /\ ReleaseOne => IInv'
<1> SUFFICES ASSUME IInv, ReleaseOne PROVE IInv'
  OBVIOUS
<1>1. Here.op = "release" /\ AtCall
  BY DEF ReleaseOne
<1>2. Here.take = {} /\ Freed(Here) = Here.on
  BY <1>1, CallFacts DEF StepIsSound, Here, Freed
<1>3. /\ HasWhatItTook' /\ UndoesWhatItHas' /\ ReleasedWhenDone'
      /\ pc' \in Nat \ {0} /\ held' \subseteq Resources
  BY <1>1, <1>2, CallPasses DEF ReleaseOne
<1>4. BufferIsReady'
  BY <1>1, QuietCall DEF ReleaseOne
<1>5. TypeOK'
  BY <1>3 DEF IInv, TypeOK, ReleaseOne
<1> QED BY <1>3, <1>4, <1>5 DEF IInv, ShownWasReceived, ReleaseOne

-----------------------------------------------------------------------------
(* Failures and ends.                                                      *)

\* The error path that begins is the one the table has for the call.
LEMMA FailStep == IInv /\ Fail => IInv'
<1> SUFFICES ASSUME IInv, Fail PROVE IInv'
  OBVIOUS
<1>1. AtCall /\ Here.fails \in {"error", "short"} /\ state' = "failing"
  BY DEF Fail
<1>2. /\ Releasable(undo', held)
      /\ prog \notin Careless =>
           held \subseteq Elems(undo') /\ "cache" \notin Elems(undo')
      /\ undo' \in Seq(Resources)
  BY <1>1, CallFacts DEF Fail, StepIsSound, Here, Entry
<1>3. UndoesWhatItHas'
  BY <1>1, <1>2, CallFacts DEF UndoesWhatItHas, Fail
<1>4. TypeOK'
  BY <1>2 DEF IInv, TypeOK, Fail
<1> QED BY <1>1, <1>3, <1>4 DEF IInv, HasWhatItTook, BufferIsReady, AtCall,
           ReleasedWhenDone, Ends, ShownWasReceived, Fail

\* Only a careless program does without the check that would save it, or has
\* a cache to misuse.
LEMMA FaultStep == IInv /\ Fault => IInv'
<1> SUFFICES ASSUME IInv, Fault PROVE IInv'
  OBVIOUS
<1>1. prog \in Careless
  <2>1. CASE AtCall
    BY <2>1, CallFacts DEF Fault, Misused, StepIsSound, Here, AtCall
  <2>2. CASE state = "failing" /\ undo # <<>> /\ Head(undo) = "cache"
    <3>1. Len(undo) \in Nat \ {0} /\ Head(undo) = undo[1]
      BY <2>2 DEF IInv, TypeOK
    <3>2. "cache" \in Elems(undo)
      BY <2>2, <3>1 DEF Elems
    <3> QED BY <2>2, <3>2 DEF IInv, UndoesWhatItHas
  <2> QED BY <2>1, <2>2 DEF Fault, Misused
<1> QED BY <1>1 DEF Fault, IInv, TypeOK, Ends, HasWhatItTook, UndoesWhatItHas,
           BufferIsReady, AtCall, ReleasedWhenDone, ShownWasReceived

\* What is left of the list can still be released, and is still all there is.
LEMMA UndoStep == IInv /\ Undo => IInv'
<1> SUFFICES ASSUME IInv, Undo PROVE IInv'
  OBVIOUS
<1>1. /\ state = "failing" /\ state' = "failing"
      /\ undo \in Seq(Resources) /\ undo # <<>>
      /\ undo' = Tail(undo) /\ held' = held \ {Head(undo)}
      /\ Releasable(undo, held)
      /\ prog \in Programs /\ prog' = prog
      /\ prog \notin Careless =>
           held \subseteq Elems(undo) /\ "cache" \notin Elems(undo)
  BY DEF Undo, IInv, TypeOK, UndoesWhatItHas
<1>2. /\ Len(undo) \in Nat \ {0} /\ Len(undo') = Len(undo) - 1
      /\ undo' \in Seq(Resources)
      /\ Head(undo) = undo[1]
      /\ \A i \in 1..Len(undo') : undo'[i] = undo[i + 1]
  BY <1>1
<1>3. Elems(undo') = Elems(undo) \ {Head(undo)}
  <2>1. ASSUME NEW i \in 1..Len(undo')
        PROVE  undo'[i] \in Elems(undo) /\ undo'[i] # Head(undo)
    BY <1>1, <1>2 DEF Elems, Releasable
  <2>2. ASSUME NEW i \in 1..Len(undo), undo[i] # Head(undo)
        PROVE  undo[i] \in Elems(undo')
    <3>1. i - 1 \in 1..Len(undo') /\ undo'[i - 1] = undo[i]
      BY <1>2, <2>2
    <3> QED BY <3>1 DEF Elems
  <2> QED BY <2>1, <2>2 DEF Elems
<1>4. \A i, j \in 1..Len(undo') : i # j => undo'[i] # undo'[j]
  BY <1>1, <1>2 DEF Releasable
<1>5. UndoesWhatItHas'
  BY <1>1, <1>3, <1>4 DEF UndoesWhatItHas, Releasable
<1>6. TypeOK'
  BY <1>1, <1>2 DEF IInv, TypeOK, Undo
<1> QED BY <1>1, <1>5, <1>6 DEF IInv, HasWhatItTook, BufferIsReady, AtCall,
           ReleasedWhenDone, Ends, ShownWasReceived, Undo

\* When the list has come to its end a careful program has nothing left.
LEMMA UndoneStep == IInv /\ Undone => IInv'
<1> SUFFICES ASSUME IInv, Undone PROVE IInv'
  OBVIOUS
<1>1. ReleasedWhenDone'
  BY UndoLists DEF Undone, IInv, UndoesWhatItHas, ReleasedWhenDone
<1> QED BY <1>1 DEF Undone, IInv, TypeOK, Ends, HasWhatItTook, UndoesWhatItHas,
           BufferIsReady, AtCall, ShownWasReceived

LEMMA FinishStep == IInv /\ Finish => IInv'
<1> SUFFICES ASSUME IInv, Finish PROVE IInv'
  OBVIOUS
<1>1. /\ prog \in AllPrograms /\ held = Had(prog, pc)
      /\ pc \in 1..(Len(Code[prog]) + 1) /\ pc > Len(Code[prog])
  BY ProgramsAssumption DEF Finish, IInv, HasWhatItTook
<1>2. CodeIsSound(prog)
  BY <1>1, AllProgramsSound
<1>3. pc = Len(Code[prog]) + 1
  BY <1>1, <1>2 DEF CodeIsSound
<1>4. ReleasedWhenDone'
  BY <1>1, <1>2, <1>3 DEF CodeIsSound, Finish, ReleasedWhenDone
<1> QED BY <1>4 DEF Finish, IInv, TypeOK, Ends, HasWhatItTook, UndoesWhatItHas,
           BufferIsReady, AtCall, ShownWasReceived

-----------------------------------------------------------------------------
(* The theorems.                                                           *)

LEMMA InitInv == Init => IInv
BY SizeAssumption DEF Init, IInv, TypeOK, Junk, Buffer, Cells, Ends,
   Resources, HasWhatItTook,
   UndoesWhatItHas, BufferIsReady, AtCall, ReleasedWhenDone, ShownWasReceived

LEMMA NextInv == IInv /\ [Next]_vars => IInv'
<1> SUFFICES ASSUME IInv, [Next]_vars PROVE IInv'
  OBVIOUS
<1>1. CASE UNCHANGED vars
  BY <1>1 DEF vars, IInv, TypeOK, HasWhatItTook, UndoesWhatItHas, Received,
     BufferIsReady, AtCall, Here, ReleasedWhenDone, ShownWasReceived
<1>2. CASE ProgramStep
  BY <1>2, FillStep, CallStep, ReadFrameStep, TerminateStep, ShowStep,
     ReleaseOneStep, FailStep, FaultStep, UndoStep, UndoneStep, FinishStep,
     ReadSomeStep DEF ProgramStep
<1> QED BY <1>1, <1>2, StartStep DEF Next

LEMMA Invariance == Spec => []IInv
BY InitInv, NextInv, PTL DEF Spec

\* Clients keeps its types, for every choice of programs and buffer size.
THEOREM ClientsTypeCorrect == Spec => []TypeOK
BY Invariance, PTL DEF IInv

\* Whichever call fails, a careful program ends with nothing left open or
\* allocated.
THEOREM ClientsReleaseAll == Spec => []ReleasedWhenDone
BY Invariance, PTL DEF IInv

\* No call is made on a resource that was never taken, or has been released,
\* and nothing is released twice.
THEOREM ClientsUseWhatTheyHave == Spec => []CallsHaveTheirResources
<1>1. IInv => CallsHaveTheirResources
  <2> SUFFICES ASSUME IInv PROVE CallsHaveTheirResources
    OBVIOUS
  <2>1. AtCall => Here.on \subseteq held
    BY CallFacts DEF StepIsSound, Here
  <2>2. ASSUME state = "failing", NEW i \in 1..Len(undo)
        PROVE  undo[i] \in held /\ \A j \in 1..(i - 1) : undo[j] # undo[i]
    BY <2>2 DEF IInv, TypeOK, UndoesWhatItHas, Releasable, Elems
  <2> QED BY <2>1, <2>2 DEF CallsHaveTheirResources
<1> QED BY <1>1, Invariance, PTL

\* Whatever a read returns, a program that looks at the count prints only what
\* it has received.
THEOREM ClientsPrintReceived == Spec => []ShownWasReceived
BY Invariance, PTL DEF IInv

-----------------------------------------------------------------------------
(* What is left behind.  The invariant above says that a careful program   *)
(* ends with nothing; this one says exactly what any program ends with,    *)
(* from its table and the call it came to.                                 *)

EndsAsWritten ==
  /\ state = "failing" => /\ pc \in 1..Len(Code[prog])
                          /\ Here.fails \in {"error", "short"}
                          /\ Elems(undo) \subseteq Elems(Here.undo)
                          /\ held \ Elems(undo) = Kept(prog, pc)
  /\ state = "exited"  => /\ pc \in 1..Len(Code[prog])
                          /\ Here.fails \in {"error", "short"}
                          /\ held = Kept(prog, pc)
  /\ state = "killed"  =>
       /\ pc \in 1..Len(Code[prog])
       /\ \/ /\ Here.fails = "fault" \/ "cache" \in Here.on
             /\ held = Had(prog, pc)
          \/ /\ Here.fails \in {"error", "short"}
             /\ "cache" \in Elems(Here.undo)
             /\ Kept(prog, pc) \subseteq held
  /\ state = "returned" /\ prog # "none" =>
       /\ pc = Len(Code[prog]) + 1
       /\ held = Had(prog, pc)

\* An error path takes from what is held and from what is left to release the
\* same thing, so that their difference stays what the failed call made it.
LEMMA UndoKeepsTheRest ==
  ASSUME IInv, EndsAsWritten, Undo
  PROVE  EndsAsWritten'
<1>1. /\ state = "failing" /\ state' = "failing"
      /\ undo' = Tail(undo) /\ held' = held \ {Head(undo)}
      /\ undo \in Seq(Resources) /\ undo # <<>>
      /\ Releasable(undo, held)
      /\ UNCHANGED <<prog, pc>>
  BY DEF Undo, IInv, TypeOK, UndoesWhatItHas
<1>2. /\ Len(undo) \in Nat \ {0} /\ Len(undo') = Len(undo) - 1
      /\ Head(undo) = undo[1]
      /\ \A i \in 1..Len(undo') : undo'[i] = undo[i + 1]
  BY <1>1
<1>3. Elems(undo) = Elems(undo') \cup {Head(undo)}
  <2>1. ASSUME NEW i \in 1..Len(undo), i # 1
        PROVE  undo[i] \in Elems(undo')
    <3>1. i - 1 \in 1..Len(undo') /\ undo'[i - 1] = undo[i]
      BY <1>2, <2>1
    <3> QED BY <3>1 DEF Elems
  <2>2. ASSUME NEW i \in 1..Len(undo')
        PROVE  undo'[i] \in Elems(undo)
    BY <1>2 DEF Elems
  <2>3. Head(undo) \in Elems(undo)
    BY <1>2 DEF Elems
  <2> QED BY <1>2, <2>1, <2>2, <2>3 DEF Elems
<1>4. held' \ Elems(undo') = held \ Elems(undo)
  BY <1>1, <1>3
<1>5. Elems(undo') \subseteq Elems(undo)
  BY <1>3
<1> QED BY <1>1, <1>4, <1>5 DEF EndsAsWritten, Here

LEMMA EndsStep ==
  ASSUME IInv, EndsAsWritten, [Next]_vars
  PROVE  EndsAsWritten'
<1>1. CASE Fail
  <2>1. AtCall /\ held = Had(prog, pc) /\ pc \in 1..Len(Code[prog])
    BY <1>1, CallFacts DEF Fail
  <2> QED BY <1>1, <2>1 DEF Fail, EndsAsWritten, Here, Kept
<1>2. CASE Fault
  <2>1. CASE AtCall
    <3>1. held = Had(prog, pc) /\ pc \in 1..Len(Code[prog])
      BY <2>1, CallFacts
    <3> QED BY <1>2, <2>1, <3>1 DEF Fault, Misused, EndsAsWritten, Here, AtCall
  <2>2. CASE state = "failing" /\ undo # <<>> /\ Head(undo) = "cache"
    <3>1. Len(undo) \in Nat \ {0} /\ Head(undo) = undo[1]
      BY <2>2 DEF IInv, TypeOK
    <3>2. "cache" \in Elems(undo)
      BY <2>2, <3>1 DEF Elems
    <3> QED BY <1>2, <2>2, <3>2 DEF Fault, EndsAsWritten, Here
  <2> QED BY <1>2, <2>1, <2>2 DEF Fault, Misused
<1>3. CASE Undone
  BY <1>3, UndoLists DEF Undone, EndsAsWritten, Here
<1>4. CASE Finish
  <2>1. /\ prog \in AllPrograms /\ held = Had(prog, pc)
        /\ pc \in 1..(Len(Code[prog]) + 1) /\ pc > Len(Code[prog])
    BY <1>4, ProgramsAssumption DEF Finish, IInv, HasWhatItTook
  <2>2. Len(Code[prog]) \in Nat
    BY <2>1, AllProgramsSound DEF CodeIsSound
  <2> QED BY <1>4, <2>1, <2>2 DEF Finish, EndsAsWritten
<1>5. CASE \/ Fill \/ Call \/ ReadFrame \/ Terminate \/ Show \/ ReleaseOne
           \/ \E n \in 0..Size : ReadSome(n)
           \/ \E p \in Programs : Start(p)
  <2>1. state' = "running"
    BY <1>5 DEF Fill, Call, ReadFrame, Terminate, Show, ReleaseOne, ReadSome,
       Start, AtCall
  <2> QED BY <2>1 DEF EndsAsWritten
<1>6. CASE UNCHANGED vars
  BY <1>6 DEF vars, EndsAsWritten, Here
<1> QED BY <1>1, <1>2, <1>3, <1>4, <1>5, <1>6, UndoKeepsTheRest
        DEF Next, ProgramStep

LEMMA EndsInvariance == Spec => []EndsAsWritten
<1>1. Init => EndsAsWritten
  BY DEF Init, EndsAsWritten
<1>2. IInv /\ EndsAsWritten /\ [Next]_vars => EndsAsWritten'
  BY EndsStep
<1> QED BY <1>1, <1>2, Invariance, PTL DEF Spec

\* The exceptions that ReleasedWhenDone makes are as narrow as they can be: for
\* each careless program, what it leaves behind after which of its calls.
THEOREM ClientsCarelessKeep == Spec => []WhatTheCarelessKeep
<1>1. IInv /\ EndsAsWritten => WhatTheCarelessKeep
  <2> SUFFICES ASSUME IInv, EndsAsWritten, state \in Ends
               PROVE  WhatTheCarelessKeep
    BY DEF WhatTheCarelessKeep
  <2> USE DEF EndsAsWritten, Ends, Here
  <2>1. CASE prog = "spi"
    <3>1. held = IF state = "exited" /\ pc > 1 THEN {"fd"} ELSE {}
      BY <2>1, SpiSound
    <3> QED BY <2>1, <3>1 DEF WhatTheCarelessKeep
  <2>2. CASE prog = "scan"
    <3>1. \A k \in 1..9 : Code["scan"][k].fails # "short"
      BY ScanSound
    <3> DEFINE lost == IF pc > 3 THEN {"nlsock", "entries"} ELSE {}
    <3>2. state \in {"exited", "returned"} => held = lost
      BY <2>2, <3>1, ScanSound
    <3>3. state = "killed" => lost \subseteq held
      BY <2>2, <3>1, ScanSound
    <3> QED BY <2>2, <3>2, <3>3 DEF WhatTheCarelessKeep
  <2>3. CASE prog = "net_usp"
    <3>1. pc \in 1..4 /\ held = Had("net_usp", pc)
      BY <2>3, NetUspSound
    <3>2. \/ pc = 1 /\ held = {}
          \/ pc = 2 /\ held = {"fd"}
          \/ pc \in {3, 4} /\ held = {"fd", "packet"}
      BY <3>1, NetUspSound
    <3> QED BY <2>3, <3>2 DEF WhatTheCarelessKeep
  <2> QED BY <2>1, <2>2, <2>3 DEF WhatTheCarelessKeep
<1> QED BY <1>1, Invariance, EndsInvariance, PTL
===============================================================================
